----------------------------- MODULE FoldFacts -----------------------------
(***************************************************************************)
(* Induction over a fold.  The operator that is folded and the invariant   *)
(* are constants of this module: a module that wants to reason about a     *)
(* fold of its own instantiates them, which gives it the theorem Folded    *)
(* for its operator.  `c' stands for whatever else both depend on.         *)
(***************************************************************************)
EXTENDS Integers, Sequences, Folds

CONSTANTS
  Op(_, _, _),     \* Op(c, a, x): the value a, after the element x
  Inv(_, _, _)     \* Inv(c, k, a): what holds of the value after k elements

(* FoldLeft(LAMBDA a, x : Op(c, a, x), base, seq) and Max of the community *)
(* modules, spelled out: an instance of this module brings few definitions *)
(* with it.                                                                *)
Largest(S) == CHOOSE x \in S : \A y \in S : x >= y
Folding(c, base, seq) ==
  MapThenFoldSet(LAMBDA x, a : Op(c, a, x), base, LAMBDA i : seq[i], LAMBDA S : Largest(S),
                 DOMAIN seq)

-----------------------------------------------------------------------------
(* The least-number principle.  It is a hypothesis of what follows: the    *)
(* library module that states it would come along with every instance of   *)
(* this one, so CleanupScopesProofs proves it once (WellOrdered).          *)
LeastNumbers == \A S \in SUBSET Nat : S # {} => \E i \in S : \A k \in S : i <= k

(* Induction up to n, the property given by its extension.                 *)
LEMMA UpTo ==
  ASSUME LeastNumbers, NEW n \in Nat, NEW S, 0 \in S, \A k \in 1 .. n : k - 1 \in S => k \in S
  PROVE  \A k \in 0 .. n : k \in S
<1> DEFINE T == {k \in 0 .. n : k \notin S}
<1> SUFFICES ASSUME T # {} PROVE FALSE
  OBVIOUS
<1>0. T \subseteq Nat
  OBVIOUS
<1> HIDE DEF T
<1>1. PICK m \in T : \A k \in T : m <= k
  BY <1>0 DEF LeastNumbers
<1>2. m # 0 /\ m \in 1 .. n /\ m - 1 \in 0 .. n
  BY <1>1 DEF T
<1>3. m - 1 \notin T
  BY <1>1, <1>2
<1> QED
  BY <1>1, <1>2, <1>3 DEF T

(* The largest element of a set of positions.                              *)
LEMMA MaxOfPositions ==
  ASSUME LeastNumbers, NEW n \in Nat, NEW s \in SUBSET (1 .. n), s # {}
  PROVE  Largest(s) \in s /\ \A y \in s : Largest(s) >= y
<1> DEFINE T == {n - y : y \in s}
<1>0. \A y \in s : y \in 1 .. n /\ n - y \in Nat
  OBVIOUS
<1>1. T \subseteq Nat /\ T # {}
  BY <1>0
<1> HIDE DEF T
<1>2. PICK i \in T : \A k \in T : i <= k
  BY <1>1 DEF LeastNumbers
<1>3. PICK x \in s : i = n - x
  BY <1>2 DEF T
<1>4. \A y \in s : x >= y
  <2>1. ASSUME NEW y \in s PROVE x >= y
    <3>1. n - y \in T
      BY DEF T
    <3> QED
      BY <1>0, <1>2, <1>3, <3>1
  <2> QED
    BY <2>1
<1> QED
  BY <1>3, <1>4 DEF Largest

(* What FoldLeft's recursive function is at the set s of positions.        *)
At(c, base, seq, iter, s) ==
  IF s = {} THEN base ELSE Op(c, iter[s \ {Largest(s)}], seq[Largest(s)])

Recursion(c, base, seq, n, iter) ==
  iter = [s \in SUBSET (1 .. n) |-> At(c, base, seq, iter, s)]

(* That function exists.                                                   *)
LEMMA RecursionDefined ==
  ASSUME LeastNumbers, NEW c, NEW base, NEW seq, NEW n \in Nat
  PROVE  \E iter : Recursion(c, base, seq, n, iter)
<1> DEFINE Value(iter, s) == IF s = {} THEN base ELSE Op(c, iter[s \ {Largest(s)}], seq[Largest(s)])
           S == {m \in 0 .. n : \E iter : iter = [s \in SUBSET (1 .. m) |-> Value(iter, s)]}
<1>1. 0 \in S
  <2> DEFINE iter == [s \in SUBSET (1 .. 0) |-> base]
  <2>1. \A s \in SUBSET (1 .. 0) : s = {}
    OBVIOUS
  <2>2. iter = [s \in SUBSET (1 .. 0) |-> Value(iter, s)]
    <3>1. \A s \in SUBSET (1 .. 0) : base = Value(iter, s)
      BY <2>1
    <3> HIDE DEF Value
    <3> QED
      BY <3>1
  <2> HIDE DEF iter, Value
  <2>3. 0 \in 0 .. n
    OBVIOUS
  <2> QED
    BY <2>2, <2>3
<1>2. ASSUME NEW m \in 1 .. n, m - 1 \in S PROVE m \in S
  <2>1. PICK old : old = [s \in SUBSET (1 .. m - 1) |-> Value(old, s)]
    BY <1>2
  <2>2. \A s \in SUBSET (1 .. m - 1) : old[s] = Value(old, s)
    <3> HIDE DEF Value
    <3> QED
      BY <2>1
  <2> DEFINE iter == [s \in SUBSET (1 .. m) |->
                        IF m \in s THEN Op(c, old[s \ {m}], seq[m]) ELSE old[s]]
  <2>3. ASSUME NEW s \in SUBSET (1 .. m) PROVE iter[s] = Value(iter, s)
    <3>1. CASE m \in s
      <4>1. Largest(s) = m /\ s # {}
        <5>0. m \in Nat /\ s # {}
          BY <3>1
        <5>1. Largest(s) \in s /\ Largest(s) >= m
          BY <3>1, <5>0, MaxOfPositions
        <5>2. Largest(s) \in 1 .. m
          BY <5>1
        <5> QED
          BY <5>0, <5>1, <5>2
      <4>2. s \ {m} \in SUBSET (1 .. m) /\ m \notin s \ {m}
        OBVIOUS
      <4>3. iter[s] = Op(c, old[s \ {m}], seq[m]) /\ iter[s \ {m}] = old[s \ {m}]
        BY <3>1, <4>2
      <4> HIDE DEF iter
      <4> QED
        BY <4>1, <4>3
    <3>2. CASE m \notin s /\ s = {}
      <4>1. s \in SUBSET (1 .. m - 1)
        BY <3>2
      <4> QED
        BY <2>2, <3>2, <4>1
    <3>3. CASE m \notin s /\ s # {}
      <4>0. \A x \in s : x \in 1 .. m - 1
        BY <3>3
      <4>1. s \in SUBSET (1 .. m - 1) /\ s \ {Largest(s)} \in SUBSET (1 .. m) /\ m \notin s \ {Largest(s)}
        BY <3>3, <4>0
      <4>2. iter[s] = old[s] /\ iter[s \ {Largest(s)}] = old[s \ {Largest(s)}]
        BY <3>3, <4>1
      <4>3. old[s] = Op(c, old[s \ {Largest(s)}], seq[Largest(s)])
        BY <2>2, <3>3, <4>1
      <4> HIDE DEF iter
      <4> QED
        BY <3>3, <4>2, <4>3
    <3> QED
      BY <3>1, <3>2, <3>3
  <2>4. iter = [s \in SUBSET (1 .. m) |-> iter[s]]
    OBVIOUS
  <2> HIDE DEF iter, Value
  <2>5. iter = [s \in SUBSET (1 .. m) |-> Value(iter, s)]
    BY <2>3, <2>4
  <2> QED
    BY <2>5
<1> HIDE DEF S
<1>3. n \in S
  BY <1>1, <1>2, UpTo
<1> QED
  BY <1>3 DEF S, At, Recursion

(* The values of a fold, one after the other.                              *)
Values(c, base, seq, v) ==
  /\ v[0] = base
  /\ \A k \in 1 .. Len(seq) : v[k] = Op(c, v[k - 1], seq[k])
  /\ Folding(c, base, seq) = v[Len(seq)]

LEMMA Unfolded ==
  ASSUME LeastNumbers, NEW c, NEW base, NEW T, NEW seq \in Seq(T)
  PROVE  \E v : Values(c, base, seq, v)
<1> DEFINE n == Len(seq)
           fold == CHOOSE iter : Recursion(c, base, seq, n, iter)
           v == [k \in 0 .. n |-> fold[1 .. k]]
<1>0. n \in Nat /\ DOMAIN seq = 1 .. n
  OBVIOUS
<1>1. Recursion(c, base, seq, n, fold)
  BY <1>0, RecursionDefined
<1>2. Folding(c, base, seq) = fold[1 .. n]
  BY <1>0 DEF Folding, MapThenFoldSet, Recursion, At
<1> HIDE DEF fold, n
<1>3. \A s \in SUBSET (1 .. n) : fold[s] = At(c, base, seq, fold, s)
  BY <1>1 DEF Recursion
<1>4. fold[1 .. 0] = base
  <2>1. 1 .. 0 = {} /\ 1 .. 0 \in SUBSET (1 .. n)
    BY <1>0
  <2> QED
    BY <1>3, <2>1 DEF At
<1>5. ASSUME NEW k \in 1 .. n PROVE fold[1 .. k] = Op(c, fold[1 .. k - 1], seq[k])
  <2>0. k \in Nat /\ k - 1 \in Nat /\ k \in 0 .. n
    BY <1>0
  <2>1. 1 .. k \in SUBSET (1 .. n) /\ 1 .. k # {} /\ (1 .. k) \ {k} = 1 .. k - 1 /\ k \in 1 .. k
    <3>1. \A x : x \in (1 .. k) \ {k} <=> x \in 1 .. k - 1
      BY <1>0, <2>0
    <3>2. \A x \in 1 .. k : x \in 1 .. n
      BY <1>0, <2>0
    <3>3. k \in 1 .. k
      BY <2>0
    <3> QED
      BY <3>1, <3>2, <3>3
  <2>2. Largest(1 .. k) = k
    <3>0. 1 .. k \in SUBSET (1 .. k)
      OBVIOUS
    <3>1. Largest(1 .. k) \in 1 .. k /\ Largest(1 .. k) >= k
      BY <2>0, <2>1, <3>0, MaxOfPositions
    <3> QED
      BY <2>0, <3>1
  <2> QED
    BY <1>3, <2>1, <2>2 DEF At
<1>6. \A k \in 0 .. n : v[k] = fold[1 .. k]
  OBVIOUS
<1> HIDE DEF v
<1>7. v[0] = base
  <2>1. 0 \in 0 .. n
    BY <1>0
  <2> QED
    BY <1>4, <1>6, <2>1
<1>8. ASSUME NEW k \in 1 .. n PROVE v[k] = Op(c, v[k - 1], seq[k])
  <2>1. k \in 0 .. n /\ k - 1 \in 0 .. n
    BY <1>0
  <2> QED
    BY <1>5, <1>6, <2>1
<1>9. v[n] = fold[1 .. n]
  <2>1. n \in 0 .. n
    BY <1>0
  <2> QED
    BY <1>6, <2>1
<1>10. Values(c, base, seq, v)
  BY <1>2, <1>7, <1>8, <1>9 DEF Values, n
<1> QED
  BY <1>10

(* What holds at first and is kept by each element holds in the end.       *)
THEOREM Folded ==
  ASSUME LeastNumbers, NEW c, NEW base, NEW T, NEW seq \in Seq(T),
         Inv(c, 0, base),
         \A k \in 1 .. Len(seq) : \A a : Inv(c, k - 1, a) => Inv(c, k, Op(c, a, seq[k]))
  PROVE  Inv(c, Len(seq), Folding(c, base, seq))
<1> DEFINE n == Len(seq)
<1>0. n \in Nat
  OBVIOUS
<1>1. PICK v : Values(c, base, seq, v)
  BY Unfolded
<1> DEFINE S == {k \in 0 .. n : Inv(c, k, v[k])}
<1>2. 0 \in S
  BY <1>0, <1>1 DEF Values
<1>3. ASSUME NEW k \in 1 .. n, k - 1 \in S PROVE k \in S
  <2>1. k \in 0 .. n /\ Inv(c, k - 1, v[k - 1])
    BY <1>0, <1>3
  <2>2. Inv(c, k, Op(c, v[k - 1], seq[k]))
    BY <2>1
  <2> QED
    BY <1>1, <2>1, <2>2 DEF Values
<1> HIDE DEF S, n
<1>4. n \in S
  BY <1>0, <1>2, <1>3, UpTo
<1> QED
  BY <1>1, <1>4 DEF S, n, Values

(* One more element.                                                       *)
THEOREM FoldedAppend ==
  ASSUME LeastNumbers, NEW c, NEW base, NEW T, NEW seq \in Seq(T), NEW x \in T
  PROVE  Folding(c, base, Append(seq, x)) = Op(c, Folding(c, base, seq), x)
<1> DEFINE n == Len(seq)
           q == Append(seq, x)
<1>0. n \in Nat /\ q \in Seq(T) /\ Len(q) = n + 1 /\ (\A k \in 1 .. n : q[k] = seq[k])
      /\ q[n + 1] = x
  OBVIOUS
<1> HIDE DEF q
<1>1. PICK v : Values(c, base, seq, v)
  BY Unfolded
<1>2. PICK u : Values(c, base, q, u)
  BY <1>0, Unfolded
<1> DEFINE S == {k \in 0 .. n : v[k] = u[k]}
<1>3. 0 \in S
  BY <1>0, <1>1, <1>2 DEF Values
<1>4. ASSUME NEW k \in 1 .. n, k - 1 \in S PROVE k \in S
  <2>1. k \in 0 .. n /\ v[k - 1] = u[k - 1] /\ k \in 1 .. Len(q) /\ q[k] = seq[k]
    BY <1>0, <1>4
  <2>2. v[k] = Op(c, v[k - 1], seq[k]) /\ u[k] = Op(c, u[k - 1], q[k])
    BY <1>1, <1>2, <2>1 DEF Values
  <2> QED
    BY <2>1, <2>2
<1> HIDE DEF S, n
<1>5. n \in S
  <2>1. n \in Nat /\ \A k \in 1 .. n : k - 1 \in S => k \in S
    BY <1>0, <1>4
  <2>2. \A k \in 0 .. n : k \in S
    BY <1>3, <2>1, UpTo
  <2> QED
    BY <2>1, <2>2
<1>6. u[n + 1] = Op(c, u[n], x)
  <2>1. n + 1 \in 1 .. Len(q) /\ (n + 1) - 1 = n
    BY <1>0
  <2>2. u[n + 1] = Op(c, u[(n + 1) - 1], q[n + 1])
    BY <1>2, <2>1 DEF Values
  <2> QED
    BY <1>0, <2>1, <2>2
<1>7. Folding(c, base, seq) = v[n] /\ Folding(c, base, q) = u[n + 1]
  BY <1>0, <1>1, <1>2 DEF Values, n
<1> QED
  BY <1>5, <1>6, <1>7 DEF S, q

=============================================================================
