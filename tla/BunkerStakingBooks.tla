------------------------- MODULE BunkerStakingBooks -------------------------
(***************************************************************************)
(* Lemmas about the books of BunkerStaking: the queues of requests, the    *)
(* parameters, the stakes, the rewards, the vestings and the tokens, and   *)
(* that every step keeps what the invariant says of each.                  *)
(***************************************************************************)
EXTENDS BunkerStaking

(* The provers a leaf is given to, in this order, when it names none. *)
USE SMTT(20), ZenonT(30), Z3T(30)

(* What the queue of a provider holds. *)
LEMMA QueueTypes ==
  ASSUME NEW q \in Seq(UnstakeRequest)
  PROVE  /\ Len(q) \in Nat /\ IsFiniteSet(1 .. Len(q))
         /\ \A i \in 1 .. Len(q) : /\ q[i] \in UnstakeRequest /\ q[i].amount \in Nat
                                   /\ q[i].completed \in BOOLEAN
                                   /\ Pending(q)[i] \in Nat
                                   /\ Pending(q)[i] = IF q[i].completed THEN 0 ELSE q[i].amount
<1>1. Len(q) \in Nat
  OBVIOUS
<1>2. IsFiniteSet(1 .. Len(q))
  BY <1>1, FS_Interval
<1>3. ASSUME NEW i \in 1 .. Len(q)
      PROVE  q[i] \in UnstakeRequest /\ q[i].amount \in Nat /\ q[i].completed \in BOOLEAN
  <2>1. q[i] \in UnstakeRequest
    OBVIOUS
  <2> QED BY <2>1 DEF UnstakeRequest
<1> QED BY <1>1, <1>2, <1>3 DEF Pending

(* A sum over 1..i has one summand more than the sum over 1..i-1. *)
LEMMA SumOverLast ==
  ASSUME NEW n \in Nat, NEW f, \A j \in 1 .. n : f[j] \in Int, NEW i \in 1 .. n
  PROVE  /\ SumOver(f, 1 .. i) = f[i] + SumOver(f, 1 .. (i - 1))
         /\ SumOver(f, 1 .. (i - 1)) \in Int
<1>1. IsFiniteSet(1 .. i) /\ IsFiniteSet(1 .. (i - 1))
  BY FS_Interval
<1>2. (1 .. i) \ {i} = 1 .. (i - 1) /\ i \in 1 .. i
  OBVIOUS
<1>3. \A j \in 1 .. i : f[j] \in Int
  OBVIOUS
<1>4. SumOver(f, 1 .. i) = f[i] + SumOver(f, (1 .. i) \ {i})
  BY <1>1, <1>2, <1>3, SumOverRemove
<1>5. \A j \in 1 .. (i - 1) : f[j] \in Int
  OBVIOUS
<1> QED BY <1>1, <1>2, <1>4, <1>5, SumOverType, Zenon

LEMMA MaxZero ==
  ASSUME NEW x \in Int
  PROVE  Max({0, x}) = IF x > 0 THEN x ELSE 0
BY DEF Max

(* One request gives what it holds, or what is still to be taken. *)
LEMMA TakeOne ==
  ASSUME NEW x \in Nat, NEW l \in Int, NEW m \in Int, m = l - x
  PROVE  Least(x, IF l > 0 THEN l ELSE 0) + (IF m > 0 THEN m ELSE 0) = IF l > 0 THEN l ELSE 0
BY DEF Least

(* What a slash takes from the requests up to i is what is left of it when *)
(* the newer ones are used up: the newest give first.                      *)
LEMMA TakenSoFar ==
  ASSUME NEW q \in Seq(UnstakeRequest), NEW rest \in Nat,
         rest <= SumOver(Pending(q), 1 .. Len(q))
  PROVE  /\ \A i \in 1 .. Len(q) : Taken(q, rest)[i] \in 0 .. Pending(q)[i]
         /\ SumOver(Taken(q, rest), 1 .. Len(q)) = rest
<1> DEFINE n == Len(q)
           f == Pending(q)
           t == Taken(q, rest)
           S(i) == SumOver(f, 1 .. i)
           left(i) == rest - (S(n) - S(i))
           P(i) == SumOver(t, 1 .. i) = IF left(i) > 0 THEN left(i) ELSE 0
<1>1. n \in Nat /\ \A i \in 1 .. n : f[i] \in Nat
  BY QueueTypes
<1>2. \A i \in 0 .. n : S(i) \in Int
  <2> TAKE i \in 0 .. n
  <2>1. IsFiniteSet(1 .. i)
    BY FS_Interval
  <2> HIDE DEF f, n
  <2>2. \A j \in 1 .. i : f[j] \in Int
    BY <1>1
  <2> QED BY <2>1, <2>2, SumOverType
<1>3. ASSUME NEW i \in 1 .. n
      PROVE  t[i] = Least(f[i], IF left(i) > 0 THEN left(i) ELSE 0)
  <2>1. t[i] = Least(f[i], Max({0, left(i)}))
    BY DEF Taken, Newer
  <2>2. left(i) \in Int
    <3>1. S(n) \in Int /\ S(i) \in Int
      BY <1>1, <1>2
    <3> HIDE DEF S
    <3> QED BY <3>1
  <2> HIDE DEF left
  <2> QED BY <2>1, <2>2, MaxZero
<1>4. ASSUME NEW i \in 1 .. n PROVE t[i] \in 0 .. f[i]
  <2>1. f[i] \in Nat /\ S(n) \in Int /\ S(i) \in Int
    BY <1>1, <1>2
  <2> HIDE DEF S, f, t
  <2> QED BY <1>3, <2>1 DEF Least
<1>5. ASSUME NEW i \in 1 .. n, P(i - 1) PROVE P(i)
  <2>1. SumOver(t, 1 .. i) = t[i] + SumOver(t, 1 .. (i - 1))
    <3>1. \A j \in 1 .. n : t[j] \in Int
      BY <1>1, <1>4
    <3> HIDE DEF n, t
    <3> QED BY <1>1, <3>1, SumOverLast, Zenon
  <2>2. S(i) = f[i] + S(i - 1) /\ S(i - 1) \in Int
    <3>1. \A j \in 1 .. n : f[j] \in Int
      BY <1>1
    <3> HIDE DEF n, f
    <3> QED BY <1>1, <3>1, SumOverLast
  <2>3. f[i] \in Nat /\ S(n) \in Int /\ S(i) \in Int
    BY <1>1, <1>2
  <2>4. t[i] = Least(f[i], IF left(i) > 0 THEN left(i) ELSE 0)
    BY <1>3
  <2>5. SumOver(t, 1 .. (i - 1)) = IF left(i - 1) > 0 THEN left(i - 1) ELSE 0
    BY <1>5
  <2>6. left(i) \in Int /\ left(i - 1) \in Int /\ left(i - 1) = left(i) - f[i]
    <3> HIDE DEF S, f, n
    <3> QED BY <2>2, <2>3
  <2> HIDE DEF S, f, t, n, left
  <2>7. Least(f[i], IF left(i) > 0 THEN left(i) ELSE 0)
          + (IF left(i - 1) > 0 THEN left(i - 1) ELSE 0) = IF left(i) > 0 THEN left(i) ELSE 0
    BY <2>3, <2>6, TakeOne, Zenon
  <2> QED BY <2>1, <2>4, <2>5, <2>7
<1>6. P(0)
  <2>1. 1 .. 0 = {} /\ IsFiniteSet({})
    BY FS_EmptySet
  <2>2. SumOver(t, 1 .. 0) = 0 /\ S(0) = 0
    BY <2>1, SumOverPick, Zenon
  <2>3. S(n) \in Int /\ rest <= S(n)
    BY <1>1, <1>2
  <2> HIDE DEF S, t
  <2> QED BY <2>2, <2>3
<1>7. \A i \in 0 .. n : P(i)
  <2> DEFINE T == {i \in 0 .. n : ~P(i)}
  <2> SUFFICES ASSUME T # {} PROVE FALSE
    OBVIOUS
  <2>1. T \in SUBSET Nat
    OBVIOUS
  <2>2. PICK m \in T : \A y \in T : m <= y
    <3> HIDE DEF T
    <3> QED BY <2>1, LeastElement
  <2>3. m \in 0 .. n /\ ~P(m)
    BY <2>2
  <2>4. m # 0
    BY <1>6, <2>3
  <2>5. m - 1 \notin T /\ m - 1 \in 0 .. n /\ m \in 1 .. n
    <3> HIDE DEF P
    <3> QED BY <1>1, <2>2, <2>3, <2>4
  <2>6. P(m - 1)
    BY <2>5
  <2> HIDE DEF P
  <2> QED BY <1>5, <2>3, <2>5, <2>6
<1>8. SumOver(t, 1 .. n) = rest
  <2>1. P(n) /\ S(n) \in Int
    BY <1>1, <1>2, <1>7
  <2> HIDE DEF S, t, n
  <2> QED BY <2>1
<1> QED BY <1>4, <1>8
-----------------------------------------------------------------------------
(* What a queue holds in all, before and after each change of it. *)
Held(q) == SumOver(Pending(q), 1 .. Len(q))

(* What is not completed has something left to pay. *)
NoneEmpty(q) == \A i \in 1 .. Len(q) : q[i].completed \/ q[i].amount > 0

LEMMA HeldType ==
  ASSUME NEW q \in Seq(UnstakeRequest)
  PROVE  Held(q) \in Nat /\ \A i \in 1 .. Len(q) : Pending(q)[i] <= Held(q)
<1>1. IsFiniteSet(1 .. Len(q)) /\ \A i \in 1 .. Len(q) : Pending(q)[i] \in Nat /\ Pending(q)[i] \in Int
  BY QueueTypes
<1>2. Held(q) \in Nat
  BY <1>1, SumOverType DEF Held
<1>3. \A i \in 1 .. Len(q) : Pending(q)[i] <= Held(q)
  BY <1>1, SumOverBound DEF Held
<1> QED BY <1>2, <1>3

LEMMA QueueAppended ==
  ASSUME NEW q \in Seq(UnstakeRequest), NEW r \in UnstakeRequest, ~r.completed, r.amount > 0,
         NoneEmpty(q)
  PROVE  /\ Append(q, r) \in Seq(UnstakeRequest) /\ NoneEmpty(Append(q, r))
         /\ Held(Append(q, r)) = Held(q) + r.amount
<1> DEFINE n == Len(q)
           u == Append(q, r)
<1>1. /\ u \in Seq(UnstakeRequest) /\ Len(u) = n + 1 /\ n \in Nat
      /\ \A i \in 1 .. n : u[i] = q[i]
      /\ u[n + 1] = r
  OBVIOUS
<1>2. r.amount \in Nat
  BY DEF UnstakeRequest
<1>3. /\ \A i \in 1 .. n : Pending(q)[i] \in Int /\ Pending(u)[i] = Pending(q)[i]
      /\ Pending(u)[n + 1] = r.amount
  <2> HIDE DEF u, n
  <2>1. \A i \in 1 .. n : Pending(q)[i] \in Int
    BY QueueTypes DEF n
  <2>2. \A i \in 1 .. n : Pending(u)[i] = Pending(q)[i]
    BY <1>1 DEF Pending, n
  <2>3. Pending(u)[n + 1] = r.amount
    BY <1>1 DEF Pending
  <2> QED BY <2>1, <2>2, <2>3
<1>4. NoneEmpty(u)
  <2> HIDE DEF u
  <2> QED BY <1>1 DEF NoneEmpty
<1> HIDE DEF u
<1>5. Held(u) = Pending(u)[n + 1] + SumOver(Pending(u), 1 .. n)
  <2>1. \A j \in 1 .. (n + 1) : Pending(u)[j] \in Int
    BY <1>1, <1>2, <1>3
  <2>2. n + 1 \in Nat /\ n + 1 \in 1 .. (n + 1) /\ (n + 1) - 1 = n
    BY <1>1
  <2>3. SumOver(Pending(u), 1 .. (n + 1)) = Pending(u)[n + 1] + SumOver(Pending(u), 1 .. ((n + 1) - 1))
    BY <2>1, <2>2, SumOverLast, Zenon
  <2> QED BY <1>1, <2>2, <2>3 DEF Held
<1>6. SumOver(Pending(u), 1 .. n) = Held(q)
  <2>1. IsFiniteSet(1 .. n)
    BY QueueTypes
  <2> QED BY <1>3, <2>1, SumOverSame, Zenon DEF Held
<1>7. Held(q) \in Nat
  BY HeldType
<1> QED BY <1>1, <1>2, <1>3, <1>4, <1>5, <1>6, <1>7 DEF u

LEMMA QueueMarked ==
  ASSUME NEW q \in Seq(UnstakeRequest), NEW i \in 1 .. Len(q), ~q[i].completed, NoneEmpty(q)
  PROVE  /\ MarkCompleted(q, i) \in Seq(UnstakeRequest) /\ NoneEmpty(MarkCompleted(q, i))
         /\ Held(MarkCompleted(q, i)) = Held(q) - q[i].amount
<1> DEFINE u == MarkCompleted(q, i)
           r == [q[i] EXCEPT !.completed = TRUE]
<1>1. /\ IsFiniteSet(1 .. Len(q)) /\ \A j \in 1 .. Len(q) : Pending(q)[j] \in Int
      /\ q[i] \in UnstakeRequest /\ q[i].amount \in Nat /\ Pending(q)[i] = q[i].amount
  BY QueueTypes
<1>2. r \in UnstakeRequest /\ r.completed
  BY <1>1, Zenon DEF UnstakeRequest
<1>3. u = [q EXCEPT ![i] = r]
  BY DEF MarkCompleted
<1> HIDE DEF u, r
<1>4. /\ u \in Seq(UnstakeRequest) /\ Len(u) = Len(q)
      /\ \A j \in 1 .. Len(q) : u[j] = IF j = i THEN r ELSE q[j]
  BY <1>2, <1>3
<1>5. NoneEmpty(u)
  BY <1>2, <1>4 DEF NoneEmpty
<1>6. Pending(u)[i] = 0 /\ \A j \in 1 .. Len(q) : j # i => Pending(u)[j] = Pending(q)[j]
  BY <1>2, <1>4 DEF Pending
<1>7. SumOver(Pending(u), 1 .. Len(q)) = SumOver(Pending(q), 1 .. Len(q)) + (-Pending(q)[i])
  <2> DEFINE f == Pending(q)
             g == Pending(u)
             S == 1 .. Len(q)
             v == -f[i]
  <2>1. IsFiniteSet(S) /\ i \in S /\ g[i] \in Int
    BY <1>1, <1>6
  <2>2. \A j \in S : f[j] \in Int
    BY <1>1
  <2>3. \A j \in S : j # i => g[j] = f[j]
    BY <1>6
  <2>4. v \in Int /\ g[i] = f[i] + v
    BY <1>1, <1>6
  <2> HIDE DEF f, g, S, v
  <2>5. Credited(g, f, S, i, v)
    BY <2>1, <2>2, <2>3, <2>4 DEF Credited
  <2>6. SumOver(g, S) = SumOver(f, S) + v
    BY <2>1, <2>4, <2>5, Credit, Zenon
  <2> QED BY <2>6 DEF f, g, S, v
<1>8. Held(q) \in Nat
  BY HeldType
<1>9. Held(u) = Held(q) - q[i].amount
  BY <1>1, <1>4, <1>6, <1>7, <1>8 DEF Held
<1> QED BY <1>4, <1>5, <1>9 DEF u

LEMMA QueueDrained ==
  ASSUME NEW q \in Seq(UnstakeRequest), NEW rest \in Nat, rest <= Held(q), NoneEmpty(q)
  PROVE  /\ Drained(q, rest) \in Seq(UnstakeRequest) /\ NoneEmpty(Drained(q, rest))
         /\ SumOver(Taken(q, rest), 1 .. Len(q)) = rest
         /\ Held(Drained(q, rest)) = Held(q) - rest
<1> DEFINE u == Drained(q, rest)
           t == Taken(q, rest)
           n == Len(q)
<1>1. /\ n \in Nat /\ IsFiniteSet(1 .. n)
      /\ \A j \in 1 .. n : /\ q[j] \in UnstakeRequest /\ q[j].amount \in Nat
                            /\ q[j].completed \in BOOLEAN
                            /\ Pending(q)[j] = IF q[j].completed THEN 0 ELSE q[j].amount
  BY QueueTypes
<1>2. (\A j \in 1 .. n : t[j] \in 0 .. Pending(q)[j]) /\ SumOver(t, 1 .. n) = rest
  BY TakenSoFar DEF Held
<1>3. u = [j \in 1 .. n |-> IF t[j] = 0 THEN q[j]
                            ELSE [q[j] EXCEPT !.amount = q[j].amount - t[j],
                                              !.completed = (t[j] = q[j].amount)]]
  BY DEF Drained
<1> HIDE DEF u, t
<1>4. ASSUME NEW j \in 1 .. n
      PROVE  /\ u[j] \in UnstakeRequest /\ (u[j].completed \/ u[j].amount > 0)
             /\ (IF u[j].completed THEN 0 ELSE u[j].amount) = Pending(q)[j] - t[j]
  <2>1. CASE t[j] = 0
    <3>1. u[j] = q[j]
      BY <1>3, <2>1, Zenon
    <3>2. Pending(q)[j] - t[j] = Pending(q)[j]
      BY <1>1, <2>1
    <3> QED BY <1>1, <3>1, <3>2 DEF NoneEmpty
  <2>2. CASE t[j] # 0
    <3>1. /\ ~q[j].completed /\ t[j] \in Nat /\ t[j] <= q[j].amount /\ q[j].amount \in Nat
          /\ Pending(q)[j] = q[j].amount
      BY <1>1, <1>2, <2>2
    <3> DEFINE a == q[j].amount - t[j]
               b == t[j] = q[j].amount
               r == q[j]
    <3>2. a \in Nat /\ b \in BOOLEAN /\ r \in UnstakeRequest /\ (b <=> a = 0)
      BY <1>1, <3>1
    <3>3. u[j] = [r EXCEPT !.amount = a, !.completed = b]
      BY <1>3, <2>2, Zenon
    <3>4. a = Pending(q)[j] - t[j]
      BY <3>1
    <3> HIDE DEF a, b, r
    <3>5. u[j] \in UnstakeRequest /\ u[j].amount = a /\ u[j].completed = b
      BY <3>2, <3>3, Zenon DEF UnstakeRequest
    <3>6. CASE b
      BY <3>2, <3>4, <3>5, <3>6
    <3>7. CASE ~b
      BY <3>2, <3>4, <3>5, <3>7
    <3> QED BY <3>2, <3>6, <3>7
  <2> QED BY <2>1, <2>2
<1>5. u \in Seq(UnstakeRequest) /\ Len(u) = n
  <2>1. u \in [1 .. n -> UnstakeRequest]
    BY <1>3, <1>4, Zenon
  <2> HIDE DEF n
  <2> QED BY <1>1, <2>1
<1>6. NoneEmpty(u)
  BY <1>4, <1>5 DEF NoneEmpty
<1>7. \A j \in 1 .. n : Pending(u)[j] = Pending(q)[j] - t[j]
  BY <1>4, <1>5 DEF Pending
<1>8. \A j \in 1 .. n : Pending(u)[j] \in Int /\ t[j] \in Int /\ Pending(q)[j] = Pending(u)[j] + t[j]
  BY <1>1, <1>2, <1>7
<1>9. SumOver(Pending(q), 1 .. n) = SumOver(Pending(u), 1 .. n) + SumOver(t, 1 .. n)
  BY <1>1, <1>8, SumOverPlus, Zenon
<1>10. Held(u) \in Nat
  BY <1>5, HeldType
<1>11. Held(u) = Held(q) - rest
  BY <1>2, <1>5, <1>9, <1>10 DEF Held
<1> QED BY <1>2, <1>5, <1>6, <1>11 DEF u, t

(* A slash reduces a request only when it uses up the newer ones. *)
LEMMA QueueNewestFirst ==
  ASSUME NEW q \in Seq(UnstakeRequest), NEW rest \in Nat, NoneEmpty(q),
         NEW i \in 1 .. Len(q), NEW j \in 1 .. Len(q), i < j,
         Drained(q, rest)[i].amount < q[i].amount
  PROVE  Drained(q, rest)[j].completed
<1> DEFINE n == Len(q)
           f == Pending(q)
           t == Taken(q, rest)
           S(k) == SumOver(f, 1 .. k)
<1>1. /\ n \in Nat
      /\ \A k \in 1 .. n : /\ q[k] \in UnstakeRequest /\ q[k].amount \in Nat
                            /\ q[k].completed \in BOOLEAN /\ f[k] \in Nat /\ f[k] \in Int
                            /\ f[k] = IF q[k].completed THEN 0 ELSE q[k].amount
  BY QueueTypes
<1>2. \A k \in 1 .. n : t[k] = Least(f[k], Max({0, rest - (S(n) - S(k))}))
  BY DEF Taken, Newer
<1>3. \A k \in 1 .. n : Drained(q, rest)[k] =
        IF t[k] = 0 THEN q[k] ELSE [q[k] EXCEPT !.amount = q[k].amount - t[k],
                                                !.completed = (t[k] = q[k].amount)]
  BY DEF Drained
<1> HIDE DEF n, f, t
<1>4. \A k \in 0 .. n : S(k) \in Int /\ S(k) \in Nat
  <2> TAKE k \in 0 .. n
  <2>1. IsFiniteSet(1 .. k)
    BY FS_Interval
  <2>2. \A x \in 1 .. k : f[x] \in Nat /\ f[x] \in Int
    BY <1>1
  <2> QED BY <2>1, <2>2, SumOverType
<1>5. S(j) >= S(i) + f[j]
  <2> DEFINE T == (i + 1) .. (j - 1)
  <2>1. S(j) = f[j] + S(j - 1)
    BY <1>1, SumOverLast, Zenon DEF n
  <2>2. IsFiniteSet(1 .. i) /\ IsFiniteSet(T)
    BY FS_Interval
  <2>3. (1 .. i) \cap T = {} /\ (1 .. i) \cup T = 1 .. (j - 1)
    OBVIOUS
  <2>4. \A x \in (1 .. i) \cup T : f[x] \in Int
    BY <1>1, <2>3 DEF n
  <2>5. SumOver(f, (1 .. i) \cup T) = S(i) + SumOver(f, T)
    BY <2>2, <2>3, <2>4, SumOverUnion, Zenon
  <2>6. \A x \in T : f[x] \in Nat /\ f[x] \in Int
    BY <1>1 DEF n
  <2> HIDE DEF T
  <2>7. SumOver(f, T) \in Nat
    BY <2>2, <2>6, SumOverType
  <2>8. S(j - 1) = S(i) + SumOver(f, T)
    BY <2>3, <2>5, Zenon
  <2>9. S(i) \in Int /\ f[j] \in Int
    BY <1>1, <1>4 DEF n
  <2> HIDE DEF S
  <2> QED BY <2>1, <2>7, <2>8, <2>9
<1> DEFINE left(k) == rest - (S(n) - S(k))
<1>6. /\ S(n) \in Int /\ S(i) \in Int /\ S(j) \in Int
      /\ left(i) \in Int /\ left(j) \in Int /\ f[i] \in Nat /\ f[j] \in Nat
  <2>1. S(n) \in Int /\ S(i) \in Int /\ S(j) \in Int /\ f[i] \in Nat /\ f[j] \in Nat
    BY <1>1, <1>4 DEF n
  <2> HIDE DEF S
  <2> QED BY <2>1
<1>7. /\ t[i] = Least(f[i], IF left(i) > 0 THEN left(i) ELSE 0)
      /\ t[j] = Least(f[j], IF left(j) > 0 THEN left(j) ELSE 0)
  BY <1>2, <1>6, MaxZero, Zenon DEF n
<1>8. left(j) >= left(i) + f[j]
  <2> HIDE DEF S
  <2> QED BY <1>5, <1>6
<1>9. t[i] # 0
  <2> SUFFICES ASSUME t[i] = 0 PROVE FALSE
    OBVIOUS
  <2>1. i \in 1 .. n
    BY DEF n
  <2>2. Drained(q, rest)[i] = q[i]
    BY <1>3, <2>1, Zenon
  <2>3. q[i].amount \in Nat /\ q[i].amount < q[i].amount
    BY <1>1, <2>1, <2>2
  <2> QED BY <2>3
<1> HIDE DEF left
<1>10. left(i) > 0
  BY <1>6, <1>7, <1>9 DEF Least
<1>11. t[j] = f[j]
  BY <1>6, <1>7, <1>8, <1>10 DEF Least
<1>12. CASE q[j].completed
  <2>1. t[j] = 0
    BY <1>1, <1>11, <1>12 DEF n
  <2> QED BY <1>3, <1>12, <2>1, Zenon DEF n
<1>13. CASE ~q[j].completed
  <2>1. t[j] = q[j].amount /\ q[j].amount > 0 /\ q[j].amount \in Nat
    BY <1>1, <1>11, <1>13 DEF n, NoneEmpty
  <2>2. t[j] # 0
    BY <2>1
  <2>3. Drained(q, rest)[j] = [q[j] EXCEPT !.amount = q[j].amount - t[j], !.completed = TRUE]
    BY <1>3, <2>1, <2>2, Zenon DEF n
  <2>4. q[j] \in UnstakeRequest
    BY <1>1 DEF n
  <2> QED BY <2>3, <2>4 DEF UnstakeRequest
<1> QED BY <1>1, <1>12, <1>13 DEF n
-----------------------------------------------------------------------------
(* The parameters. *)
ConfigSound == cfg \in Config /\ cfg.rewardsDuration > 0 /\ TiersAscending

LEMMA IsBasisPoints ==
  ASSUME NEW b \in Nat, b <= BPS_DENOMINATOR
  PROVE  b \in BasisPoints
<1>1. BPS_DENOMINATOR \in Nat
  BY DEF BPS_DENOMINATOR
<1> QED BY <1>1 DEF BasisPoints

LEMMA OwnerSound ==
  ASSUME Constants, SettingTypes, ConfigSound, OwnerStep
  PROVE  ConfigSound'
<1> USE DEF ConfigSound, TiersAscending
<1>1. ASSUME NEW t \in Tiers, NEW m \in Nat, SetTierMinStake(t, m) PROVE ConfigSound'
  <2> DEFINE f == [cfg.tierMin EXCEPT ![t] = m]
  <2>1. cfg.tierMin \in PerTier
    BY DEF Config
  <2>2. f \in PerTier /\ cfg' = [cfg EXCEPT !.tierMin = f]
    BY <1>1, <2>1 DEF SetTierMinStake, PerTier
  <2>3. \A u \in Tiers : u > Starter => f[u - 1] < f[u]
    BY <1>1, <2>1 DEF SetTierMinStake, PerTier, Tiers, Starter
  <2> HIDE DEF f
  <2> QED BY <2>2, <2>3 DEF Config
<1>2. ASSUME NEW t \in Tiers, NEW m \in Nat, SetTierRewardMultiplier(t, m) PROVE ConfigSound'
  <2> DEFINE f == [cfg.tierMultiplier EXCEPT ![t] = m]
  <2>1. cfg.tierMultiplier \in PerTier
    BY DEF Config
  <2>2. f \in PerTier /\ cfg' = [cfg EXCEPT !.tierMultiplier = f]
    BY <1>2, <2>1 DEF SetTierRewardMultiplier, PerTier
  <2> HIDE DEF f
  <2> QED BY <2>2 DEF Config
<1>3. ASSUME NEW m \in Nat, SetMaxTierMultiplierBps(m) PROVE ConfigSound'
  BY <1>3 DEF SetMaxTierMultiplierBps, Config
<1>4. ASSUME NEW d \in Nat, SetUnbondingPeriod(d) PROVE ConfigSound'
  BY <1>4 DEF SetUnbondingPeriod, Config
<1>5. ASSUME NEW d \in Nat, SetAppealWindow(d) PROVE ConfigSound'
  BY <1>5 DEF SetAppealWindow, Config
<1>6. ASSUME NEW b \in Nat, SetSlashFeeSplit(b) PROVE ConfigSound'
  <2>0. b <= BPS_DENOMINATOR
    BY <1>6 DEF SetSlashFeeSplit
  <2>1. b \in BasisPoints
    BY <2>0, IsBasisPoints, Zenon
  <2> QED BY <1>6, <2>1 DEF SetSlashFeeSplit, Config
<1>7. ASSUME NEW r \in Reasons, NEW b \in Nat, SetSlashPercentage(r, b) PROVE ConfigSound'
  <2> DEFINE f == [cfg.slashPercentageBps EXCEPT ![r] = b]
  <2>0. b <= BPS_DENOMINATOR /\ cfg.slashPercentageBps \in PerReason
    BY <1>7 DEF SetSlashPercentage, Config
  <2>1. b \in BasisPoints
    BY <2>0, IsBasisPoints, Zenon
  <2>2. f \in PerReason /\ cfg' = [cfg EXCEPT !.slashPercentageBps = f]
    BY <1>7, <2>0, <2>1 DEF SetSlashPercentage, PerReason
  <2> HIDE DEF f
  <2> QED BY <2>2 DEF Config
<1>8. ASSUME NEW b \in BOOLEAN, SetSlashingEnabled(b) \/ SetPaused(b) PROVE ConfigSound'
  BY <1>8 DEF SetSlashingEnabled, SetPaused, Config
<1>9. ASSUME NEW t \in Treasuries, SetTreasury(t) PROVE ConfigSound'
  BY <1>9 DEF SetTreasury, Config
<1>10. ASSUME NEW d \in Nat, SetRewardsDuration(d) PROVE ConfigSound'
  BY <1>10 DEF SetRewardsDuration, Config
<1>11. ASSUME NEW d \in Nat, NEW b \in Nat, SetVestingParams(d, b) PROVE ConfigSound'
  <2>0. b <= BPS_DENOMINATOR
    BY <1>11 DEF SetVestingParams
  <2>1. b \in BasisPoints
    BY <2>0, IsBasisPoints, Zenon
  <2> QED BY <1>11, <2>1, Zenon DEF SetVestingParams, Config
<1>12. ASSUME NEW b \in Nat, SetEmissionMultiplier(b) \/ SetMaxEmissionRate(b) PROVE ConfigSound'
  BY <1>12 DEF SetEmissionMultiplier, SetMaxEmissionRate, Config
<1> QED BY <1>1, <1>2, <1>3, <1>4, <1>5, <1>6, <1>7, <1>8, <1>9, <1>10, <1>11, <1>12
        DEF OwnerStep, SettingTypes
-----------------------------------------------------------------------------
(* The stakes: the counters agree with the records and the records with    *)
(* the queues, in which nothing is pending that has nothing left to pay.   *)
Stakes ==
  /\ info \in [Providers -> ProviderInfo] /\ queue \in [Providers -> Seq(UnstakeRequest)]
  /\ totalStaked \in Nat /\ totalUnbonding \in Nat
  /\ Accounting
  /\ \A p \in Providers : NoneEmpty(queue[p])

LEMMA ProvidersFinite == ASSUME Constants PROVE IsFiniteSet(Providers)
BY FS_Interval DEF Constants, Providers

(* What a provider's record says, and how it is covered by the counters. *)
LEMMA StakeOf ==
  ASSUME Constants, Stakes, NEW p \in Providers
  PROVE  /\ info[p] \in ProviderInfo /\ queue[p] \in Seq(UnstakeRequest) /\ NoneEmpty(queue[p])
         /\ info[p].staked \in Nat /\ info[p].unbonding \in Nat
         /\ info[p].staked <= totalStaked /\ info[p].unbonding <= totalUnbonding
         /\ info[p].unbonding = Held(queue[p])
<1> DEFINE s == [x \in Providers |-> info[x].staked]
           u == [x \in Providers |-> info[x].unbonding]
<1>1. IsFiniteSet(Providers)
  BY ProvidersFinite
<1>2. \A x \in Providers : s[x] \in Nat /\ u[x] \in Nat
  BY DEF Stakes, ProviderInfo
<1>3. totalStaked = SumOver(s, Providers) /\ totalUnbonding = SumOver(u, Providers)
  BY DEF Stakes, Accounting
<1>4. s[p] = info[p].staked /\ u[p] = info[p].unbonding
  OBVIOUS
<1> HIDE DEF s, u
<1>5. s[p] <= SumOver(s, Providers)
  BY <1>1, <1>2, SumOverBound
<1>6. u[p] <= SumOver(u, Providers)
  BY <1>1, <1>2, SumOverBound
<1>7. /\ info[p] \in ProviderInfo /\ queue[p] \in Seq(UnstakeRequest) /\ NoneEmpty(queue[p])
      /\ info[p].unbonding = Held(queue[p])
  BY DEF Stakes, Accounting, Held
<1> QED BY <1>2, <1>3, <1>4, <1>5, <1>6, <1>7

(* A step that gives provider p the record r and the queue q, and moves    *)
(* the counters by the difference, leaves the stakes sound.                *)
LEMMA StakesMoved ==
  ASSUME Constants, Stakes, NEW p \in Providers,
         NEW r \in ProviderInfo, NEW q \in Seq(UnstakeRequest), NoneEmpty(q), r.unbonding = Held(q),
         info' = [info EXCEPT ![p] = r], queue' = [queue EXCEPT ![p] = q],
         totalStaked' = totalStaked + (r.staked - info[p].staked),
         totalUnbonding' = totalUnbonding + (r.unbonding - info[p].unbonding)
  PROVE  Stakes'
<1> DEFINE s == [x \in Providers |-> info[x].staked]
           u == [x \in Providers |-> info[x].unbonding]
           s2 == [x \in Providers |-> info'[x].staked]
           u2 == [x \in Providers |-> info'[x].unbonding]
           ds == r.staked - info[p].staked
           du == r.unbonding - info[p].unbonding
<1>1. IsFiniteSet(Providers)
  BY ProvidersFinite
<1>2. /\ info' \in [Providers -> ProviderInfo] /\ queue' \in [Providers -> Seq(UnstakeRequest)]
      /\ info'[p] = r /\ queue'[p] = q
      /\ \A x \in Providers : x # p => info'[x] = info[x] /\ queue'[x] = queue[x]
  BY DEF Stakes
<1>3. \A x \in Providers : /\ info[x].staked \in Nat /\ info[x].unbonding \in Nat
                           /\ info'[x].staked \in Nat /\ info'[x].unbonding \in Nat
  BY <1>2, Zenon DEF Stakes, ProviderInfo
<1>4. r.staked \in Nat /\ r.unbonding \in Nat
  BY <1>2, <1>3
<1>5. Credited(s2, s, Providers, p, ds) /\ Credited(u2, u, Providers, p, du)
  BY <1>2, <1>3, <1>4 DEF Credited
<1>6. ds \in Int /\ du \in Int
  BY <1>3, <1>4
<1>7. /\ totalStaked = SumOver(s, Providers) /\ totalUnbonding = SumOver(u, Providers)
      /\ totalStaked' = totalStaked + ds /\ totalUnbonding' = totalUnbonding + du
  BY DEF Stakes, Accounting
<1>8. \A x \in Providers : s2[x] \in Nat /\ u2[x] \in Nat /\ s2[x] \in Int /\ u2[x] \in Int
  BY <1>3
<1> HIDE DEF s, u, s2, u2, ds, du
<1>9. SumOver(s2, Providers) = SumOver(s, Providers) + ds
  BY <1>1, <1>5, <1>6, Credit, Zenon
<1>10. SumOver(u2, Providers) = SumOver(u, Providers) + du
  BY <1>1, <1>5, <1>6, Credit, Zenon
<1>11. SumOver(s2, Providers) \in Nat /\ SumOver(u2, Providers) \in Nat
  BY <1>1, <1>8, SumOverType
<1>12. totalStaked' = SumOver(s2, Providers) /\ totalUnbonding' = SumOver(u2, Providers)
  BY <1>7, <1>9, <1>10
<1>13. \A x \in Providers : info'[x].unbonding = Held(queue'[x]) /\ NoneEmpty(queue'[x])
  BY <1>2 DEF Stakes, Accounting, Held
<1>14. Accounting'
  BY <1>12, <1>13 DEF Accounting, Held, s2, u2
<1> QED BY <1>2, <1>11, <1>12, <1>13, <1>14 DEF Stakes

(* A change of a record that leaves its amounts alone. *)
LEMMA RecordMoved ==
  ASSUME Constants, Stakes, NEW p \in Providers, NEW r \in ProviderInfo,
         r.staked = info[p].staked, r.unbonding = info[p].unbonding,
         info' = [info EXCEPT ![p] = r], UNCHANGED <<queue, totalStaked, totalUnbonding>>
  PROVE  Stakes'
<1>1. /\ queue[p] \in Seq(UnstakeRequest) /\ NoneEmpty(queue[p]) /\ r.unbonding = Held(queue[p])
      /\ info[p].staked \in Nat /\ info[p].unbonding \in Nat
  BY StakeOf
<1>2. queue' = [queue EXCEPT ![p] = queue[p]]
  BY DEF Stakes
<1>3. totalStaked' = totalStaked + (r.staked - info[p].staked)
  BY <1>1 DEF Stakes
<1>4. totalUnbonding' = totalUnbonding + (r.unbonding - info[p].unbonding)
  BY <1>1 DEF Stakes
<1> QED BY <1>1, <1>2, <1>3, <1>4, StakesMoved, Zenon

LEMMA DepositStakes ==
  ASSUME Constants, Stakes, NEW p \in Providers, NEW amount \in Nat,
         NEW id \in NodeIds \cup {NoId}, Deposit(p, amount, id)
  PROVE  Stakes'
<1> DEFINE i == info[p]
           st == i.staked + amount
           be == IF i.active THEN i.beneficiary ELSE p
           no == IF id # NoId THEN id ELSE i.nodeId
           r == [i EXCEPT !.staked = st, !.active = TRUE, !.beneficiary = be, !.nodeId = no]
<1>1. /\ i \in ProviderInfo /\ queue[p] \in Seq(UnstakeRequest) /\ NoneEmpty(queue[p])
      /\ i.unbonding = Held(queue[p]) /\ i.staked \in Nat /\ i.unbonding \in Nat
  BY StakeOf
<1>2. st \in Nat /\ be \in Providers \cup {NoAddr} /\ no \in NodeIds \cup {NoId}
  BY <1>1 DEF ProviderInfo
<1>3. /\ info' = [info EXCEPT ![p] = r] /\ UNCHANGED <<queue, totalUnbonding>>
      /\ totalStaked' = totalStaked + amount
  BY DEF Deposit
<1>4. totalStaked' = totalStaked + (st - i.staked)
  BY <1>1, <1>3 DEF Stakes
<1>5. queue' = [queue EXCEPT ![p] = queue[p]]
  BY <1>3 DEF Stakes
<1> HIDE DEF st, be, no
<1>6. r \in ProviderInfo /\ r.staked = st /\ r.unbonding = i.unbonding
  BY <1>1, <1>2, Zenon DEF ProviderInfo
<1> HIDE DEF r
<1>7. totalUnbonding' = totalUnbonding + (r.unbonding - i.unbonding)
  BY <1>1, <1>3, <1>6 DEF Stakes
<1> QED BY <1>1, <1>3, <1>4, <1>5, <1>6, <1>7, StakesMoved, Zenon

LEMMA RequestStakes ==
  ASSUME Constants, Stakes, ConfigSound, now \in Nat, NEW p \in Providers, NEW amount \in Nat,
         RequestUnstake(p, amount)
  PROVE  Stakes'
<1> DEFINE i == info[p]
           st == i.staked - amount
           un == i.unbonding + amount
           ac == StillActive(p, st)
           at == now + cfg.unbondingPeriod
           r == [i EXCEPT !.staked = st, !.unbonding = un, !.active = ac]
           e == [amount |-> amount, unlockTime |-> at, completed |-> FALSE]
           q == Append(queue[p], e)
<1>1. /\ i \in ProviderInfo /\ queue[p] \in Seq(UnstakeRequest) /\ NoneEmpty(queue[p])
      /\ i.unbonding = Held(queue[p]) /\ i.staked \in Nat /\ i.unbonding \in Nat
  BY StakeOf
<1>2. amount > 0 /\ amount <= i.staked
  BY DEF RequestUnstake
<1>3. st \in Nat /\ un \in Nat /\ ac \in BOOLEAN
  BY <1>1, <1>2 DEF StillActive
<1>4. at \in Nat
  BY DEF ConfigSound, Config
<1>5. info' = [info EXCEPT ![p] = r] /\ queue' = [queue EXCEPT ![p] = q]
  BY Zenon DEF RequestUnstake
<1>10. totalStaked' = totalStaked - amount /\ totalUnbonding' = totalUnbonding + amount
  BY DEF RequestUnstake
<1>6. /\ totalStaked' = totalStaked + (st - i.staked)
      /\ totalUnbonding' = totalUnbonding + (un - i.unbonding)
  BY <1>1, <1>10 DEF Stakes
<1>un. un = i.unbonding + amount
  OBVIOUS
<1> HIDE DEF st, un, ac, at
<1>7. r \in ProviderInfo /\ r.staked = st /\ r.unbonding = un
  BY <1>1, <1>3, Zenon DEF ProviderInfo
<1>8. e \in UnstakeRequest /\ ~e.completed /\ e.amount = amount
  BY <1>4 DEF UnstakeRequest
<1> HIDE DEF r, e
<1>9. q \in Seq(UnstakeRequest) /\ NoneEmpty(q) /\ Held(q) = Held(queue[p]) + amount
  BY <1>1, <1>2, <1>8, QueueAppended
<1> HIDE DEF q
<1> QED BY <1>1, <1>5, <1>6, <1>7, <1>9, <1>un, StakesMoved, Zenon

LEMMA CompleteStakes ==
  ASSUME Constants, Stakes, NEW p \in Providers, NEW k \in 1 .. Len(queue[p]),
         CompleteUnstake(p, k)
  PROVE  Stakes'
<1> DEFINE i == info[p]
           amount == queue[p][k].amount
           un == i.unbonding - amount
           r == [i EXCEPT !.unbonding = un]
           q == MarkCompleted(queue[p], k)
<1>1. /\ i \in ProviderInfo /\ queue[p] \in Seq(UnstakeRequest) /\ NoneEmpty(queue[p])
      /\ i.unbonding = Held(queue[p]) /\ i.staked \in Nat /\ i.unbonding \in Nat
  BY StakeOf
<1>2. amount \in Nat
  BY <1>1, QueueTypes
<1>3. /\ ~queue[p][k].completed /\ i.unbonding >= amount
      /\ info' = [info EXCEPT ![p] = r] /\ queue' = [queue EXCEPT ![p] = q]
      /\ totalUnbonding' = totalUnbonding - amount /\ totalStaked' = totalStaked
  BY DEF CompleteUnstake, Completable, Payable
<1>4. un \in Nat /\ un = i.unbonding - amount
  BY <1>1, <1>2, <1>3
<1>5. /\ totalStaked' = totalStaked + (i.staked - i.staked)
      /\ totalUnbonding' = totalUnbonding + (un - i.unbonding)
  BY <1>1, <1>2, <1>3 DEF Stakes
<1>6. q \in Seq(UnstakeRequest) /\ NoneEmpty(q) /\ Held(q) = Held(queue[p]) - amount
  BY <1>1, <1>3, QueueMarked
<1> HIDE DEF un, q, amount
<1>7. r \in ProviderInfo /\ r.staked = i.staked /\ r.unbonding = un
  BY <1>1, <1>4, Zenon DEF ProviderInfo
<1> HIDE DEF r
<1> QED BY <1>1, <1>3, <1>4, <1>5, <1>6, <1>7, StakesMoved, Zenon

(* What a slash takes from the stake and from the queue, and that the      *)
(* queue gives all that is asked of it.                                    *)
LEMMA SlashTakes ==
  ASSUME Constants, Stakes, NEW p \in Providers, NEW amount \in Nat, amount <= Slashable(p)
  PROVE  LET rest == amount - FromActive(p, amount)
         IN  /\ FromActive(p, amount) \in 0 .. info[p].staked
             /\ FromActive(p, amount) <= amount
             /\ rest \in 0 .. info[p].unbonding
             /\ SumOver(Taken(queue[p], rest), 1 .. Len(queue[p])) = rest
             /\ Drained(queue[p], rest) \in Seq(UnstakeRequest)
             /\ NoneEmpty(Drained(queue[p], rest))
             /\ Held(Drained(queue[p], rest)) = info[p].unbonding - rest
<1> DEFINE rest == amount - FromActive(p, amount)
<1>1. /\ queue[p] \in Seq(UnstakeRequest) /\ NoneEmpty(queue[p])
      /\ info[p].unbonding = Held(queue[p]) /\ info[p].staked \in Nat /\ info[p].unbonding \in Nat
  BY StakeOf
<1>2. /\ FromActive(p, amount) \in 0 .. info[p].staked /\ FromActive(p, amount) <= amount
      /\ rest \in 0 .. info[p].unbonding
  BY <1>1 DEF FromActive, Least, Slashable
<1> HIDE DEF rest
<1>3. rest \in Nat /\ rest <= Held(queue[p])
  BY <1>1, <1>2
<1>4. /\ SumOver(Taken(queue[p], rest), 1 .. Len(queue[p])) = rest
      /\ Drained(queue[p], rest) \in Seq(UnstakeRequest)
      /\ NoneEmpty(Drained(queue[p], rest))
      /\ Held(Drained(queue[p], rest)) = Held(queue[p]) - rest
  BY <1>1, <1>3, QueueDrained, Zenon
<1> QED BY <1>1, <1>2, <1>4, Zenon DEF rest

LEMMA SlashStakes ==
  ASSUME Constants, Stakes, NEW p \in Providers, NEW amount \in Nat, NEW bps, Slash(p, amount, bps)
  PROVE  Stakes'
<1> DEFINE i == info[p]
           fa == FromActive(p, amount)
           rest == amount - fa
           fq == SumOver(Taken(queue[p], rest), 1 .. Len(queue[p]))
           st == i.staked - fa
           un == i.unbonding - fq
           ac == StillActive(p, st)
           r == [i EXCEPT !.staked = st, !.unbonding = un, !.active = ac]
           q == Drained(queue[p], rest)
<1>1. i \in ProviderInfo /\ i.staked \in Nat /\ i.unbonding \in Nat
  BY StakeOf
<1>2. amount <= Slashable(p)
  BY DEF Slash
<1>3. /\ fa \in 0 .. i.staked /\ rest \in 0 .. i.unbonding /\ fq = rest
      /\ q \in Seq(UnstakeRequest) /\ NoneEmpty(q) /\ Held(q) = i.unbonding - rest
  BY <1>2, SlashTakes
<1>4. info' = [info EXCEPT ![p] = r] /\ queue' = [queue EXCEPT ![p] = q]
  BY DEF Slash
<1>5. totalStaked' = totalStaked - fa /\ totalUnbonding' = totalUnbonding - fq
  BY DEF Slash
<1> HIDE DEF fa, rest, fq, q
<1>6. st \in Nat /\ un \in Nat /\ ac \in BOOLEAN
  BY <1>1, <1>3 DEF StillActive
<1>7. /\ totalStaked' = totalStaked + (st - i.staked)
      /\ totalUnbonding' = totalUnbonding + (un - i.unbonding)
  BY <1>1, <1>3, <1>5 DEF Stakes
<1>8. un = i.unbonding - fq
  OBVIOUS
<1> HIDE DEF st, un, ac
<1>9. r \in ProviderInfo /\ r.staked = st /\ r.unbonding = un
  BY <1>1, <1>6, ZenonT(30) DEF ProviderInfo
<1> HIDE DEF r
<1> QED BY <1>1, <1>3, <1>4, <1>7, <1>8, <1>9, StakesMoved, Zenon

(* Every step keeps the stakes. *)
LEMMA StakesKept ==
  ASSUME Constants, Stakes, ConfigSound, now \in Nat, proposals \in Seq(SlashProposal),
         pendingBeneficiaries \in [Providers -> [to: Providers \cup {NoAddr}, effective: Nat]], Next
  PROVE  Stakes'
<1> DEFINE same == UNCHANGED <<info, queue, totalStaked, totalUnbonding>>
<1>1. ASSUME same PROVE Stakes'
  BY <1>1 DEF Stakes, Accounting
<1>2. ASSUME NEW p \in Providers, NEW a \in Nat, NEW n \in NodeIds \cup {NoId}, Deposit(p, a, n)
      PROVE  Stakes'
  BY <1>2, DepositStakes
<1>3. ASSUME NEW p \in Providers, NEW n \in NodeIds \cup {NoId}, UpdateIdentity(p, n) PROVE Stakes'
  <2> DEFINE r == [info[p] EXCEPT !.nodeId = n]
  <2>1. info[p] \in ProviderInfo
    BY StakeOf
  <2>2. r \in ProviderInfo /\ r.staked = info[p].staked /\ r.unbonding = info[p].unbonding
    BY <2>1, Zenon DEF ProviderInfo
  <2>3. info' = [info EXCEPT ![p] = r] /\ UNCHANGED <<queue, totalStaked, totalUnbonding>>
    BY <1>3 DEF UpdateIdentity
  <2> HIDE DEF r
  <2> QED BY <2>2, <2>3, RecordMoved, Zenon
<1>4. ASSUME NEW p \in Providers, NEW a \in Nat, RequestUnstake(p, a) PROVE Stakes'
  BY <1>4, RequestStakes
<1>5. ASSUME NEW p \in Providers, NEW k \in 1 .. Len(queue[p]), CompleteUnstake(p, k) PROVE Stakes'
  BY <1>5, CompleteStakes
<1>6. ASSUME NEW p \in Providers, ExecuteBeneficiaryChange(p),
             pendingBeneficiaries[p].to \in Providers \cup {NoAddr}
      PROVE  Stakes'
  <2> DEFINE r == [info[p] EXCEPT !.beneficiary = pendingBeneficiaries[p].to]
  <2>1. info[p] \in ProviderInfo
    BY StakeOf
  <2>2. r \in ProviderInfo /\ r.staked = info[p].staked /\ r.unbonding = info[p].unbonding
    BY <1>6, <2>1, Zenon DEF ProviderInfo
  <2>3. info' = [info EXCEPT ![p] = r] /\ UNCHANGED <<queue, totalStaked, totalUnbonding>>
    BY <1>6 DEF ExecuteBeneficiaryChange
  <2> HIDE DEF r
  <2> QED BY <2>2, <2>3, RecordMoved, Zenon
<1>7. ASSUME NEW p \in Providers, FreezeProvider(p) \/ UnfreezeProvider(p) PROVE Stakes'
  <2>1. PICK b \in BOOLEAN : /\ info' = [info EXCEPT ![p] = [info[p] EXCEPT !.frozen = b]]
                             /\ UNCHANGED <<queue, totalStaked, totalUnbonding>>
    BY <1>7, Zenon DEF FreezeProvider, UnfreezeProvider
  <2> DEFINE r == [info[p] EXCEPT !.frozen = b]
  <2>2. info[p] \in ProviderInfo
    BY StakeOf
  <2>3. r \in ProviderInfo /\ r.staked = info[p].staked /\ r.unbonding = info[p].unbonding
    BY <2>2 DEF ProviderInfo
  <2>4. info' = [info EXCEPT ![p] = r]
    BY <2>1
  <2> HIDE DEF r
  <2> QED BY <2>1, <2>3, <2>4, RecordMoved, Zenon
<1>8. ASSUME NEW p \in Providers, NEW a \in Nat, NEW b, Slash(p, a, b) PROVE Stakes'
  BY <1>8, SlashStakes
<1>9. ASSUME NEW k \in 1 .. Len(proposals), CarryOut(k) PROVE Stakes'
  <2> DEFINE p == proposals[k].provider
             a == Least(proposals[k].amount, Slashable(p))
  <2>1. p \in Providers /\ proposals[k].amount \in Nat
    <3>1. proposals[k] \in SlashProposal
      OBVIOUS
    <3> QED BY <3>1 DEF SlashProposal
  <2>2. a \in Nat
    BY <2>1, StakeOf DEF Least, Slashable
  <2>3. Slash(p, a, proposals[k].burnBps) \/ same
    BY <1>9, ZenonT(30) DEF CarryOut, stakeVars
  <2> QED BY <1>1, <1>8, <2>1, <2>2, <2>3
<1>10. ASSUME NEW p \in Providers, ProviderStep(p) PROVE Stakes'
  <2>1. CASE \E n \in Settings.beneficiary : InitiateBeneficiaryChange(p, n)
    BY <1>1, <2>1, Zenon DEF InitiateBeneficiaryChange, stakeVars
  <2>2. CASE ClaimRewards(p)
    BY <1>1, <2>2 DEF ClaimRewards, stakeVars
  <2>3. CASE ClaimVestedRewards(p)
    BY <1>1, <2>3 DEF ClaimVestedRewards, stakeVars
  <2>4. pendingBeneficiaries[p].to \in Providers \cup {NoAddr}
    BY Zenon
  <2> QED BY <1>2, <1>3, <1>4, <1>5, <1>6, <1>10, <2>1, <2>2, <2>3, <2>4, ZenonT(30)
          DEF ProviderStep, Stake, StakeWithIdentity, Constants
<1>11. ASSUME NEW p \in Providers, SlasherStep(p) PROVE Stakes'
  <2>1. ASSUME NEW a, Propose(p, a) PROVE Stakes'
    BY <1>1, <2>1 DEF Propose, stakeVars
  <2> QED BY <1>7, <1>8, <1>11, <2>1, Zenon
          DEF SlasherStep, SlashImmediate, ProposeSlash, ProposeSlashByReason, Constants
<1>12. ASSUME NEW k \in 1 .. Len(proposals), ExecuteSlash(k) PROVE Stakes'
  BY <1>9, <1>12 DEF ExecuteSlash
<1>13. ASSUME NEW k \in 1 .. Len(proposals), AppealSlash(k) PROVE Stakes'
  BY <1>1, <1>13 DEF AppealSlash, stakeVars
<1>14. ASSUME NEW k \in 1 .. Len(proposals), NEW b \in BOOLEAN, ResolveAppeal(k, b) PROVE Stakes'
  BY <1>1, <1>9, <1>14, Zenon DEF ResolveAppeal, stakeVars
<1>15. ASSUME NEW a, FundRewards(a) \/ NotifyRewardAmount(a) \/ ReportComputeHours(a) PROVE Stakes'
  BY <1>1, <1>15, Zenon DEF FundRewards, NotifyRewardAmount, ReportComputeHours, stakeVars
<1>16. CASE OwnerStep \/ Tick
  BY <1>1, <1>16, Zenon DEF OwnerStep, Tick, stakeVars
<1> QED BY <1>7, <1>10, <1>11, <1>12, <1>13, <1>14, <1>15, <1>16, Zenon DEF Next
-----------------------------------------------------------------------------
(* The reward clock: the accumulator never runs ahead of the time it is    *)
(* applied to, nor behind what a provider was already paid for.            *)
RewardClock == [rate: Nat, finish: Nat, last: Nat, perToken: Nat]
Rewards ==
  /\ now \in Nat /\ rw \in RewardClock
  /\ rewards \in [Providers -> Nat] /\ paid \in [Providers -> Nat]
  /\ RewardClockSound

LEMMA DivNat == ASSUME NEW x \in Nat, NEW d \in Nat \ {0} PROVE x \div d \in Nat
OBVIOUS

LEMMA MulNat == ASSUME NEW x \in Nat, NEW y \in Nat PROVE x * y \in Nat
OBVIOUS

LEMMA ClockFields ==
  ASSUME Rewards
  PROVE  /\ rw.rate \in Nat /\ rw.finish \in Nat /\ rw.last \in Nat /\ rw.perToken \in Nat
         /\ lastTimeRewardApplicable \in Nat /\ rw.last <= lastTimeRewardApplicable
         /\ now \in Nat
<1>1. rw.rate \in Nat /\ rw.finish \in Nat /\ rw.last \in Nat /\ rw.perToken \in Nat /\ now \in Nat
  BY DEF Rewards, RewardClock
<1>2. lastTimeRewardApplicable \in Nat
  BY <1>1 DEF lastTimeRewardApplicable, Least
<1> QED BY <1>1, <1>2 DEF Rewards, RewardClockSound

(* The accumulator only grows. *)
LEMMA PerTokenGrows ==
  ASSUME Constants, Rewards, totalStaked \in Nat
  PROVE  rewardPerToken \in Nat /\ rewardPerToken >= rw.perToken
<1> DEFINE d == lastTimeRewardApplicable - rw.last
           x == d * rw.rate * REWARD_SCALE
<1>1. d \in Nat /\ rw.rate \in Nat /\ rw.perToken \in Nat /\ REWARD_SCALE \in Nat
  BY ClockFields DEF Constants
<1>2. rewardPerToken = IF totalStaked = 0 THEN rw.perToken ELSE rw.perToken + x \div totalStaked
  BY DEF rewardPerToken
<1> HIDE DEF d
<1>3. x \in Nat
  <2>1. d * rw.rate \in Nat
    BY <1>1, MulNat
  <2> QED BY <1>1, <2>1, MulNat
<1> HIDE DEF x
<1>4. totalStaked # 0 => x \div totalStaked \in Nat
  BY <1>3, DivNat
<1> QED BY <1>1, <1>2, <1>4

LEMMA TierRange ==
  ASSUME NEW amount
  PROVE  TierOf(amount) \in 0 .. 5
<1> DEFINE S == {0} \cup {t \in Tiers : amount >= cfg.tierMin[t]}
<1>1. S \subseteq 0 .. 5 /\ 0 \in S
  BY DEF Tiers
<1> HIDE DEF S
<1>2. \E x \in S : \A y \in S : x >= y
  <2>1. CASE 5 \in S
    BY <1>1, <2>1
  <2>2. CASE 5 \notin S /\ 4 \in S
    BY <1>1, <2>2
  <2>3. CASE 5 \notin S /\ 4 \notin S /\ 3 \in S
    BY <1>1, <2>3
  <2>4. CASE 5 \notin S /\ 4 \notin S /\ 3 \notin S /\ 2 \in S
    BY <1>1, <2>4
  <2>5. CASE 5 \notin S /\ 4 \notin S /\ 3 \notin S /\ 2 \notin S
    BY <1>1, <2>5
  <2> QED BY <2>1, <2>2, <2>3, <2>4, <2>5
<1>3. Max(S) \in S
  BY <1>2 DEF Max
<1>4. TierOf(amount) = Max(S)
  BY DEF TierOf, S
<1> QED BY <1>1, <1>3, <1>4, Zenon

LEMMA EarnedType ==
  ASSUME Constants, ConfigSound, Stakes, Rewards, NEW p \in Providers
  PROVE  Earned(p) \in Nat
<1> DEFINE gap == rewardPerToken - paid[p]
           y == info[p].staked * gap
           delta == y \div REWARD_SCALE
           tier == TierOf(info[p].staked)
           m == cfg.tierMultiplier[tier]
           z == delta * m
<1>1. info[p].staked \in Nat /\ rewards[p] \in Nat /\ paid[p] \in Nat /\ paid[p] <= rw.perToken
  BY StakeOf DEF Rewards, RewardClockSound
<1>2. rewardPerToken \in Nat /\ rewardPerToken >= rw.perToken /\ rw.perToken \in Nat
  BY PerTokenGrows, ClockFields DEF Stakes
<1>3. gap \in Nat
  BY <1>1, <1>2
<1>4. tier \in 0 .. 5
  BY TierRange
<1>5. Earned(p) = rewards[p] + (IF tier = 0 THEN delta ELSE z \div BPS_DENOMINATOR)
  BY DEF Earned
<1> HIDE DEF gap
<1>6. y \in Nat
  BY <1>1, <1>3, MulNat, Zenon
<1> HIDE DEF y
<1>7. delta \in Nat
  BY <1>6, DivNat DEF Constants
<1>8. tier # 0 => m \in Nat
  BY <1>4 DEF ConfigSound, Config, PerTier, Tiers
<1> HIDE DEF delta, tier, m
<1>9. tier # 0 => z \in Nat
  BY <1>7, <1>8, MulNat
<1> HIDE DEF z
<1>10. tier # 0 => z \div BPS_DENOMINATOR \in Nat
  BY <1>9, DivNat DEF BPS_DENOMINATOR
<1> QED BY <1>1, <1>5, <1>7, <1>10

(* A checkpoint for provider p that leaves it with the rewards x. *)
LEMMA CheckpointRewards ==
  ASSUME Constants, Stakes, Rewards, NEW p \in Providers, NEW x \in Nat,
         Checkpoint, rewards' = [rewards EXCEPT ![p] = x],
         paid' = [paid EXCEPT ![p] = rewardPerToken], now' = now
  PROVE  Rewards'
<1> DEFINE pt == rewardPerToken
           la == lastTimeRewardApplicable
<1>1. /\ pt \in Nat /\ pt >= rw.perToken /\ la \in Nat /\ rw.perToken \in Nat /\ rw.finish \in Nat
      /\ now \in Nat
  BY PerTokenGrows, ClockFields DEF Stakes
<1>2. la = Least(now, rw.finish)
  BY DEF lastTimeRewardApplicable
<1>3. rw' = [rw EXCEPT !.perToken = pt, !.last = la] /\ paid' = [paid EXCEPT ![p] = pt]
  BY DEF Checkpoint
<1> HIDE DEF pt, la
<1>4. /\ rw' \in RewardClock /\ rw'.perToken = pt /\ rw'.last = la /\ rw'.finish = rw.finish
  BY <1>1, <1>3, Zenon DEF Rewards, RewardClock
<1>5. lastTimeRewardApplicable' = la
  BY <1>2, <1>4 DEF lastTimeRewardApplicable
<1>6. /\ paid' \in [Providers -> Nat] /\ rewards' \in [Providers -> Nat]
      /\ \A r \in Providers : paid'[r] = IF r = p THEN pt ELSE paid[r]
  BY <1>1, <1>3 DEF Rewards
<1>7. \A r \in Providers : paid'[r] <= pt
  BY <1>1, <1>6 DEF Rewards, RewardClockSound
<1>8. RewardClockSound'
  BY <1>1, <1>4, <1>5, <1>7 DEF RewardClockSound
<1> QED BY <1>4, <1>6, <1>8 DEF Rewards

LEMMA UpdateRewards ==
  ASSUME Constants, ConfigSound, Stakes, Rewards, NEW p \in Providers, UpdateReward(p), now' = now
  PROVE  Rewards'
BY EarnedType, CheckpointRewards, Zenon DEF UpdateReward

LEMMA NotifyRewards ==
  ASSUME Constants, ConfigSound, Stakes, Rewards, NEW reward \in Nat, NotifyRewardAmount(reward)
  PROVE  Rewards'
<1> DEFINE y == reward * cfg.emissionMultiplier
           adjusted == y \div BPS_DENOMINATOR
           leftover == IF now >= rw.finish THEN 0 ELSE (rw.finish - now) * rw.rate
           uncapped == (adjusted + leftover) \div cfg.rewardsDuration
           rate == IF cfg.maxEmissionRate > 0 /\ uncapped > cfg.maxEmissionRate
                   THEN cfg.maxEmissionRate ELSE uncapped
           fin == now + cfg.rewardsDuration
           pt == rewardPerToken
<1>1. /\ pt \in Nat /\ pt >= rw.perToken /\ rw.perToken \in Nat /\ rw.finish \in Nat
      /\ rw.rate \in Nat /\ now \in Nat
  BY PerTokenGrows, ClockFields DEF Stakes
<1>2. /\ cfg.emissionMultiplier \in Nat /\ cfg.maxEmissionRate \in Nat
      /\ cfg.rewardsDuration \in Nat \ {0}
  BY DEF ConfigSound, Config
<1>3. /\ rw' = [rate |-> rate, finish |-> fin, last |-> now, perToken |-> pt]
      /\ UNCHANGED <<rewards, paid, now>>
  BY DEF NotifyRewardAmount
<1> HIDE DEF pt
<1>4. adjusted \in Nat
  <2>1. y \in Nat
    BY <1>2, MulNat
  <2> HIDE DEF y
  <2> QED BY <2>1, DivNat DEF BPS_DENOMINATOR
<1> HIDE DEF adjusted
<1>5. leftover \in Nat
  BY <1>1, MulNat
<1> HIDE DEF leftover
<1>6. uncapped \in Nat
  BY <1>2, <1>4, <1>5, DivNat
<1> HIDE DEF uncapped
<1>7. rate \in Nat /\ fin \in Nat /\ now <= fin
  BY <1>1, <1>2, <1>6
<1>8. Least(now, fin) = now
  BY <1>1, <1>7 DEF Least
<1> HIDE DEF rate, fin
<1>9. rw' \in RewardClock /\ rw'.perToken = pt /\ rw'.last = now /\ rw'.finish = fin
  BY <1>1, <1>3, <1>7 DEF RewardClock
<1>10. lastTimeRewardApplicable' = now
  BY <1>3, <1>8, <1>9 DEF lastTimeRewardApplicable
<1>11. \A r \in Providers : paid'[r] <= pt
  BY <1>1, <1>3 DEF Rewards, RewardClockSound
<1>12. RewardClockSound'
  BY <1>1, <1>9, <1>10, <1>11 DEF RewardClockSound
<1> QED BY <1>3, <1>9, <1>12 DEF Rewards

LEMMA RewardsKept ==
  ASSUME Constants, ConfigSound, Stakes, Rewards, proposals \in Seq(SlashProposal), Next
  PROVE  Rewards'
<1>1. ASSUME UNCHANGED <<rw, rewards, paid, now>> PROVE Rewards'
  BY <1>1 DEF Rewards, RewardClockSound, lastTimeRewardApplicable
<1>2. ASSUME NEW p \in Providers, UpdateReward(p), now' = now PROVE Rewards'
  BY <1>2, UpdateRewards, Zenon
<1>3. ASSUME NEW p \in Providers, ProviderStep(p) PROVE Rewards'
  <2>1. ASSUME NEW a, NEW n, Deposit(p, a, n) PROVE Rewards'
    BY <1>2, <2>1 DEF Deposit
  <2>2. ASSUME NEW n, UpdateIdentity(p, n) PROVE Rewards'
    BY <1>1, <2>2 DEF UpdateIdentity, rewardVars
  <2>3. ASSUME NEW a, RequestUnstake(p, a) PROVE Rewards'
    BY <1>2, <2>3 DEF RequestUnstake
  <2>4. ASSUME NEW i, CompleteUnstake(p, i) PROVE Rewards'
    BY <1>1, <2>4 DEF CompleteUnstake, rewardVars
  <2>5. ASSUME NEW n, InitiateBeneficiaryChange(p, n) \/ ExecuteBeneficiaryChange(p) PROVE Rewards'
    BY <1>1, <2>5 DEF InitiateBeneficiaryChange, ExecuteBeneficiaryChange, rewardVars
  <2>6. CASE ClaimRewards(p)
    <3>1. /\ Checkpoint /\ rewards' = [rewards EXCEPT ![p] = 0]
          /\ paid' = [paid EXCEPT ![p] = rewardPerToken] /\ now' = now
      BY <2>6 DEF ClaimRewards
    <3>2. 0 \in Nat
      OBVIOUS
    <3> QED BY <3>1, <3>2, CheckpointRewards, Zenon
  <2>7. CASE ClaimVestedRewards(p)
    BY <1>1, <2>7 DEF ClaimVestedRewards
  <2> QED BY <1>3, <2>1, <2>2, <2>3, <2>4, <2>5, <2>6, <2>7, Zenon
          DEF ProviderStep, Stake, StakeWithIdentity
<1>4. ASSUME NEW p \in Providers, SlasherStep(p) \/ UnfreezeProvider(p) PROVE Rewards'
  <2>1. ASSUME NEW a, SlashImmediate(p, a) PROVE Rewards'
    BY <1>2, <2>1 DEF SlashImmediate, Slash
  <2>2. ASSUME NEW a, Propose(p, a) PROVE Rewards'
    BY <1>1, <2>2 DEF Propose, rewardVars
  <2>3. CASE FreezeProvider(p) \/ UnfreezeProvider(p)
    BY <1>1, <2>3 DEF FreezeProvider, UnfreezeProvider, rewardVars
  <2> QED BY <1>4, <2>1, <2>2, <2>3 DEF SlasherStep, ProposeSlash, ProposeSlashByReason
<1>5. ASSUME NEW k \in 1 .. Len(proposals), CarryOut(k), now' = now PROVE Rewards'
  <2>1. proposals[k].provider \in Providers
    <3>1. proposals[k] \in SlashProposal
      OBVIOUS
    <3> QED BY <3>1 DEF SlashProposal
  <2>2. UpdateReward(proposals[k].provider)
    BY <1>5 DEF CarryOut, Slash
  <2> QED BY <1>2, <1>5, <2>1, <2>2
<1>6. ASSUME NEW k \in 1 .. Len(proposals), NEW b \in BOOLEAN,
             ExecuteSlash(k) \/ AppealSlash(k) \/ ResolveAppeal(k, b)
      PROVE  Rewards'
  BY <1>1, <1>5, <1>6 DEF ExecuteSlash, AppealSlash, ResolveAppeal, rewardVars
<1>7. ASSUME NEW a, FundRewards(a) \/ ReportComputeHours(a) PROVE Rewards'
  BY <1>1, <1>7 DEF FundRewards, ReportComputeHours, rewardVars
<1>8. ASSUME NEW a \in Nat, NotifyRewardAmount(a) PROVE Rewards'
  BY <1>8, NotifyRewards, Zenon
<1>9. CASE OwnerStep
  BY <1>1, <1>9 DEF OwnerStep, rewardVars
<1>10. CASE Tick
  <2>1. now' = now + 1 /\ UNCHANGED <<rw, rewards, paid>>
    BY <1>10 DEF Tick, rewardVars
  <2>2. rw.last <= Least(now, rw.finish) /\ now \in Nat /\ rw.finish \in Nat /\ rw.last \in Nat
    BY ClockFields DEF lastTimeRewardApplicable
  <2>3. rw.last <= Least(now + 1, rw.finish)
    BY <2>2 DEF Least
  <2> QED BY <2>1, <2>2, <2>3 DEF Rewards, RewardClockSound, lastTimeRewardApplicable
<1> QED BY <1>3, <1>4, <1>6, <1>7, <1>8, <1>9, <1>10, Zenon DEF Next, Constants
-----------------------------------------------------------------------------
(* The vesting entries: finitely many, none from the future. *)
Vestings ==
  /\ vested \in [Providers -> SUBSET VestedReward]
  /\ \A p \in Providers : IsFiniteSet(vested[p]) /\ \A e \in vested[p] : e.start <= now

LEMMA ImageFinite ==
  ASSUME NEW S, IsFiniteSet(S), NEW f
  PROVE  IsFiniteSet({f[x] : x \in S})
<1> DEFINE T == {f[x] : x \in S}
           g == [x \in S |-> f[x]]
<1>1. g \in Surjection(S, T)
  BY DEF Surjection
<1> QED BY <1>1, FS_Surjection

(* A share in basis points is between nothing and the whole. *)
LEMMA BpsShare ==
  ASSUME NEW x \in Nat, NEW b \in BasisPoints
  PROVE  (x * b) \div BPS_DENOMINATOR \in 0 .. x
<1>1. BPS_DENOMINATOR \in Nat \ {0}
  BY DEF BPS_DENOMINATOR
<1>2. b \in Nat /\ b <= BPS_DENOMINATOR
  BY <1>1 DEF BasisPoints
<1> QED BY <1>1, <1>2, ShareRange, Zenon

(* What has vested of an entry is part of it. *)
LEMMA VestedRange ==
  ASSUME ConfigSound, now \in Nat, NEW e \in VestedReward, e.start <= now
  PROVE  VestedAmount(e) \in 0 .. e.total /\ e.total \in Nat /\ e.released \in Nat
<1> DEFINE age == now - e.start
           all == e.total
           period == cfg.vestingPeriod
<1>1. age \in Nat /\ all \in Nat /\ e.released \in Nat /\ period \in Nat
  BY DEF VestedReward, ConfigSound, Config
<1>2. VestedAmount(e) = IF period = 0 \/ age >= period THEN all ELSE (all * age) \div period
  BY DEF VestedAmount
<1> HIDE DEF age, all, period
<1>3. CASE period = 0 \/ age >= period
  BY <1>1, <1>2, <1>3 DEF all
<1>4. CASE ~(period = 0 \/ age >= period)
  <2>1. period \in Nat \ {0} /\ age <= period
    BY <1>1, <1>4
  <2>2. (all * age) \div period \in 0 .. all
    BY <1>1, <2>1, ShareRange
  <2> QED BY <1>1, <1>2, <1>4, <2>2 DEF all
<1> QED BY <1>3, <1>4

LEMMA ForfeitedType ==
  ASSUME ConfigSound, now \in Nat, Vestings, NEW p \in Providers
  PROVE  Forfeited(p) \in Nat
<1> DEFINE f == [e \in vested[p] |-> Unvested(e)]
<1>1. IsFiniteSet(vested[p]) /\ \A e \in vested[p] : e \in VestedReward /\ e.start <= now
  BY DEF Vestings
<1>2. \A e \in vested[p] : f[e] \in Nat /\ f[e] \in Int
  BY <1>1, VestedRange DEF Unvested
<1>3. Forfeited(p) = SumOver(f, vested[p])
  BY DEF Forfeited
<1> HIDE DEF f
<1> QED BY <1>1, <1>2, <1>3, SumOverType

(* Another set of entries for provider p. *)
LEMMA VestingsMoved ==
  ASSUME Vestings, NEW p \in Providers, NEW S \in SUBSET VestedReward, IsFiniteSet(S),
         \A e \in S : e.start <= now, vested' = [vested EXCEPT ![p] = S], now' = now
  PROVE  Vestings'
<1>1. vested' \in [Providers -> SUBSET VestedReward]
  BY DEF Vestings
<1>2. \A r \in Providers : vested'[r] = IF r = p THEN S ELSE vested[r]
  BY DEF Vestings
<1> QED BY <1>1, <1>2 DEF Vestings

LEMMA SlashVestings ==
  ASSUME Vestings, NEW p \in Providers, NEW a, NEW b, Slash(p, a, b), now' = now
  PROVE  Vestings'
<1> DEFINE f == [e \in vested[p] |-> IF Unvested(e) > 0 THEN [e EXCEPT !.released = e.total] ELSE e]
           S == {f[e] : e \in vested[p]}
<1>1. \A e \in vested[p] : e \in VestedReward /\ e.start <= now
  BY DEF Vestings
<1>2. \A e \in vested[p] : f[e] \in VestedReward /\ f[e].start <= now
  BY <1>1 DEF VestedReward
<1>3. vested' = [vested EXCEPT ![p] = S]
  <2>1. S = {IF Unvested(e) > 0 THEN [e EXCEPT !.released = e.total] ELSE e : e \in vested[p]}
    BY Zenon
  <2> HIDE DEF S
  <2> QED BY <2>1 DEF Slash
<1> HIDE DEF f
<1>4. IsFiniteSet(S)
  BY ImageFinite DEF Vestings
<1>5. S \in SUBSET VestedReward /\ \A e \in S : e.start <= now
  BY <1>2
<1> HIDE DEF S
<1> QED BY <1>3, <1>4, <1>5, VestingsMoved, Zenon

LEMMA ClaimVestings ==
  ASSUME Constants, ConfigSound, Stakes, Rewards, Vestings, NEW p \in Providers, ClaimRewards(p)
  PROVE  Vestings'
<1> DEFINE reward == Earned(p)
           imm == (reward * cfg.immediateReleaseBps) \div BPS_DENOMINATOR
           ves == reward - imm
           e == [total |-> ves, released |-> 0, start |-> now]
           S == vested[p] \cup (IF ves > 0 THEN {e} ELSE {})
<1>1. reward \in Nat /\ now \in Nat
  BY EarnedType DEF Rewards
<1>2. cfg.immediateReleaseBps \in BasisPoints
  BY DEF ConfigSound, Config
<1>3. vested' = [vested EXCEPT ![p] = S] /\ now' = now
  BY DEF ClaimRewards
<1> HIDE DEF reward
<1>4. imm \in 0 .. reward
  BY <1>1, <1>2, BpsShare, Zenon
<1> HIDE DEF imm
<1>5. ves \in Nat
  BY <1>1, <1>4
<1> HIDE DEF ves
<1>6. e \in VestedReward /\ e.start <= now
  BY <1>1, <1>5 DEF VestedReward
<1> HIDE DEF e
<1>7. S \in SUBSET VestedReward /\ \A d \in S : d.start <= now
  BY <1>6 DEF Vestings
<1>8. IsFiniteSet(S)
  <2>1. IsFiniteSet(vested[p]) /\ IsFiniteSet(vested[p] \cup {e}) /\ vested[p] \cup {} = vested[p]
    BY FS_AddElement DEF Vestings
  <2> QED BY <2>1
<1> HIDE DEF S
<1> QED BY <1>3, <1>7, <1>8, VestingsMoved, Zenon

LEMMA ClaimVestedVestings ==
  ASSUME ConfigSound, now \in Nat, Vestings, NEW p \in Providers, ClaimVestedRewards(p)
  PROVE  Vestings'
<1> DEFINE D == {d \in vested[p] : VestedAmount(d) < d.total}
           f == [e \in D |-> [e EXCEPT !.released = VestedAmount(e)]]
           S == {f[e] : e \in D}
<1>1. \A e \in vested[p] : e \in VestedReward /\ e.start <= now
  BY DEF Vestings
<1>2. \A e \in D : VestedAmount(e) \in Nat
  BY <1>1, VestedRange
<1>3. \A e \in D : f[e] \in VestedReward /\ f[e].start <= now
  BY <1>1, <1>2 DEF VestedReward
<1>4. vested' = [vested EXCEPT ![p] = S] /\ now' = now
  <2>1. S = {[e EXCEPT !.released = VestedAmount(e)] : e \in D}
    BY Zenon
  <2> HIDE DEF S
  <2> QED BY <2>1 DEF ClaimVestedRewards
<1>5. IsFiniteSet(D)
  BY FS_Subset DEF Vestings
<1> HIDE DEF f, D
<1>6. IsFiniteSet(S)
  BY <1>5, ImageFinite
<1>7. S \in SUBSET VestedReward /\ \A e \in S : e.start <= now
  BY <1>3
<1> HIDE DEF S
<1> QED BY <1>4, <1>6, <1>7, VestingsMoved, Zenon

LEMMA VestingsKept ==
  ASSUME Constants, ConfigSound, Stakes, Rewards, Vestings, proposals \in Seq(SlashProposal), Next
  PROVE  Vestings'
<1>1. ASSUME vested' = vested, now' = now PROVE Vestings'
  BY <1>1 DEF Vestings
<1>2. ASSUME NEW p \in Providers, ProviderStep(p) PROVE Vestings'
  <2>1. ASSUME NEW a, NEW n, \/ Deposit(p, a, n) \/ UpdateIdentity(p, n) \/ RequestUnstake(p, a)
                             \/ CompleteUnstake(p, a) \/ InitiateBeneficiaryChange(p, n)
                             \/ ExecuteBeneficiaryChange(p)
        PROVE  Vestings'
    BY <1>1, <2>1 DEF Deposit, UpdateIdentity, RequestUnstake, CompleteUnstake,
                      InitiateBeneficiaryChange, ExecuteBeneficiaryChange, rewardVars
  <2>2. CASE ClaimRewards(p)
    BY <2>2, ClaimVestings
  <2>3. CASE ClaimVestedRewards(p)
    BY <2>3, ClaimVestedVestings, Zenon DEF Rewards
  <2> QED BY <1>2, <2>1, <2>2, <2>3, Zenon DEF ProviderStep, Stake, StakeWithIdentity
<1>3. ASSUME NEW p \in Providers, SlasherStep(p) \/ UnfreezeProvider(p) PROVE Vestings'
  <2>1. ASSUME NEW a, SlashImmediate(p, a) PROVE Vestings'
    BY <2>1, SlashVestings, Zenon DEF SlashImmediate
  <2>2. ASSUME NEW a, Propose(p, a) PROVE Vestings'
    BY <1>1, <2>2 DEF Propose, rewardVars
  <2>3. CASE FreezeProvider(p) \/ UnfreezeProvider(p)
    BY <1>1, <2>3 DEF FreezeProvider, UnfreezeProvider, rewardVars
  <2> QED BY <1>3, <2>1, <2>2, <2>3 DEF SlasherStep, ProposeSlash, ProposeSlashByReason
<1>4. ASSUME NEW k \in 1 .. Len(proposals), CarryOut(k), now' = now PROVE Vestings'
  <2>1. proposals[k].provider \in Providers
    <3>1. proposals[k] \in SlashProposal
      OBVIOUS
    <3> QED BY <3>1 DEF SlashProposal
  <2>2. CASE vested' = vested
    BY <1>1, <1>4, <2>2
  <2>3. CASE \E a : Slash(proposals[k].provider, a, proposals[k].burnBps)
    BY <1>4, <2>1, <2>3, SlashVestings
  <2> QED BY <1>4, <2>2, <2>3 DEF CarryOut
<1>5. ASSUME NEW k \in 1 .. Len(proposals), NEW b \in BOOLEAN,
             ExecuteSlash(k) \/ AppealSlash(k) \/ ResolveAppeal(k, b)
      PROVE  Vestings'
  BY <1>1, <1>4, <1>5, Zenon DEF ExecuteSlash, AppealSlash, ResolveAppeal, rewardVars
<1>6. ASSUME NEW a, FundRewards(a) \/ NotifyRewardAmount(a) \/ ReportComputeHours(a)
      PROVE  Vestings'
  BY <1>1, <1>6, Zenon DEF FundRewards, NotifyRewardAmount, ReportComputeHours, rewardVars
<1>7. CASE OwnerStep
  BY <1>1, <1>7, Zenon DEF OwnerStep, rewardVars
<1>8. CASE Tick
  <2>1. now' = now + 1 /\ vested' = vested /\ now \in Nat
    BY <1>8 DEF Tick, rewardVars, Rewards
  <2>2. \A p \in Providers : \A e \in vested[p] : e.start \in Nat
    BY DEF Vestings, VestedReward
  <2> QED BY <2>1, <2>2 DEF Vestings
<1> QED BY <1>2, <1>3, <1>5, <1>6, <1>7, <1>8, Zenon DEF Next
-----------------------------------------------------------------------------
(* The tokens. *)
Tokens == token \in [Accounts -> Nat] /\ burned \in Nat /\ TokensConserved

LEMMA AccountsFinite ==
  ASSUME Constants
  PROVE  IsFiniteSet(Accounts) /\ Staking \in Accounts /\ Owner \in Accounts /\ Providers \subseteq Accounts
<1>1. IsFiniteSet({Staking, Owner}) /\ IsFiniteSet(Treasuries) /\ IsFiniteSet(Providers)
  <2>1. IsFiniteSet({Staking}) /\ {Staking} \cup {Owner} = {Staking, Owner}
    BY FS_Singleton, Zenon
  <2>2. IsFiniteSet({Staking} \cup {Owner})
    BY <2>1, FS_AddElement, Zenon
  <2> QED BY <2>1, <2>2, ProvidersFinite DEF Constants
<1>2. IsFiniteSet(Providers \cup Treasuries)
  BY <1>1, FS_Union, ZenonT(30)
<1> QED BY <1>1, <1>2, FS_Union, ZenonT(30) DEF Accounts

LEMMA TwoCredits ==
  ASSUME NEW S, IsFiniteSet(S), NEW f, NEW g, NEW h, NEW a \in S, NEW b \in S, NEW v \in Int, NEW w \in Int,
         \A x \in S : f[x] \in Int, Credited(g, f, S, a, v), Credited(h, g, S, b, w)
  PROVE  SumOver(f, S) \in Int /\ SumOver(h, S) = SumOver(f, S) + v + w
<1>1. SumOver(g, S) = SumOver(f, S) + v
  BY Credit, Zenon
<1>2. SumOver(h, S) = SumOver(g, S) + w
  BY Credit, Zenon
<1>3. SumOver(f, S) \in Int
  BY SumOverType
<1> QED BY <1>1, <1>2, <1>3

(* An amount leaves one account; what arrives at another and what is       *)
(* burned make it up.                                                      *)
LEMMA TokensMoved ==
  ASSUME Constants, Tokens, NEW from \in Accounts, NEW to \in Accounts,
         NEW out \in Nat, NEW in \in Nat, NEW burnt \in Nat, out = in + burnt,
         token[from] >= out,
         token' = [token EXCEPT ![from] = @ - out, ![to] = @ + in], burned' = burned + burnt
  PROVE  Tokens'
<1> DEFINE t == [token EXCEPT ![from] = @ - out]
<1>1. t \in [Accounts -> Nat] /\ Credited(t, token, Accounts, from, -out)
  BY DEF Tokens, Credited
<1>2. IsFiniteSet(Accounts)
  BY AccountsFinite
<1>3. token' \in [Accounts -> Nat] /\ Credited(token', t, Accounts, to, in)
  BY <1>1 DEF Tokens, Credited
<1> HIDE DEF t
<1>4. -out \in Int /\ in \in Int
  OBVIOUS
<1>5. \A a \in Accounts : token[a] \in Int
  BY DEF Tokens
<1>6. SumOver(token, Accounts) \in Int /\ SumOver(token', Accounts) = SumOver(token, Accounts) + (-out) + in
  BY <1>1, <1>2, <1>3, <1>4, <1>5, TwoCredits
<1>7. burned \in Nat /\ burned' \in Nat
  BY DEF Tokens
<1>8. SumOver(token', Accounts) + burned' = SumOver(token, Accounts) + burned
  BY <1>6, <1>7
<1> QED BY <1>3, <1>7, <1>8 DEF Tokens, TokensConserved

LEMMA TransferTokens ==
  ASSUME Constants, Tokens, NEW from \in Accounts, NEW to \in Accounts, NEW amount \in Nat,
         Transfer(from, to, amount)
  PROVE  Tokens'
<1>1. /\ token[from] >= amount
      /\ token' = [token EXCEPT ![from] = @ - amount, ![to] = @ + amount] /\ burned' = burned
  BY DEF Transfer
<1>2. amount = amount + 0 /\ burned' = burned + 0 /\ 0 \in Nat
  BY <1>1 DEF Tokens
<1> QED BY <1>1, <1>2, TokensMoved, Zenon

(* What a slash takes out of the contract, the forfeited rewards included. *)
SlashTotal(p, amount) ==
  LET fromActive == FromActive(p, amount)
      rest == amount - fromActive
      fromQueue == SumOver(Taken(queue[p], rest), 1 .. Len(queue[p]))
      locked == (totalStaked - fromActive) + (totalUnbonding - fromQueue)
  IN  amount + Least(Forfeited(p), token[Staking] - locked)

LEMMA SlashTotalType ==
  ASSUME Constants, ConfigSound, now \in Nat, Stakes, Vestings, Tokens,
         NEW p \in Providers, NEW amount \in Nat, NEW bps, Slash(p, amount, bps)
  PROVE  /\ SlashTotal(p, amount) \in Nat /\ amount <= SlashTotal(p, amount)
         /\ token[Staking] >= SlashTotal(p, amount)
<1> DEFINE fa == FromActive(p, amount)
           rest == amount - fa
           fq == SumOver(Taken(queue[p], rest), 1 .. Len(queue[p]))
           locked == (totalStaked - fa) + (totalUnbonding - fq)
           extra == Least(Forfeited(p), token[Staking] - locked)
<1>1. fa \in Nat /\ rest \in Nat /\ fq = rest
  <2>1. amount <= Slashable(p) /\ info[p].staked \in Nat /\ info[p].unbonding \in Nat
    BY StakeOf DEF Slash
  <2>2. fa \in 0 .. info[p].staked /\ rest \in 0 .. info[p].unbonding /\ fq = rest
    BY <2>1, SlashTakes
  <2> HIDE DEF fa, rest, fq
  <2> QED BY <2>1, <2>2
<1>2. token[Staking] \in Nat /\ totalStaked \in Nat /\ totalUnbonding \in Nat
  BY AccountsFinite DEF Tokens, Stakes
<1>3. token[Staking] >= locked /\ token[Staking] >= SlashTotal(p, amount)
  BY DEF Slash, SlashTotal
<1>4. SlashTotal(p, amount) = amount + extra
  BY DEF SlashTotal
<1>5. Forfeited(p) \in Nat
  BY ForfeitedType
<1> HIDE DEF fa, rest, fq
<1>6. locked \in Int
  BY <1>1, <1>2
<1> HIDE DEF locked
<1>7. extra \in Nat
  BY <1>2, <1>3, <1>5, <1>6 DEF Least
<1> HIDE DEF extra
<1>8. SlashTotal(p, amount) \in Nat /\ amount <= SlashTotal(p, amount)
  BY <1>4, <1>7
<1> QED BY <1>3, <1>8

LEMMA SlashTokens ==
  ASSUME Constants, ConfigSound, now \in Nat, Stakes, Vestings, Tokens,
         NEW p \in Providers, NEW amount \in Nat, NEW bps \in BasisPoints, Slash(p, amount, bps)
  PROVE  Tokens'
<1> DEFINE total == SlashTotal(p, amount)
           burnt == BurnShare(total, bps)
           share == TreasuryShare(total, bps)
<1>1. total \in Nat /\ token[Staking] >= total
  BY SlashTotalType
<1>2. cfg.treasury \in Accounts /\ Staking \in Accounts
  BY AccountsFinite DEF ConfigSound, Config, Accounts
<1>3. /\ token' = [token EXCEPT ![Staking] = @ - total, ![cfg.treasury] = @ + share]
      /\ burned' = burned + burnt
  BY DEF Slash, SlashTotal
<1> HIDE DEF total
<1>4. burnt \in 0 .. total
  BY <1>1, BpsShare DEF BurnShare
<1>5. share = total - burnt
  BY DEF TreasuryShare
<1> HIDE DEF burnt, share
<1>6. share \in Nat /\ burnt \in Nat /\ total = share + burnt
  BY <1>1, <1>4, <1>5
<1> QED BY <1>1, <1>2, <1>3, <1>6, TokensMoved, Zenon

LEMMA ClaimTokens ==
  ASSUME Constants, ConfigSound, Stakes, Rewards, Tokens, NEW p \in Providers, ClaimRewards(p)
  PROVE  Tokens'
<1> DEFINE imm == (Earned(p) * cfg.immediateReleaseBps) \div BPS_DENOMINATOR
<1>1. Earned(p) \in Nat
  BY EarnedType
<1>2. cfg.immediateReleaseBps \in BasisPoints
  BY DEF ConfigSound, Config
<1>3. imm \in 0 .. Earned(p)
  BY <1>1, <1>2, BpsShare
<1>4. Transfer(Staking, p, imm)
  BY DEF ClaimRewards
<1> HIDE DEF imm
<1>5. imm \in Nat /\ Staking \in Accounts /\ p \in Accounts
  BY <1>1, <1>3, AccountsFinite
<1> QED BY <1>4, <1>5, TransferTokens

LEMMA ClaimVestedTokens ==
  ASSUME Constants, ConfigSound, now \in Nat, Vestings, Tokens, NEW p \in Providers,
         ClaimVestedRewards(p)
  PROVE  Tokens'
<1> DEFINE f == [e \in vested[p] |-> VestedAmount(e) - e.released]
           claimable == SumOver(f, vested[p])
<1>1. IsFiniteSet(vested[p]) /\ \A e \in vested[p] : e \in VestedReward /\ e.start <= now
  BY DEF Vestings
<1>2. \A e \in vested[p] : f[e] \in Int
  BY <1>1, VestedRange
<1>3. claimable > 0 /\ Transfer(Staking, p, claimable)
  BY DEF ClaimVestedRewards
<1> HIDE DEF f
<1>4. claimable \in Int
  BY <1>1, <1>2, SumOverType
<1> HIDE DEF claimable
<1>5. claimable \in Nat
  BY <1>3, <1>4
<1>6. Staking \in Accounts /\ p \in Accounts
  BY AccountsFinite, Zenon
<1> QED BY <1>3, <1>5, <1>6, TransferTokens

(* The provider and the amounts of a proposal. *)
LEMMA ProposalOf ==
  ASSUME Constants, Stakes, proposals \in Seq(SlashProposal), NEW k \in 1 .. Len(proposals)
  PROVE  /\ proposals[k] \in SlashProposal /\ proposals[k].provider \in Providers
         /\ proposals[k].burnBps \in BasisPoints
         /\ Least(proposals[k].amount, Slashable(proposals[k].provider)) \in Nat
<1>1. proposals[k] \in SlashProposal
  OBVIOUS
<1>2. /\ proposals[k].provider \in Providers /\ proposals[k].burnBps \in BasisPoints
      /\ proposals[k].amount \in Nat
  BY <1>1 DEF SlashProposal
<1> DEFINE q == proposals[k].provider
<1>3. info[q].staked \in Nat /\ info[q].unbonding \in Nat
  BY <1>2, StakeOf, Zenon
<1>4. Slashable(q) \in Nat
  BY <1>3 DEF Slashable
<1> QED BY <1>1, <1>2, <1>4 DEF Least

LEMMA TokensKept ==
  ASSUME Constants, ConfigSound, Stakes, Rewards, Vestings, Tokens,
         proposals \in Seq(SlashProposal), Next
  PROVE  Tokens'
<1>1. ASSUME UNCHANGED <<token, burned>> PROVE Tokens'
  BY <1>1 DEF Tokens, TokensConserved
<1>2. now \in Nat /\ Staking \in Accounts /\ Owner \in Accounts /\ Providers \subseteq Accounts
  BY AccountsFinite, Zenon DEF Rewards
<1>3. ASSUME NEW p \in Providers, ProviderStep(p) PROVE Tokens'
  <2>1. ASSUME NEW a \in Nat, NEW n, Deposit(p, a, n) PROVE Tokens'
    BY <1>2, <2>1, TransferTokens DEF Deposit
  <2>2. ASSUME NEW i \in 1 .. Len(queue[p]), CompleteUnstake(p, i) PROVE Tokens'
    <3>1. queue[p][i].amount \in Nat
      BY StakeOf, QueueTypes
    <3> QED BY <1>2, <2>2, <3>1, TransferTokens, Zenon DEF CompleteUnstake
  <2>3. ASSUME NEW a, NEW n, \/ UpdateIdentity(p, n) \/ RequestUnstake(p, a)
                             \/ InitiateBeneficiaryChange(p, n) \/ ExecuteBeneficiaryChange(p)
        PROVE  Tokens'
    BY <1>1, <2>3 DEF UpdateIdentity, RequestUnstake, InitiateBeneficiaryChange,
                      ExecuteBeneficiaryChange
  <2>4. CASE ClaimRewards(p)
    BY <2>4, ClaimTokens
  <2>5. CASE ClaimVestedRewards(p)
    BY <1>2, <2>5, ClaimVestedTokens
  <2> QED BY <1>3, <2>1, <2>2, <2>3, <2>4, <2>5, ZenonT(30)
          DEF ProviderStep, Stake, StakeWithIdentity,
             Constants
<1>4. ASSUME NEW p \in Providers, SlasherStep(p) \/ UnfreezeProvider(p) PROVE Tokens'
  <2>1. ASSUME NEW a \in Nat, SlashImmediate(p, a) PROVE Tokens'
    <3>1. cfg.slashBurnBps \in BasisPoints
      BY DEF ConfigSound, Config
    <3> QED BY <1>2, <2>1, <3>1, SlashTokens DEF SlashImmediate
  <2>2. ASSUME NEW a, Propose(p, a) PROVE Tokens'
    BY <1>1, <2>2 DEF Propose
  <2>3. CASE FreezeProvider(p) \/ UnfreezeProvider(p)
    BY <1>1, <2>3 DEF FreezeProvider, UnfreezeProvider
  <2> QED BY <1>4, <2>1, <2>2, <2>3, Zenon
          DEF SlasherStep, ProposeSlash, ProposeSlashByReason, Constants
<1>5. ASSUME NEW k \in 1 .. Len(proposals), CarryOut(k) PROVE Tokens'
  BY <1>1, <1>2, <1>5, ProposalOf, SlashTokens DEF CarryOut
<1>6. ASSUME NEW k \in 1 .. Len(proposals), NEW b \in BOOLEAN,
             ExecuteSlash(k) \/ AppealSlash(k) \/ ResolveAppeal(k, b)
      PROVE  Tokens'
  BY <1>1, <1>5, <1>6 DEF ExecuteSlash, AppealSlash, ResolveAppeal
<1>7. ASSUME NEW a \in Nat, FundRewards(a) PROVE Tokens'
  BY <1>2, <1>7, TransferTokens, ZenonT(30) DEF FundRewards
<1>8. ASSUME NEW a, NotifyRewardAmount(a) \/ ReportComputeHours(a) PROVE Tokens'
  BY <1>1, <1>8 DEF NotifyRewardAmount, ReportComputeHours
<1>9. CASE OwnerStep \/ Tick
  BY <1>1, <1>9, Zenon DEF OwnerStep, Tick
<1> QED BY <1>3, <1>4, <1>6, <1>7, <1>8, <1>9, Zenon DEF Next, Constants
=============================================================================
