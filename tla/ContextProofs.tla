---------------------------- MODULE ContextProofs ----------------------------
(***************************************************************************)
(* Theorems about Context, for every value of its constants.               *)
(*                                                                         *)
(* A page of a thread is its rest up to some rank, so what was there when  *)
(* the reading began is read or still to come (ToCome).                    *)
(*                                                                         *)
(* A request says what it is made of: every version it names is an item    *)
(* with its text, or one the agent was given before (Consistent), for each *)
(* item is heard on its own and what was heard stays heard.  The snapshot  *)
(* of a pass can only lag behind the history (Recalled), so what a pass    *)
(* takes as known is known.  A trigger that a shortened batch leaves for   *)
(* later comes after all that the batch may take as context (OrdinaryPlan).*)
(*                                                                         *)
(* Every message was built for the earliest candidate, around one that is  *)
(* carried over, or is one as it was (Proper).  Its triggers are said once *)
(* because required posts are always chosen and what is frozen is not      *)
(* chosen again (SaysOnce); what it leaves out before its anchor was said  *)
(* to the agent, or posts were omitted, which stays true of the thread as  *)
(* it goes on (Surveyed, PassesNothingOver).                               *)
(***************************************************************************)
EXTENDS Context, DataFacts, SequenceTheorems

Kindred == {"initial", "clarification"}
Deliveries == {"pending", "delivered", "undelivered", "rejected"}
Items == [post : Nat, ver : Nat, text : BOOLEAN, linked : BOOLEAN]
Records ==
    [anchor : Nat, triggers : SUBSET Nat, contexts : SUBSET Nat, versions : SUBSET (Nat \X Nat),
     items : Seq(Items), omitted : BOOLEAN, pred : Nat, kind : Kindred, delivery : Deliveries,
     heard : Nat, session : Nat, run : Nat]
(* A message is delivered when its last item was heard.  Only a clarification
   can be undelivered, and one that carries another over is none.           *)
Sound(m) ==
    /\ m.heard <= Len(m.items) /\ (m.delivery = "delivered" <=> m.heard = Len(m.items))
    /\ m.delivery = "undelivered" => m.kind = "clarification"
    /\ m.kind = "clarification" => m.pred = 0
Message == {m \in Records : Sound(m)}
PostState == [at : Nat, ver : Nat, live : BOOLEAN]

ThreadOK ==
    /\ DOMAIN thread \subseteq Ids /\ Root \in DOMAIN thread
    /\ thread \in [DOMAIN thread -> PostState]
    /\ now \in Nat /\ \A p \in DOMAIN thread : thread[p].at <= now
    /\ \A p \in DOMAIN thread : thread[Root].at <= thread[p].at

LEMMA Constants ==
    /\ Ids \subseteq Nat /\ Root \in Ids /\ IsFiniteSet(Ids) /\ \A p \in Ids : Root <= p
    /\ Far \in Seq(Nat) /\ Window \in Nat /\ None \notin Nat
BY ContextAssumption

(* The order of posts is a strict total order.                              *)
LEMMA BeforeOrder ==
    ASSUME ThreadOK, NEW p \in DOMAIN thread, NEW q \in DOMAIN thread, NEW r \in DOMAIN thread
    PROVE  /\ ~Before(p, p)
           /\ Before(p, q) /\ Before(q, r) => Before(p, r)
           /\ p # q => Before(p, q) \/ Before(q, p)
           /\ Before(p, q) => thread[p].at <= thread[q].at
<1>1. p \in Nat /\ q \in Nat /\ r \in Nat
  BY Constants DEF ThreadOK
<1>2. thread[p].at \in Nat /\ thread[q].at \in Nat /\ thread[r].at \in Nat
  BY DEF ThreadOK, PostState
<1> QED BY <1>1, <1>2 DEF Before

LEMMA PostsFinite ==
    ASSUME ThreadOK, NEW S, S \subseteq DOMAIN thread
    PROVE  IsFiniteSet(S) /\ Cardinality(S) \in Nat
BY Constants, FS_Subset, FS_CardinalityType DEF ThreadOK

(* The rank of a post among others: how many of them come before it.        *)
LEMMA RankBounded ==
    ASSUME ThreadOK, NEW S, S \subseteq DOMAIN thread, NEW p \in S
    PROVE  Rank(S, p) \in 0 .. (Cardinality(S) - 1)
<1> DEFINE T == {q \in S : Before(q, p)}
<1>1. IsFiniteSet(S) /\ Cardinality(S) \in Nat /\ T \in SUBSET S /\ p \notin T
  BY PostsFinite, BeforeOrder
<1>2. IsFiniteSet(T) /\ Cardinality(T) <= Cardinality(S) /\ Cardinality(S) # Cardinality(T)
  <2> HIDE DEF T
  <2> QED BY <1>1, FS_Subset
<1>3. Cardinality(T) \in Nat
  BY <1>2, FS_CardinalityType
<1> QED BY <1>1, <1>2, <1>3 DEF Rank

LEMMA RankOrders ==
    ASSUME ThreadOK, NEW S, S \subseteq DOMAIN thread, NEW p \in S, NEW q \in S, Before(p, q)
    PROVE  Rank(S, p) < Rank(S, q)
<1> DEFINE T == {r \in S : Before(r, p)}
           U == {r \in S : Before(r, q)}
<1>1. IsFiniteSet(S) /\ T \in SUBSET U /\ U \in SUBSET S /\ p \in U /\ p \notin T
  BY PostsFinite, BeforeOrder
<1>2. IsFiniteSet(U) /\ IsFiniteSet(T) /\ Cardinality(T) <= Cardinality(U) /\ Cardinality(U) # Cardinality(T)
  <2> HIDE DEF T, U
  <2> QED BY <1>1, FS_Subset
<1>3. Cardinality(T) \in Nat /\ Cardinality(U) \in Nat
  <2> HIDE DEF T, U
  <2> QED BY <1>2, FS_CardinalityType
<1> QED BY <1>2, <1>3 DEF Rank

LEMMA RankTells ==
    ASSUME ThreadOK, NEW S, S \subseteq DOMAIN thread, NEW p \in S, NEW q \in S
    PROVE  /\ Rank(S, p) = Rank(S, q) => p = q
           /\ Rank(S, p) <= Rank(S, q) => p = q \/ Before(p, q)
<1>1. Rank(S, p) \in Nat /\ Rank(S, q) \in Nat
  BY RankBounded, PostsFinite
<1>2. Before(p, q) => Rank(S, p) < Rank(S, q)
  BY RankOrders
<1>3. Before(q, p) => Rank(S, q) < Rank(S, p)
  BY RankOrders
<1> QED BY <1>1, <1>2, <1>3, BeforeOrder

(* Every rank is taken, so posts can be listed by rank.                     *)
LEMMA RankTaken ==
    ASSUME ThreadOK, NEW S, S \subseteq DOMAIN thread, NEW i \in 1 .. Cardinality(S)
    PROVE  \E p \in S : Rank(S, p) = i - 1
<1> DEFINE n == Cardinality(S)
           T == 0 .. (n - 1)
           f == [p \in S |-> Rank(S, p)]
<1>1. IsFiniteSet(S) /\ n \in Nat
  BY PostsFinite
<1>2. IsFiniteSet(T) /\ Cardinality(T) = n
  <2>1. n - 1 \in Int /\ 0 \in Int
    BY <1>1
  <2>2. IsFiniteSet(T) /\ Cardinality(T) = IF 0 > n - 1 THEN 0 ELSE (n - 1) - 0 + 1
    <3> HIDE DEF n
    <3> QED BY <2>1, FS_Interval
  <2> QED BY <1>1, <2>2
<1>3. f \in [S -> T]
  BY RankBounded
<1>4. \A p, q \in S : f[p] = f[q] => p = q
  BY RankTells
<1>5. f \in Injection(S, T)
  <2> HIDE DEF f, T
  <2> QED BY <1>3, <1>4 DEF Injection, IsInjective
<1>6. f \in Surjection(S, T)
  <2> HIDE DEF f, T
  <2> QED BY <1>1, <1>2, <1>5, FS_Injection
<1>7. i - 1 \in T
  BY <1>1
<1>8. \A t \in T : \E p \in S : f[p] = t
  <2> HIDE DEF f, T
  <2> QED BY <1>6 DEF Surjection
<1>9. PICK p \in S : f[p] = i - 1
  <2> HIDE DEF f, T
  <2> QED BY <1>7, <1>8
<1> QED BY <1>9

LEMMA Chronologically ==
    ASSUME ThreadOK, NEW S, S \subseteq DOMAIN thread
    PROVE  /\ Chronological(S) \in Seq(S) /\ Len(Chronological(S)) = Cardinality(S)
           /\ \A i \in 1 .. Cardinality(S) : /\ Chronological(S)[i] \in S
                                             /\ Rank(S, Chronological(S)[i]) = i - 1
           /\ \A p \in S : \E i \in 1 .. Cardinality(S) : Chronological(S)[i] = p
<1> DEFINE n == Cardinality(S)
           f == [i \in 1 .. n |-> CHOOSE p \in S : Rank(S, p) = i - 1]
<1>1. n \in Nat
  BY PostsFinite
<1>2. \A i \in 1 .. n : f[i] \in S /\ Rank(S, f[i]) = i - 1
  <2> TAKE i \in 1 .. n
  <2>1. \E p \in S : Rank(S, p) = i - 1
    BY RankTaken
  <2> QED BY <2>1
<1>3. f \in [1 .. n -> S]
  BY <1>2
<1>4. f \in Seq(S) /\ Len(f) = n
  <2>1. DOMAIN f = 1 .. n
    OBVIOUS
  <2> HIDE DEF f
  <2> QED BY <1>1, <1>3, <2>1
<1>5. Chronological(S) = f
  <2>1. Chronological(S) = <<>> \o f
    BY DEF Chronological
  <2> HIDE DEF f
  <2> QED BY <1>4, <2>1, ConcatEmptySeq
<1>6. ASSUME NEW p \in S
      PROVE  \E i \in 1 .. n : f[i] = p
  <2>1. Rank(S, p) \in 0 .. (n - 1)
    BY RankBounded
  <2>2. PICK k \in 1 .. n : k - 1 = Rank(S, p)
    <3>1. Rank(S, p) + 1 \in 1 .. n /\ (Rank(S, p) + 1) - 1 = Rank(S, p)
      BY <1>1, <2>1
    <3> QED BY <3>1
  <2>3. f[k] \in S /\ Rank(S, f[k]) = Rank(S, p)
    <3> HIDE DEF f
    <3> QED BY <1>2, <2>2
  <2>4. f[k] = p
    <3> HIDE DEF f
    <3> QED BY <2>3, RankTells
  <2> QED BY <2>4
<1> HIDE DEF f
<1> QED BY <1>2, <1>4, <1>5, <1>6

LEMMA LatestOf ==
    ASSUME ThreadOK, NEW S, S \subseteq DOMAIN thread, S # {}
    PROVE  \E p \in S : \A q \in S \ {p} : Before(q, p)
<1> DEFINE T == {Rank(S, p) : p \in S}
           n == Cardinality(S)
<1>1. n \in Nat /\ T \subseteq 0 .. n /\ T # {}
  <2>1. n \in Nat
    BY PostsFinite
  <2>2. \A p \in S : Rank(S, p) \in 0 .. n
    BY <2>1, RankBounded
  <2> QED BY <2>1, <2>2
<1>2. PICK t \in T : \A u \in T : u <= t
  <2> HIDE DEF T, n
  <2> QED BY <1>1, GreatestOfBounded
<1>3. PICK p \in S : Rank(S, p) = t
  OBVIOUS
<1>4. \A q \in S : Rank(S, q) <= Rank(S, p)
  BY <1>2, <1>3
<1> QED BY <1>4, RankTells

(* A sequence whose first n elements are moved to its end has the same elements,
   each as often.                                                           *)
SameElements(t, s) ==
    /\ Len(t) = Len(s)
    /\ \A k \in 1 .. Len(s) : \E l \in 1 .. Len(s) : t[k] = s[l]
    /\ \A l \in 1 .. Len(s) : \E k \in 1 .. Len(s) :
          t[k] = s[l] /\ \A j \in 1 .. Len(s) : j # k => \E i \in 1 .. Len(s) : i # l /\ t[j] = s[i]

LEMMA TurnedItems ==
    ASSUME NEW T, NEW s \in Seq(T), NEW n \in Nat, n <= Len(s),
           NEW t, t = SubSeq(s, n + 1, Len(s)) \o SubSeq(s, 1, n)
    PROVE  t \in Seq(T) /\ SameElements(t, s)
<1> DEFINE N == Len(s)
           u == SubSeq(s, n + 1, N)
           v == SubSeq(s, 1, n)
           to(k) == IF k <= N - n THEN k + n ELSE k - (N - n)
           from(l) == IF l <= n THEN l + (N - n) ELSE l - n
<1>1. N \in Nat /\ n <= N /\ DOMAIN s = 1 .. N /\ \A i \in 1 .. N : s[i] \in T
  OBVIOUS
<1>2. /\ u \in Seq(T) /\ Len(u) = N - n /\ \A i \in 1 .. N - n : u[i] = s[i + n]
  <2>1. n + 1 \in Int /\ N \in Int /\ \A i \in n + 1 .. N : s[i] \in T
    BY <1>1
  <2> HIDE DEF N
  <2>2. /\ u \in Seq(T) /\ Len(u) = IF n + 1 <= N THEN N - (n + 1) + 1 ELSE 0
        /\ \A i \in 1 .. N - (n + 1) + 1 : u[i] = s[n + 1 + i - 1]
    <3>1. /\ SubSeq(s, n + 1, N) \in Seq(T) /\ Len(SubSeq(s, n + 1, N)) = IF n + 1 <= N THEN N - (n + 1) + 1 ELSE 0
          /\ \A i \in 1 .. N - (n + 1) + 1 : SubSeq(s, n + 1, N)[i] = s[n + 1 + i - 1]
      BY ONLY <2>1, SubSeqProperties
    <3> QED BY <3>1
  <2> HIDE DEF u
  <2>3. Len(u) = N - n
    BY <1>1, <2>2
  <2>4. \A i \in 1 .. N - n : i \in 1 .. N - (n + 1) + 1 /\ n + 1 + i - 1 = i + n
    BY <1>1
  <2> QED BY <2>2, <2>3, <2>4
<1>3. /\ v \in Seq(T) /\ Len(v) = n /\ \A i \in 1 .. n : v[i] = s[i]
  <2>1. 1 \in Int /\ n \in Int /\ \A i \in 1 .. n : s[i] \in T
    BY <1>1
  <2>2. /\ v \in Seq(T) /\ Len(v) = IF 1 <= n THEN n - 1 + 1 ELSE 0
        /\ \A i \in 1 .. n - 1 + 1 : v[i] = s[1 + i - 1]
    <3>1. /\ SubSeq(s, 1, n) \in Seq(T) /\ Len(SubSeq(s, 1, n)) = IF 1 <= n THEN n - 1 + 1 ELSE 0
          /\ \A i \in 1 .. n - 1 + 1 : SubSeq(s, 1, n)[i] = s[1 + i - 1]
      BY ONLY <2>1, SubSeqProperties
    <3> QED BY <3>1
  <2> HIDE DEF v
  <2>3. Len(v) = n
    BY <2>2
  <2>4. \A i \in 1 .. n : i \in 1 .. n - 1 + 1 /\ 1 + i - 1 = i
    OBVIOUS
  <2> QED BY <2>2, <2>3, <2>4
<1> HIDE DEF u, v
<1>4. /\ t \in Seq(T) /\ Len(t) = (N - n) + n
      /\ \A k \in 1 .. (N - n) + n : t[k] = IF k <= N - n THEN u[k] ELSE v[k - (N - n)]
  <2>1. t = u \o v
    BY DEF u, v
  <2>2. u \in Seq(T) /\ v \in Seq(T)
    BY <1>2, <1>3
  <2>3. /\ u \o v \in Seq(T) /\ Len(u \o v) = Len(u) + Len(v)
        /\ \A i \in 1 .. Len(u) + Len(v) : (u \o v)[i] = IF i <= Len(u) THEN u[i] ELSE v[i - Len(u)]
    BY ONLY <2>2, ConcatProperties
  <2> HIDE DEF N
  <2> QED BY ONLY <1>2, <1>3, <2>1, <2>3
<1> HIDE DEF N
<1>5. (N - n) + n = N
  BY <1>1
<1>6. Len(t) = N
  BY ONLY <1>4, <1>5
<1>7. \A k \in 1 .. N : to(k) \in 1 .. N /\ from(k) \in 1 .. N /\ to(from(k)) = k /\ from(to(k)) = k
  BY <1>1
<1>8. ASSUME NEW k \in 1 .. N PROVE t[k] = s[to(k)]
  <2>1. CASE k <= N - n
    <3>1. k \in 1 .. N - n
      BY <1>1, <2>1
    <3> QED BY <1>2, <1>4, <1>5, <2>1, <3>1
  <2>2. CASE ~(k <= N - n)
    <3>1. k - (N - n) \in 1 .. n
      BY <1>1, <2>2
    <3> QED BY <1>3, <1>4, <1>5, <2>2, <3>1
  <2> QED BY <2>1, <2>2
<1> HIDE DEF to, from
<1>9. \A l \in 1 .. N : t[from(l)] = s[l] /\ \A j \in 1 .. N : j # from(l) => to(j) # l /\ t[j] = s[to(j)]
  BY ONLY <1>7, <1>8
<1>10. \A l \in 1 .. N : \E k \in 1 .. N :
          t[k] = s[l] /\ \A j \in 1 .. N : j # k => \E i \in 1 .. N : i # l /\ t[j] = s[i]
  <2> DEFINE D == 1 .. N
  <2>1. /\ \A l \in D : from(l) \in D /\ t[from(l)] = s[l]
        /\ \A l, j \in D : j # from(l) => to(j) \in D /\ to(j) # l /\ t[j] = s[to(j)]
    BY <1>7, <1>9
  <2> HIDE DEF D
  <2>2. ASSUME NEW l \in D
        PROVE  \E k \in D : t[k] = s[l] /\ \A j \in D : j # k => \E i \in D : i # l /\ t[j] = s[i]
    <3>1. \A j \in D : j # from(l) => \E i \in D : i # l /\ t[j] = s[i]
      BY <2>1
    <3>2. from(l) \in D /\ t[from(l)] = s[l]
      BY <2>1
    <3> QED BY <3>1, <3>2
  <2> QED BY <2>2 DEF D
<1>11. \A k \in 1 .. N : \E l \in 1 .. N : t[k] = s[l]
  BY <1>7, <1>8
<1>12. t \in Seq(T) /\ Len(t) = N
  BY <1>4, <1>6
<1> QED BY <1>10, <1>11, <1>12 DEF N, SameElements

-----------------------------------------------------------------------------
(* What asks for room: what is chosen stays, and the required posts are taken
   whatever they cost.                                                      *)

FillBy(h, chosen, asking, mandatory, cost, budget, i) ==
    IF i = 0 THEN chosen
    ELSE IF asking[i] \in mandatory \/ CostOf(h[i - 1], cost) + cost[asking[i]] <= budget
         THEN h[i - 1] \cup {asking[i]} ELSE h[i - 1]

LEMMA FilledExists ==
    ASSUME NEW n \in Nat, NEW chosen, NEW asking, NEW mandatory, NEW cost, NEW budget
    PROVE  \E h : h = [i \in 0 .. n |-> FillBy(h, chosen, asking, mandatory, cost, budget, i)]
<1> DEFINE By(h, i) == FillBy(h, chosen, asking, mandatory, cost, budget, i)
           Some(k) == \E h : \A i \in 0 .. k : h[i] = By(h, i)
           Bad == {k \in Nat : ~Some(k)}
<1>1. Some(0)
  <2>1. PICK h : h = [i \in {0} |-> chosen]
    OBVIOUS
  <2>2. \A i \in 0 .. 0 : h[i] = By(h, i)
    BY <2>1 DEF FillBy
  <2> QED BY <2>2
<1>2. ASSUME NEW k \in Nat, Some(k) PROVE Some(k + 1)
  <2>1. PICK f : \A i \in 0 .. k : f[i] = By(f, i)
    BY <1>2
  <2>2. PICK g : g = [i \in 0 .. (k + 1) |-> IF i = k + 1 THEN By(f, i) ELSE f[i]]
    OBVIOUS
  <2>3. \A i \in 0 .. k : g[i] = f[i]
    BY <2>2
  <2>4. \A i \in 0 .. (k + 1) : i # 0 => i - 1 \in 0 .. k
    OBVIOUS
  <2>5. \A i \in 0 .. (k + 1) : By(g, i) = By(f, i)
    BY <2>3, <2>4 DEF FillBy
  <2>6. \A i \in 0 .. (k + 1) : g[i] = By(g, i)
    BY <2>1, <2>2, <2>5
  <2> QED BY <2>6
<1> HIDE DEF Some
<1>3. Bad = {}
  <2> SUFFICES ASSUME Bad # {} PROVE FALSE
    OBVIOUS
  <2>1. PICK k \in Bad : \A y \in Bad : k <= y
    <3>1. Bad \subseteq Nat
      OBVIOUS
    <3> HIDE DEF Bad
    <3> QED BY <3>1, MinOfNat
  <2>2. k # 0
    BY <1>1
  <2>3. k - 1 \in Nat /\ k - 1 \notin Bad /\ k - 1 + 1 = k
    BY <2>1, <2>2
  <2>4. Some(k - 1 + 1)
    BY <1>2, <2>3
  <2> QED BY <2>1, <2>3, <2>4
<1>4. PICK f : \A i \in 0 .. n : f[i] = By(f, i)
  BY <1>3 DEF Some
<1>5. PICK h : h = [i \in 0 .. n |-> f[i]]
  OBVIOUS
<1>6. \A i \in 0 .. n : i # 0 => i - 1 \in 0 .. n
  OBVIOUS
<1>7. \A i \in 0 .. n : By(h, i) = By(f, i)
  BY <1>5, <1>6 DEF FillBy
<1>8. h = [i \in 0 .. n |-> By(h, i)]
  BY <1>4, <1>5, <1>7
<1> QED BY <1>8

LEMMA FillTakes ==
    ASSUME NEW chosen, NEW asking, Len(asking) \in Nat, NEW mandatory, NEW cost, NEW budget,
           NEW k \in 1 .. Len(asking), asking[k] \in mandatory
    PROVE  asking[k] \in Fill(chosen, asking, mandatory, cost, budget)
<1> DEFINE n == Len(asking)
           taken == CHOOSE h : h = [i \in 0 .. n |-> FillBy(h, chosen, asking, mandatory, cost, budget, i)]
           Bad == {i \in 0 .. n : k <= i /\ asking[k] \notin taken[i]}
<1>1. n \in Nat
  OBVIOUS
<1>2. Fill(chosen, asking, mandatory, cost, budget) = taken[n]
  BY DEF Fill, FillBy
<1>3. k \in 1 .. n
  OBVIOUS
<1> HIDE DEF n
<1>4. taken = [i \in 0 .. n |-> FillBy(taken, chosen, asking, mandatory, cost, budget, i)]
  BY <1>1, FilledExists, SMTT(20)
<1> HIDE DEF taken
<1>5. \A i \in 0 .. n : taken[i] = FillBy(taken, chosen, asking, mandatory, cost, budget, i)
  BY <1>4
<1>6. Bad = {}
  <2> SUFFICES ASSUME Bad # {} PROVE FALSE
    OBVIOUS
  <2>1. PICK i \in Bad : \A y \in Bad : i <= y
    <3>1. Bad \subseteq Nat
      BY <1>1
    <3> HIDE DEF Bad
    <3> QED BY <3>1, MinOfNat
  <2>2. i \in 1 .. n /\ i - 1 \in 0 .. n /\ i - 1 \notin Bad /\ i # 0
    BY <1>1, <1>3, <2>1
  <2>3. taken[i] = FillBy(taken, chosen, asking, mandatory, cost, budget, i)
    BY <1>5, <2>2
  <2>4. CASE i = k
    <3>1. taken[i] = taken[i - 1] \cup {asking[k]}
      BY <2>2, <2>3, <2>4 DEF FillBy
    <3> QED BY <2>1, <3>1
  <2>5. CASE i # k
    <3>1. taken[i - 1] \subseteq taken[i]
      BY <2>2, <2>3 DEF FillBy
    <3>2. asking[k] \in taken[i - 1]
      BY <1>1, <1>3, <2>1, <2>2, <2>5
    <3> QED BY <2>1, <3>1, <3>2
  <2> QED BY <2>4, <2>5
<1>7. asking[k] \in taken[n]
  BY <1>1, <1>3, <1>6
<1> QED BY <1>2, <1>7

(* Every required post of a thread accompanies the request, however small the
   budget (InitialContext).                                                 *)
LEMMA RequiredChosen ==
    ASSUME ThreadOK, NEW eligible, eligible \subseteq DOMAIN thread, NEW mandatory, NEW budget,
           NEW p \in eligible, p \in mandatory
    PROVE  p \in Chosen(eligible, mandatory, budget)
<1> DEFINE posts == Chronological(eligible)
           n == Cardinality(eligible)
           asking == Reverse(posts)
<1>1. n \in Nat /\ Len(posts) = n /\ \E i \in 1 .. n : posts[i] = p
  BY PostsFinite, Chronologically
<1>2. PICK i \in 1 .. n : posts[i] = p
  BY <1>1
<1>3. \E chosen : Chosen(eligible, mandatory, budget) = Fill(chosen, asking, mandatory, CostRead, budget)
  BY DEF Chosen, InitialContext
<1> HIDE DEF posts, n
<1>4. asking = [j \in 1 .. n |-> posts[n - j + 1]]
  BY <1>1 DEF Reverse
<1>5. Len(asking) = n
  BY <1>1, <1>4
<1> HIDE DEF asking
<1>6. n - i + 1 \in 1 .. n /\ n - (n - i + 1) + 1 = i
  BY <1>1
<1>7. asking[n - i + 1] = p
  BY <1>2, <1>4, <1>6
<1>8. n - i + 1 \in 1 .. Len(asking) /\ Len(asking) \in Nat
  BY <1>1, <1>5, <1>6
<1> QED BY <1>3, <1>7, <1>8, FillTakes

-----------------------------------------------------------------------------
(* Drafts: whatever is linked is put behind what the draft has, with its text
   or, when this version was told, without.                                 *)

LinkedItems == {x \in Items : x.linked /\ (~x.text => VersionTold(x.post) = x.ver)}

(* A draft that grew from base, by items that are not among the posts shown. *)
DraftIn(d, F, base, shown) ==
    /\ d = [items |-> d.items, seen |-> d.seen, notices |-> d.notices, left |-> d.left]
    /\ d.items \in Seq(F) /\ shown \subseteq d.seen
    /\ Len(base) \in Nat /\ Len(base) <= Len(d.items)
    /\ \A k \in 1 .. Len(base) : d.items[k] = base[k]
    /\ \A k \in 1 .. Len(d.items) : Len(base) < k => d.items[k].post \notin shown

LEMMA DraftMade ==
    ASSUME NEW F, NEW base, NEW shown, NEW d, DraftIn(d, F, base, shown),
           NEW b, NEW c, NEW l, d.seen \subseteq b, NEW e,
           e = [items |-> d.items, seen |-> b, notices |-> c, left |-> l]
    PROVE  DraftIn(e, F, base, shown)
<1>1. e.items = d.items /\ e.seen = b
  OBVIOUS
<1>2. e = [items |-> e.items, seen |-> e.seen, notices |-> e.notices, left |-> e.left]
  OBVIOUS
<1> QED BY <1>1, <1>2 DEF DraftIn

LEMMA PutKeeps ==
    ASSUME NEW F, NEW base, NEW shown, NEW d, DraftIn(d, F, base, shown), NEW x, x \in F
    PROVE  DraftIn(Put(d, x), F, base, shown)
<1>1. CASE x.post \in d.seen
  BY <1>1 DEF Put
<1>2. CASE x.post \notin d.seen
  <2> DEFINE a == Append(d.items, x)
             b == d.seen \cup {x.post}
             e == Put(d, x)
             n == Len(d.items)
  <2>1. /\ a \in Seq(F) /\ Len(a) = n + 1 /\ n \in Nat /\ a[n + 1] = x
        /\ \A k \in 1 .. n : a[k] = d.items[k]
    BY AppendElements DEF DraftIn
  <2>2. e = [d EXCEPT !.items = Append(@, x), !.seen = @ \cup {x.post}]
    BY <1>2 DEF Put
  <2>3. e = [items |-> a, seen |-> b, notices |-> d.notices, left |-> d.left]
    BY <2>2 DEF DraftIn
  <2>4. d.seen \subseteq b
    OBVIOUS
  <2> HIDE DEF a, b, e, n
  <2>5. e.items = a /\ e.seen = b /\ e = [items |-> e.items, seen |-> e.seen, notices |-> e.notices, left |-> e.left]
    BY <2>3
  <2>6. shown \subseteq b /\ x.post \notin shown
    BY <1>2, <2>4 DEF DraftIn
  <2>7. Len(base) \in Nat /\ Len(base) <= Len(a) /\ \A k \in 1 .. Len(base) : a[k] = base[k]
    BY <2>1 DEF DraftIn, n
  <2>8. \A k \in 1 .. Len(a) : Len(base) < k => a[k].post \notin shown
    <3>1. \A k \in 1 .. Len(a) : k = n + 1 \/ k \in 1 .. n
      BY <2>1
    <3>2. \A k \in 1 .. n : Len(base) < k => a[k].post \notin shown
      BY <2>1 DEF DraftIn, n
    <3> QED BY <2>1, <2>6, <3>1, <3>2
  <2>9. DraftIn(e, F, base, shown)
    BY <2>1, <2>5, <2>6, <2>7, <2>8 DEF DraftIn
  <2> QED BY <2>9 DEF e
<1> QED BY <1>1, <1>2

LEMMA NoticeKeeps ==
    ASSUME NEW F, NEW base, NEW shown, NEW d, DraftIn(d, F, base, shown), NEW p
    PROVE  DraftIn(Notice(d, p), F, base, shown)
<1>1. Notice(d, p) = [items |-> d.items, seen |-> d.seen, notices |-> d.notices \cup {p}, left |-> d.left]
  <2> DEFINE c == d.notices \cup {p}
  <2>1. Notice(d, p) = [d EXCEPT !.notices = c]
    BY DEF Notice, DraftIn
  <2>2. [d EXCEPT !.notices = c] = [items |-> d.items, seen |-> d.seen, notices |-> c, left |-> d.left]
    <3> HIDE DEF c
    <3> QED BY DEF DraftIn
  <2> QED BY <2>1, <2>2
<1> QED BY <1>1, DraftMade

LEMMA LeftKeeps ==
    ASSUME NEW F, NEW base, NEW shown, NEW d, DraftIn(d, F, base, shown), NEW l
    PROVE  DraftIn([d EXCEPT !.left = l], F, base, shown)
<1>1. [d EXCEPT !.left = l] = [items |-> d.items, seen |-> d.seen, notices |-> d.notices, left |-> l]
  BY DEF DraftIn
<1> QED BY <1>1, DraftMade

LEMMA PutLinkedKeeps ==
    ASSUME ThreadOK, NEW F, LinkedItems \subseteq F, NEW base, NEW shown, NEW d, DraftIn(d, F, base, shown), NEW plan, NEW p, NEW room
    PROVE  DraftIn(PutLinked(d, plan, p, room), F, base, shown)
<1> DEFINE reference == ~plan.initial /\ VersionTold(p) = thread[p].ver
           x == Item(p, thread[p].ver, ~reference, TRUE)
<1>1. DraftIn(Notice(d, p), F, base, shown)
  BY NoticeKeeps
<1>2. ASSUME Live(p) PROVE x \in F
  <2>1. p \in Nat /\ thread[p].ver \in Nat
    BY <1>2, Constants DEF ThreadOK, PostState, Live
  <2>2. /\ x.post = p /\ x.ver = thread[p].ver /\ x.text = ~reference /\ x.linked = TRUE
        /\ x = [post |-> p, ver |-> thread[p].ver, text |-> ~reference, linked |-> TRUE]
    BY DEF Item
  <2>3. (~reference) \in BOOLEAN
    OBVIOUS
  <2>4. x \in Items
    <3> HIDE DEF reference
    <3> QED BY <2>1, <2>2, <2>3 DEF Items
  <2>5. ~x.text => VersionTold(x.post) = x.ver
    BY <2>2
  <2> QED BY <2>2, <2>4, <2>5 DEF LinkedItems
<1>3. ASSUME Live(p) PROVE DraftIn(Put(d, x), F, base, shown)
  <2> HIDE DEF x
  <2> QED BY <1>2, <1>3, PutKeeps
<1>4. \/ PutLinked(d, plan, p, room) = Notice(d, p)
      \/ PutLinked(d, plan, p, room) = d
      \/ Live(p) /\ PutLinked(d, plan, p, room) = Put(d, x)
  BY DEF PutLinked
<1> QED BY <1>1, <1>3, <1>4

LEMMA TakeKeeps ==
    ASSUME NEW F, LinkedItems \subseteq F, NEW base, NEW shown, NEW d, DraftIn(d, F, base, shown), NEW p, NEW i \in DOMAIN Far
    PROVE  DraftIn(Take(d, p, i), F, base, shown)
<1> DEFINE x == Item(Far[i], 0, TRUE, TRUE)
           l == IF Far[i] = p THEN d.left ELSE d.left - Cost[Far[i]][0]
           e == [d EXCEPT !.left = l]
<1>1. x \in F
  <2>1. Far[i] \in Nat
    BY Constants
  <2>2. x = [post |-> Far[i], ver |-> 0, text |-> TRUE, linked |-> TRUE]
    BY DEF Item
  <2>3. x.linked = TRUE /\ x.text = TRUE
    BY DEF Item
  <2>4. x \in Items
    <3> HIDE DEF x
    <3> QED BY <2>1, <2>2 DEF Items
  <2> QED BY <2>3, <2>4 DEF LinkedItems
<1>2. DraftIn(e, F, base, shown)
  <2> HIDE DEF l
  <2> QED BY LeftKeeps
<1>3. DraftIn(Put(e, x), F, base, shown)
  <2> HIDE DEF e, x
  <2> QED BY <1>1, <1>2, PutKeeps
<1>4. DraftIn(Notice(d, Far[i]), F, base, shown)
  BY NoticeKeeps
<1>5. Take(d, p, i) = Notice(d, Far[i]) \/ Take(d, p, i) = Put(e, x)
  <2>1. [d EXCEPT !.left = IF Far[i] = p THEN @ ELSE @ - Cost[Far[i]][0]] = e
    BY DEF DraftIn
  <2> QED BY <2>1 DEF Take
<1> QED BY <1>3, <1>4, <1>5

TakenBy(h, first, chosen, p, i) ==
    IF i = 0 THEN first ELSE IF i \in chosen THEN Take(h[i - 1], p, i) ELSE h[i - 1]

LEMMA TakenExists ==
    ASSUME NEW n \in Nat, NEW first, NEW chosen, NEW p
    PROVE  \E h : h = [i \in 0 .. n |-> TakenBy(h, first, chosen, p, i)]
<1> DEFINE Some(k) == \E h : \A i \in 0 .. k : h[i] = TakenBy(h, first, chosen, p, i)
           Bad == {k \in Nat : ~Some(k)}
<1>1. Some(0)
  <2>1. PICK h : h = [i \in {0} |-> first]
    OBVIOUS
  <2>2. \A i \in 0 .. 0 : h[i] = TakenBy(h, first, chosen, p, i)
    BY <2>1 DEF TakenBy
  <2> QED BY <2>2
<1>2. ASSUME NEW k \in Nat, Some(k) PROVE Some(k + 1)
  <2>1. PICK f : \A i \in 0 .. k : f[i] = TakenBy(f, first, chosen, p, i)
    BY <1>2
  <2>2. PICK g : g = [i \in 0 .. (k + 1) |-> IF i = k + 1 THEN TakenBy(f, first, chosen, p, i) ELSE f[i]]
    OBVIOUS
  <2>3. \A i \in 0 .. k : g[i] = f[i]
    BY <2>2
  <2>4. \A i \in 0 .. (k + 1) : i # 0 => i - 1 \in 0 .. k
    OBVIOUS
  <2>5. \A i \in 0 .. (k + 1) : TakenBy(g, first, chosen, p, i) = TakenBy(f, first, chosen, p, i)
    BY <2>3, <2>4 DEF TakenBy
  <2>6. \A i \in 0 .. (k + 1) : g[i] = TakenBy(g, first, chosen, p, i)
    BY <2>1, <2>2, <2>5
  <2> QED BY <2>6
<1> HIDE DEF Some
<1>3. Bad = {}
  <2> SUFFICES ASSUME Bad # {} PROVE FALSE
    OBVIOUS
  <2>1. PICK k \in Bad : \A y \in Bad : k <= y
    <3>1. Bad \subseteq Nat
      OBVIOUS
    <3> HIDE DEF Bad
    <3> QED BY <3>1, MinOfNat
  <2>2. k # 0
    BY <1>1
  <2>3. k - 1 \in Nat /\ k - 1 \notin Bad /\ k - 1 + 1 = k
    BY <2>1, <2>2
  <2>4. Some(k - 1 + 1)
    BY <1>2, <2>3
  <2> QED BY <2>1, <2>3, <2>4
<1>4. PICK f : \A i \in 0 .. n : f[i] = TakenBy(f, first, chosen, p, i)
  BY <1>3 DEF Some
<1>5. PICK h : h = [i \in 0 .. n |-> f[i]]
  OBVIOUS
<1>6. \A i \in 0 .. n : i # 0 => i - 1 \in 0 .. n
  OBVIOUS
<1>7. \A i \in 0 .. n : TakenBy(h, first, chosen, p, i) = TakenBy(f, first, chosen, p, i)
  BY <1>5, <1>6 DEF TakenBy
<1>8. h = [i \in 0 .. n |-> TakenBy(h, first, chosen, p, i)]
  BY <1>4, <1>5, <1>7
<1> QED BY <1>8

LEMMA PutFarKeeps ==
    ASSUME NEW F, LinkedItems \subseteq F, NEW base, NEW shown, NEW d, DraftIn(d, F, base, shown), NEW p, NEW room
    PROVE  DraftIn(PutFar(d, p, room), F, base, shown)
<1> DEFINE n == Len(Far)
           at == CHOOSE i \in DOMAIN Far : Far[i] = p
           chosen == LinkedSelection(Len(Far), at, 1, MaxPosts)
           first == [d EXCEPT !.left = room - SizeOf(d.items) - Cost[p][0]]
           taken == CHOOSE h : h = [i \in 0 .. n |-> TakenBy(h, first, chosen, p, i)]
           Bad == {i \in 0 .. n : ~DraftIn(taken[i], F, base, shown)}
<1>1. n \in Nat /\ \A i \in 1 .. n : i \in DOMAIN Far
  BY Constants
<1>2. DraftIn(first, F, base, shown)
  BY LeftKeeps
<1>3. \/ PutFar(d, p, room) = Notice(d, p)
      \/ PutFar(d, p, room) = taken[n]
  BY DEF PutFar, TakenBy
<1> HIDE DEF n, first, chosen
<1>4. taken = [i \in 0 .. n |-> TakenBy(taken, first, chosen, p, i)]
  BY <1>1, TakenExists
<1> HIDE DEF taken
<1>5. \A i \in 0 .. n : taken[i] = TakenBy(taken, first, chosen, p, i)
  BY <1>4
<1>6. Bad = {}
  <2> SUFFICES ASSUME Bad # {} PROVE FALSE
    OBVIOUS
  <2>1. PICK k \in Bad : \A y \in Bad : k <= y
    <3>1. Bad \subseteq Nat
      BY <1>1
    <3> HIDE DEF Bad
    <3> QED BY <3>1, MinOfNat
  <2>2. k # 0
    BY <1>2, <1>5 DEF TakenBy
  <2>3. k \in 1 .. n /\ k - 1 \in 0 .. n /\ k - 1 < k
    BY <1>1, <2>2
  <2>4. DraftIn(taken[k - 1], F, base, shown)
    BY <1>1, <2>1, <2>3
  <2>5. DraftIn(Take(taken[k - 1], p, k), F, base, shown)
    BY <1>1, <2>3, <2>4, TakeKeeps
  <2>6. taken[k] = Take(taken[k - 1], p, k) \/ taken[k] = taken[k - 1]
    BY <1>5, <2>2 DEF TakenBy
  <2> QED BY <2>4, <2>5, <2>6
<1>7. DraftIn(taken[n], F, base, shown)
  BY <1>1, <1>6
<1> QED BY <1>3, <1>7, NoticeKeeps

DraftBy(h, start, plan, own, room, linking, i) ==
    IF i = 0 THEN start
    ELSE IF i \notin linking THEN h[i - 1]
    ELSE IF Link[own[i]] \in Ids THEN PutLinked(h[i - 1], plan, Link[own[i]], room)
    ELSE PutFar(h[i - 1], Link[own[i]], room)

LEMMA DraftExists ==
    ASSUME NEW n \in Nat, NEW start, NEW plan, NEW own, NEW room, NEW linking
    PROVE  \E h : h = [i \in 0 .. n |-> DraftBy(h, start, plan, own, room, linking, i)]
<1> DEFINE Some(k) == \E h : \A i \in 0 .. k : h[i] = DraftBy(h, start, plan, own, room, linking, i)
           Bad == {k \in Nat : ~Some(k)}
<1>1. Some(0)
  <2>1. PICK h : h = [i \in {0} |-> start]
    OBVIOUS
  <2>2. \A i \in 0 .. 0 : h[i] = DraftBy(h, start, plan, own, room, linking, i)
    BY <2>1 DEF DraftBy
  <2> QED BY <2>2
<1>2. ASSUME NEW k \in Nat, Some(k) PROVE Some(k + 1)
  <2>1. PICK f : \A i \in 0 .. k : f[i] = DraftBy(f, start, plan, own, room, linking, i)
    BY <1>2
  <2>2. PICK g : g = [i \in 0 .. (k + 1) |-> IF i = k + 1 THEN DraftBy(f, start, plan, own, room, linking, i) ELSE f[i]]
    OBVIOUS
  <2>3. \A i \in 0 .. k : g[i] = f[i]
    BY <2>2
  <2>4. \A i \in 0 .. (k + 1) : i # 0 => i - 1 \in 0 .. k
    OBVIOUS
  <2>5. \A i \in 0 .. (k + 1) : DraftBy(g, start, plan, own, room, linking, i) = DraftBy(f, start, plan, own, room, linking, i)
    BY <2>3, <2>4 DEF DraftBy
  <2>6. \A i \in 0 .. (k + 1) : g[i] = DraftBy(g, start, plan, own, room, linking, i)
    BY <2>1, <2>2, <2>5
  <2> QED BY <2>6
<1> HIDE DEF Some
<1>3. Bad = {}
  <2> SUFFICES ASSUME Bad # {} PROVE FALSE
    OBVIOUS
  <2>1. PICK k \in Bad : \A y \in Bad : k <= y
    <3>1. Bad \subseteq Nat
      OBVIOUS
    <3> HIDE DEF Bad
    <3> QED BY <3>1, MinOfNat
  <2>2. k # 0
    BY <1>1
  <2>3. k - 1 \in Nat /\ k - 1 \notin Bad /\ k - 1 + 1 = k
    BY <2>1, <2>2
  <2>4. Some(k - 1 + 1)
    BY <1>2, <2>3
  <2> QED BY <2>1, <2>3, <2>4
<1>4. PICK f : \A i \in 0 .. n : f[i] = DraftBy(f, start, plan, own, room, linking, i)
  BY <1>3 DEF Some
<1>5. PICK h : h = [i \in 0 .. n |-> f[i]]
  OBVIOUS
<1>6. \A i \in 0 .. n : i # 0 => i - 1 \in 0 .. n
  OBVIOUS
<1>7. \A i \in 0 .. n : DraftBy(h, start, plan, own, room, linking, i) = DraftBy(f, start, plan, own, room, linking, i)
  BY <1>5, <1>6 DEF DraftBy
<1>8. h = [i \in 0 .. n |-> DraftBy(h, start, plan, own, room, linking, i)]
  BY <1>4, <1>5, <1>7
<1> QED BY <1>8

LEMMA FollowKeeps ==
    ASSUME ThreadOK, NEW F, LinkedItems \subseteq F, NEW base, NEW shown, NEW start, DraftIn(start, F, base, shown), NEW plan,
           NEW own, Len(own) \in Nat, NEW room
    PROVE  DraftIn(Follow(start, plan, own, room), F, base, shown)
<1> DEFINE n == Len(own)
           linking == Linking(own)
           draft == CHOOSE h : h = [i \in 0 .. n |-> DraftBy(h, start, plan, own, room, linking, i)]
           Bad == {i \in 0 .. n : ~DraftIn(draft[i], F, base, shown)}
<1>1. n \in Nat
  OBVIOUS
<1>2. Follow(start, plan, own, room) = draft[n]
  BY DEF Follow, DraftBy
<1> HIDE DEF n, linking
<1>3. draft = [i \in 0 .. n |-> DraftBy(draft, start, plan, own, room, linking, i)]
  BY <1>1, DraftExists
<1> HIDE DEF draft
<1>4. \A i \in 0 .. n : draft[i] = DraftBy(draft, start, plan, own, room, linking, i)
  BY <1>3
<1>5. Bad = {}
  <2> SUFFICES ASSUME Bad # {} PROVE FALSE
    OBVIOUS
  <2>1. PICK k \in Bad : \A y \in Bad : k <= y
    <3>1. Bad \subseteq Nat
      BY <1>1
    <3> HIDE DEF Bad
    <3> QED BY <3>1, MinOfNat
  <2>2. k # 0
    BY <1>4 DEF DraftBy
  <2>3. k \in 1 .. n /\ k - 1 \in 0 .. n /\ k - 1 < k
    BY <1>1, <2>2
  <2>4. DraftIn(draft[k - 1], F, base, shown)
    BY <1>1, <2>1, <2>3
  <2>5. DraftIn(PutLinked(draft[k - 1], plan, Link[own[k]], room), F, base, shown)
    BY <2>4, PutLinkedKeeps
  <2>6. DraftIn(PutFar(draft[k - 1], Link[own[k]], room), F, base, shown)
    BY <2>4, PutFarKeeps
  <2>7. \/ draft[k] = draft[k - 1]
        \/ draft[k] = PutLinked(draft[k - 1], plan, Link[own[k]], room)
        \/ draft[k] = PutFar(draft[k - 1], Link[own[k]], room)
    BY <1>4, <2>2 DEF DraftBy
  <2> QED BY <2>4, <2>5, <2>6, <2>7
<1>6. DraftIn(draft[n], F, base, shown)
  BY <1>1, <1>5
<1> QED BY <1>2, <1>6

-----------------------------------------------------------------------------
(* Requests: what a plan must be like for the request built from it to be
   proper, and what a proper request is.                                    *)

Readings == UNION {[S -> Nat] : S \in SUBSET Ids}
PassOK ==
    /\ pass \in [pc : {"idle", "paging", "done"}, start : SUBSET Ids, got : Readings, cursor : Ids,
                 snap : Seq(Message), run : [n : Nat, active : BOOLEAN], initial : BOOLEAN]
    /\ pass.start \subseteq DOMAIN thread /\ Got \subseteq DOMAIN thread /\ pass.cursor \in DOMAIN thread

(* Items that have what was not heard of a message.                         *)
Holds(items, i) ==
    \A l \in DOMAIN pass.snap[i].items :
        pass.snap[i].heard < l => \E k \in DOMAIN items : items[k] = pass.snap[i].items[l]

PlanOK(plan) ==
    /\ plan.anchor \in Nat /\ plan.triggers \in Seq(Nat) /\ 1 \in 1 .. Len(plan.triggers)
    /\ \/ plan.carried = 0 /\ plan.saved = <<>> /\ plan.frozen = {}
       \/ /\ plan.carried \in DOMAIN pass.snap
          /\ plan.saved = RestOf(pass.snap[plan.carried])
          /\ plan.frozen \subseteq pass.snap[plan.carried].versions
    /\ \A count \in 1 .. Len(plan.triggers) : \A p \in Eligible(plan, count) :
          Kind[p] = "trigger" =>
              p \in KnownTriggers \/ (plan.carried = 0 /\ p \in Mandatory(plan, count))

ItemProper(x, triggers) ==
    \/ x \in LinkedItems
    \/ x.text /\ ~x.linked /\ (Kind[x.post] = "trigger" => x.post \in KnownTriggers \cup triggers)
    \/ \E i \in DOMAIN pass.snap : \E l \in DOMAIN pass.snap[i].items : x = pass.snap[i].items[l]
VersionProper(v, items) ==
    \/ \E k \in DOMAIN items : v = <<items[k].post, items[k].ver>>
    \/ \E i \in DOMAIN pass.snap : v \in pass.snap[i].versions /\ Holds(items, i)

Composed(m) ==
    /\ m.anchor \in Nat /\ m.triggers \in SUBSET Nat /\ m.contexts \in SUBSET Nat
    /\ m.versions \in SUBSET (Nat \X Nat) /\ m.items \in Seq(Items) /\ m.omitted \in BOOLEAN
    /\ m.pred \in Nat
    /\ \A k \in DOMAIN m.items : ItemProper(m.items[k], m.triggers)
    /\ \A v \in m.versions : VersionProper(v, m.items)

Mentioned(m) == m.contexts \cup m.triggers \cup {v[1] : v \in m.versions}
Once(m, p) == \E k \in DOMAIN m.items : Texts(m, p) = {k} /\ <<p, m.items[k].ver>> \in m.versions

(* Where a request comes from: it was built for the earliest candidate, or
   around a clarification that is carried over, or is the rest of one.      *)
Fresh(m) ==
    /\ m.pred = 0 /\ m.anchor \in Candidates
    /\ \A q \in Candidates : thread[m.anchor].at <= thread[q].at
    /\ \A p \in m.triggers : Once(m, p)
    /\ Mentioned(m) \subseteq PostsIn(m)
    /\ \/ m.omitted
       \/ \A p \in Posts \ Candidates :
              Kind[p] # "bot" /\ thread[p].at < thread[m.anchor].at =>
                  p \in PostsIn(m) \/ (~pass.initial /\ p \in KnownContext)
SaidOn(m, n, p, l) ==
    IF l <= n.heard THEN Texts(m, p) = {}
    ELSE \E k \in DOMAIN m.items : Texts(m, p) = {k} /\ m.items[k] = n.items[l]
CarriedOver(m) ==
    /\ m.pred \in DOMAIN pass.snap
    /\ LET n == pass.snap[m.pred] IN
       /\ n.delivery = "undelivered"
       /\ m.anchor = n.anchor /\ m.triggers = n.triggers /\ Holds(m.items, m.pred)
       /\ \A v \in n.versions :
             VersionTold(v[1]) # v[2] =>
                 /\ v \in m.versions
                 /\ \A l \in DOMAIN n.items : Texts(n, v[1]) = {l} => SaidOn(m, n, v[1], l)
       /\ Mentioned(m) \subseteq PostsIn(m) \cup Mentioned(n)
       /\ m.omitted \/ \A p \in Posts \ Candidates : p \in PostsIn(m) \cup Mentioned(n)
Resent(m) ==
    /\ ~pass.initial /\ m.pred \in DOMAIN pass.snap
    /\ LET n == pass.snap[m.pred] IN
       /\ n.delivery = "undelivered"
       /\ m.anchor = n.anchor /\ m.triggers = n.triggers /\ m.contexts = n.contexts
       /\ m.versions = n.versions /\ m.items = RestOf(n) /\ m.omitted = n.omitted
Proper(m) == Composed(m) /\ (Fresh(m) \/ CarriedOver(m) \/ Resent(m))

LEMMA SnapElements ==
    ASSUME PassOK
    PROVE  /\ pass.snap \in Seq(Message) /\ DOMAIN pass.snap = 1 .. Len(pass.snap) /\ Len(pass.snap) \in Nat
           /\ \A i \in DOMAIN pass.snap : pass.snap[i] \in Message
BY DEF PassOK

LEMMA MessageFields ==
    ASSUME NEW m \in Message
    PROVE  /\ m.anchor \in Nat /\ m.triggers \in SUBSET Nat /\ m.contexts \in SUBSET Nat
           /\ m.versions \in SUBSET (Nat \X Nat) /\ m.items \in Seq(Items) /\ m.omitted \in BOOLEAN
           /\ m.pred \in Nat /\ m.kind \in Kindred /\ m.delivery \in Deliveries
           /\ m.heard \in Nat /\ m.session \in Nat /\ m.run \in Nat /\ Sound(m)
BY DEF Message, Records

(* The rest of a message: the items after those that were heard.            *)
LEMMA RestItems ==
    ASSUME NEW m \in Message
    PROVE  /\ RestOf(m) \in Seq(Items) /\ Len(RestOf(m)) \in Nat /\ DOMAIN RestOf(m) = 1 .. Len(RestOf(m))
           /\ \A l \in DOMAIN RestOf(m) : /\ m.heard + l \in DOMAIN m.items /\ m.heard < m.heard + l
                                          /\ RestOf(m)[l] = m.items[m.heard + l]
           /\ \A l \in DOMAIN m.items :
                 m.heard < l => l - m.heard \in DOMAIN RestOf(m) /\ RestOf(m)[l - m.heard] = m.items[l]
<1> DEFINE s == m.items
           a == m.heard + 1
           n == Len(m.items)
           r == RestOf(m)
<1>1. /\ s \in Seq(Items) /\ Len(s) = n /\ n \in Nat /\ DOMAIN s = 1 .. n
      /\ m.heard \in Nat /\ m.heard <= n /\ a \in 1 .. n + 1 /\ a = m.heard + 1
  BY MessageFields DEF Sound
<1>2. r = SubSeq(s, a, n)
  BY DEF RestOf
<1> HIDE DEF r, s, n, a
<1>3. \A i \in a .. n : s[i] \in Items
  BY <1>1
<1>4. /\ r \in Seq(Items) /\ Len(r) = IF a <= n THEN n - a + 1 ELSE 0
      /\ \A i \in 1 .. n - a + 1 : r[i] = s[a + i - 1]
  <2>1. a \in Int /\ n \in Int
    BY <1>1
  <2>2. /\ SubSeq(s, a, n) \in Seq(Items) /\ Len(SubSeq(s, a, n)) = IF a <= n THEN n - a + 1 ELSE 0
        /\ \A i \in 1 .. n - a + 1 : SubSeq(s, a, n)[i] = s[a + i - 1]
    BY ONLY <1>3, <2>1, SubSeqProperties
  <2> QED BY <1>2, <2>2
<1>5. Len(r) = n - m.heard /\ DOMAIN r = 1 .. Len(r)
  BY <1>1, <1>4
<1>6. \A l \in 1 .. n - m.heard : m.heard + l \in 1 .. n /\ m.heard < m.heard + l /\ r[l] = s[m.heard + l]
  <2> SUFFICES ASSUME NEW l \in 1 .. n - m.heard
               PROVE  m.heard + l \in 1 .. n /\ m.heard < m.heard + l /\ r[l] = s[m.heard + l]
    OBVIOUS
  <2>1. l \in 1 .. n - a + 1 /\ a + l - 1 = m.heard + l
    BY <1>1
  <2>2. m.heard + l \in 1 .. n /\ m.heard < m.heard + l
    BY <1>1
  <2> QED BY <1>4, <2>1, <2>2
<1>7. \A l \in 1 .. n : m.heard < l => l - m.heard \in 1 .. n - m.heard /\ m.heard + (l - m.heard) = l
  BY <1>1
<1>8. n - m.heard \in Nat
  BY <1>1
<1>9. /\ \A l \in DOMAIN r : m.heard + l \in DOMAIN s /\ m.heard < m.heard + l /\ r[l] = s[m.heard + l]
      /\ \A l \in DOMAIN s : m.heard < l => l - m.heard \in DOMAIN r /\ r[l - m.heard] = s[l]
  BY <1>1, <1>5, <1>6, <1>7
<1> QED BY <1>4, <1>5, <1>8, <1>9 DEF r, s

LEMMA PostsRead ==
    ASSUME PassOK
    PROVE  /\ Posts \subseteq Got /\ Got \subseteq DOMAIN thread
           /\ \A p \in Got : pass.got[p] \in Nat
<1>1. pass.got \in Readings
  BY DEF PassOK
<1>2. PICK S \in SUBSET Ids : pass.got \in [S -> Nat]
  BY <1>1 DEF Readings
<1> QED BY <1>2 DEF Posts, Got, PassOK

LEMMA SameLength ==
    ASSUME NEW T, NEW q \in Seq(T), NEW n \in Nat, DOMAIN q = 1 .. n
    PROVE  Len(q) = n
<1>1. ASSUME NEW a \in Nat, NEW b \in Nat, 1 .. a = 1 .. b
      PROVE  a <= b
  <2>1. CASE a = 0
    BY <2>1
  <2>2. CASE a # 0
    <3>1. a \in 1 .. a
      BY <2>2
    <3>2. a \in 1 .. b
      BY <1>1, <3>1
    <3> QED BY <3>2
  <2> QED BY <2>1, <2>2
<1>2. Len(q) \in Nat /\ 1 .. Len(q) = 1 .. n
  OBVIOUS
<1>3. Len(q) <= n /\ n <= Len(q)
  BY <1>1, <1>2
<1> QED BY <1>2, <1>3

OwnItems(eligible) == {x \in Items : x.text /\ ~x.linked /\ x.post \in eligible}

LEMMA OwnDraft ==
    ASSUME ThreadOK, PassOK, NEW eligible, eligible \subseteq Posts, NEW own \in Seq(eligible)
    PROVE  [i \in DOMAIN own |-> Item(own[i], pass.got[own[i]], TRUE, FALSE)] \in Seq(OwnItems(eligible))
<1> DEFINE items == [i \in DOMAIN own |-> Item(own[i], pass.got[own[i]], TRUE, FALSE)]
<1>1. DOMAIN own = 1 .. Len(own) /\ Len(own) \in Nat /\ \A i \in DOMAIN own : own[i] \in eligible
  OBVIOUS
<1>2. ASSUME NEW i \in DOMAIN own
      PROVE  Item(own[i], pass.got[own[i]], TRUE, FALSE) \in OwnItems(eligible)
  <2> DEFINE p == own[i]
             v == pass.got[own[i]]
             x == Item(p, v, TRUE, FALSE)
  <2>1. p \in eligible /\ p \in Nat /\ v \in Nat
    BY <1>1, PostsRead, Constants DEF ThreadOK
  <2>2. /\ x = [post |-> p, ver |-> v, text |-> TRUE, linked |-> FALSE]
        /\ x.post = p /\ x.text = TRUE /\ x.linked = FALSE
    <3> HIDE DEF p, v
    <3> QED BY DEF Item
  <2>3. x \in Items
    <3> HIDE DEF p, v, x
    <3> QED BY <2>1, <2>2 DEF Items
  <2>4. x \in OwnItems(eligible)
    <3> HIDE DEF p, v, x
    <3> QED BY <2>1, <2>2, <2>3 DEF OwnItems
  <2> QED BY <2>4
<1>3. items \in [1 .. Len(own) -> OwnItems(eligible)]
  BY <1>1, <1>2
<1>4. items \in Seq(OwnItems(eligible))
  <2> HIDE DEF items
  <2> QED BY <1>1, <1>3
<1> QED BY <1>4

(* The items of a request: its own posts, each once and the required ones
   among them, and linked posts that it has not; then what was saved.       *)
OwnIn(plan, count, mine, more) ==
    LET eligible == Eligible(plan, count)
    IN  /\ mine \subseteq eligible /\ eligible \cap Mandatory(plan, count) \subseteq mine
        /\ more \in Seq(OwnItems(eligible) \cup LinkedItems)
        /\ \A k \in 1 .. Len(more) : more[k].post \notin FrozenPosts(plan)
        /\ \A p \in mine : \E l \in 1 .. Len(more) :
              /\ more[l].post = p /\ more[l].text = TRUE
              /\ \A k \in 1 .. Len(more) : k # l => more[k].post # p

RequestOf(m, plan, count, mine, more) ==
    /\ OwnIn(plan, count, mine, more)
    /\ m.omitted \in BOOLEAN
    /\ m.omitted \/ Eligible(plan, count) \subseteq mine
    /\ m.items = more \o plan.saved
    /\ m.versions = plan.frozen \cup {<<x.post, x.ver>> : x \in ToSet(more)}
    /\ m.anchor = plan.anchor /\ m.pred = plan.carried
    /\ m.triggers = IF plan.carried # 0 THEN pass.snap[plan.carried].triggers ELSE Mandatory(plan, count)
    /\ m.contexts = (({x.post : x \in ToSet(more)} \cap Ids) \ Mandatory(plan, count))
                    \cup (IF plan.carried = 0 THEN {}
                          ELSE pass.snap[plan.carried].contexts \cap FrozenPosts(plan))

LEMMA RequestMade ==
    ASSUME ThreadOK, PassOK, NEW plan, PlanOK(plan), NEW count \in 1 .. Len(plan.triggers), NEW budget
    PROVE  \E mine, more : RequestOf(Request(plan, count, budget), plan, count, mine, more)
<1> DEFINE eligible == Eligible(plan, count)
           mandatory == Mandatory(plan, count)
           chosen == Chosen(eligible, mandatory, budget)
           mine == {p \in eligible : p \in chosen}
           own == Chronological(mine)
           room == Min({budget, MaxBytes \div 2}) - SizeOf(plan.saved)
           base == [i \in DOMAIN own |-> Item(own[i], pass.got[own[i]], TRUE, FALSE)]
           shown == chosen \cup FrozenPosts(plan)
           none == {}
           zero == 0
           start == [items |-> base, seen |-> shown, notices |-> none, left |-> zero]
           draft == Follow(start, plan, own, room)
           more == LinkedFirst(draft, Len(own)).items
           m == Request(plan, count, budget)
           F == OwnItems(eligible) \cup LinkedItems
<1>1. eligible \subseteq Posts /\ eligible \subseteq DOMAIN thread
  BY PostsRead DEF Eligible
<1>2. mine \subseteq eligible /\ mine \subseteq DOMAIN thread
  BY <1>1
<1>3. /\ own \in Seq(mine) /\ Len(own) \in Nat /\ DOMAIN own = 1 .. Len(own)
      /\ \A k \in 1 .. Len(own) : own[k] \in mine /\ Rank(mine, own[k]) = k - 1
      /\ \A p \in mine : \E k \in 1 .. Len(own) : own[k] = p
  <2> HIDE DEF mine
  <2> QED BY <1>2, Chronologically, PostsFinite
<1>4. own \in Seq(eligible)
  <2> HIDE DEF own, mine, eligible
  <2> QED BY <1>2, <1>3
<1>5. /\ base \in Seq(OwnItems(eligible)) /\ Len(base) = Len(own)
      /\ \A k \in 1 .. Len(own) : base[k] = Item(own[k], pass.got[own[k]], TRUE, FALSE)
  <2>1. base \in Seq(OwnItems(eligible))
    <3> HIDE DEF own, eligible
    <3> QED BY <1>1, <1>4, OwnDraft
  <2>2. DOMAIN base = 1 .. Len(own) /\ \A k \in 1 .. Len(own) : base[k] = Item(own[k], pass.got[own[k]], TRUE, FALSE)
    <3> HIDE DEF own
    <3> QED BY <1>3
  <2>3. Len(own) \in Nat
    BY <1>3
  <2> HIDE DEF base, own, eligible
  <2>4. Len(base) = Len(own)
    BY <2>1, <2>2, <2>3, SameLength
  <2> QED BY <2>1, <2>2, <2>4
<1>6. /\ m.items = more \o plan.saved
      /\ m.versions = plan.frozen \cup {<<x.post, x.ver>> : x \in ToSet(more)}
      /\ m.anchor = plan.anchor /\ m.pred = plan.carried /\ m.omitted = (chosen # eligible)
      /\ m.triggers = IF plan.carried # 0 THEN pass.snap[plan.carried].triggers ELSE mandatory
      /\ m.contexts = (({x.post : x \in ToSet(more)} \cap Ids) \ mandatory)
                      \cup (IF plan.carried = 0 THEN {}
                            ELSE pass.snap[plan.carried].contexts \cap FrozenPosts(plan))
  BY DEF Request, Draft, Envelope
<1>7. base \in Seq(F) /\ LinkedItems \subseteq F
  <2>1. OwnItems(eligible) \subseteq F /\ LinkedItems \subseteq F
    OBVIOUS
  <2> HIDE DEF base, F
  <2> QED BY <1>5, <2>1
<1> HIDE DEF base
<1>8. DraftIn(start, F, base, shown)
  <2>1. start.items = base /\ start.seen = shown /\ start.notices = none /\ start.left = zero
    OBVIOUS
  <2>2. start = [items |-> start.items, seen |-> start.seen, notices |-> start.notices, left |-> start.left]
    OBVIOUS
  <2>3. Len(base) \in Nat /\ \A k \in 1 .. Len(base) : ~(Len(base) < k)
    BY <1>3, <1>5
  <2> HIDE DEF start, shown, F, own
  <2>4. start.items \in Seq(F) /\ shown \subseteq start.seen /\ Len(base) <= Len(start.items)
    BY <1>7, <2>1, <2>3
  <2>5. \A k \in 1 .. Len(base) : start.items[k] = base[k]
    BY <2>1
  <2>6. \A k \in 1 .. Len(start.items) : Len(base) < k => start.items[k].post \notin shown
    BY <2>1, <2>3
  <2> QED BY <2>2, <2>3, <2>4, <2>5, <2>6 DEF DraftIn
<1>9. DraftIn(draft, F, base, shown)
  <2> HIDE DEF start, own, F, room, shown
  <2> QED BY <1>3, <1>7, <1>8, FollowKeeps
<1> HIDE DEF m
<1>10. more = SubSeq(draft.items, Len(own) + 1, Len(draft.items)) \o SubSeq(draft.items, 1, Len(own))
  <2> DEFINE e == SubSeq(draft.items, Len(own) + 1, Len(draft.items)) \o SubSeq(draft.items, 1, Len(own))
  <2>1. LinkedFirst(draft, Len(own)) = [draft EXCEPT !.items = e]
    BY DEF LinkedFirst
  <2> HIDE DEF draft, own
  <2>2. [draft EXCEPT !.items = e].items = e
    <3> HIDE DEF e
    <3> QED BY <1>9 DEF DraftIn
  <2> QED BY <2>1, <2>2
<1> HIDE DEF draft, more
<1>11. \A p \in eligible \cap mandatory : p \in mine
  <2> HIDE DEF eligible, mandatory
  <2> QED BY <1>1, RequiredChosen
<1>12. \A k, l \in 1 .. Len(own) : own[k] = own[l] => k = l
  <2> SUFFICES ASSUME NEW k \in 1 .. Len(own), NEW l \in 1 .. Len(own), own[k] = own[l]
               PROVE  k = l
    OBVIOUS
  <2> HIDE DEF own, mine
  <2>1. Rank(mine, own[k]) = k - 1 /\ Rank(mine, own[l]) = l - 1
    BY <1>3
  <2> QED BY <2>1
<1>13. m.omitted \in BOOLEAN /\ (m.omitted \/ eligible \subseteq mine)
  BY <1>6
<1>14. /\ draft.items \in Seq(F) /\ Len(own) <= Len(draft.items)
       /\ \A k \in 1 .. Len(own) : draft.items[k] = Item(own[k], pass.got[own[k]], TRUE, FALSE)
       /\ \A k \in 1 .. Len(draft.items) : Len(own) < k => draft.items[k].post \notin shown
  <2> HIDE DEF F, shown, own
  <2> QED BY <1>5, <1>9 DEF DraftIn
<1>15. ASSUME NEW k \in 1 .. Len(draft.items), Len(own) < k
       PROVE  /\ draft.items[k].post \notin FrozenPosts(plan)
              /\ draft.items[k].post \notin mine
  <2>1. draft.items[k].post \notin shown
    <3> HIDE DEF shown, own
    <3> QED BY <1>14, <1>15
  <2> HIDE DEF own
  <2> QED BY <2>1
<1> HIDE DEF own, mine, shown, chosen, F
<1>16. ASSUME NEW k \in 1 .. Len(draft.items), ~(Len(own) < k)
       PROVE  /\ k \in 1 .. Len(own) /\ own[k] \in mine
              /\ draft.items[k].post = own[k] /\ draft.items[k].text = TRUE
  <2>1. k \in 1 .. Len(own)
    BY <1>3, <1>16
  <2>2. draft.items[k] = Item(own[k], pass.got[own[k]], TRUE, FALSE)
    BY <1>14, <2>1
  <2> QED BY <1>3, <2>1, <2>2 DEF Item
<1>17. /\ more \in Seq(F) /\ Len(more) = Len(draft.items)
       /\ \A k \in 1 .. Len(draft.items) : \E l \in 1 .. Len(draft.items) : more[k] = draft.items[l]
       /\ \A l \in 1 .. Len(draft.items) : \E k \in 1 .. Len(draft.items) :
             more[k] = draft.items[l] /\ \A j \in 1 .. Len(draft.items) :
                 j # k => \E i \in 1 .. Len(draft.items) : i # l /\ more[j] = draft.items[i]
  <2>1. PICK s : s = draft.items
    OBVIOUS
  <2>2. PICK n : n = Len(own)
    OBVIOUS
  <2>3. PICK t : t = more
    OBVIOUS
  <2>4. s \in Seq(F) /\ n \in Nat /\ n <= Len(s)
    BY <1>3, <1>14, <2>1, <2>2
  <2>5. t = SubSeq(s, n + 1, Len(s)) \o SubSeq(s, 1, n)
    BY <1>10, <2>1, <2>2, <2>3
  <2>6. t \in Seq(F) /\ SameElements(t, s)
    BY ONLY <2>4, <2>5, TurnedItems
  <2> QED BY <2>1, <2>3, <2>6 DEF SameElements
<1>18. ASSUME NEW k \in 1 .. Len(draft.items)
       PROVE  draft.items[k].post \notin FrozenPosts(plan)
  <2>1. \A p \in mine : p \notin FrozenPosts(plan)
    BY <1>2 DEF Eligible
  <2> QED BY <1>15, <1>16, <2>1
<1>19. ASSUME NEW p \in mine
       PROVE  \E l \in 1 .. Len(more) : /\ more[l].post = p /\ more[l].text = TRUE
                                        /\ \A k \in 1 .. Len(more) : k # l => more[k].post # p
  <2>1. PICK l \in 1 .. Len(own) : own[l] = p
    BY <1>3
  <2>2. l \in 1 .. Len(draft.items) /\ ~(Len(own) < l)
    <3>1. Len(draft.items) \in Nat
      BY <1>14
    <3> QED BY <1>3, <1>14, <3>1
  <2>3. draft.items[l].post = p /\ draft.items[l].text = TRUE
    BY <1>16, <2>1, <2>2
  <2>4. ASSUME NEW i \in 1 .. Len(draft.items), i # l
        PROVE  draft.items[i].post # p
    <3>1. CASE Len(own) < i
      BY <1>15, <3>1
    <3>2. CASE ~(Len(own) < i)
      <4>1. i \in 1 .. Len(own) /\ draft.items[i].post = own[i]
        BY <1>16, <3>2
      <4> QED BY <1>12, <2>1, <2>4, <4>1
    <3> QED BY <3>1, <3>2
  <2>5. PICK k \in 1 .. Len(draft.items) :
             more[k] = draft.items[l] /\ \A j \in 1 .. Len(draft.items) :
                 j # k => \E i \in 1 .. Len(draft.items) : i # l /\ more[j] = draft.items[i]
    BY <1>17, <2>2
  <2>6. more[k].post = p /\ more[k].text = TRUE
    BY <2>3, <2>5
  <2>7. \A j \in 1 .. Len(draft.items) : j # k => more[j].post # p
    BY <2>4, <2>5
  <2> QED BY <1>17, <2>6, <2>7
<1>20. OwnIn(plan, count, mine, more)
  <2>1. \A k \in 1 .. Len(more) : more[k].post \notin FrozenPosts(plan)
    BY <1>17, <1>18
  <2>2. more \in Seq(OwnItems(eligible) \cup LinkedItems)
    BY <1>17 DEF F
  <2> QED BY <1>2, <1>11, <1>19, <2>1, <2>2 DEF OwnIn
<1>21. /\ m.items = more \o plan.saved
       /\ m.versions = plan.frozen \cup {<<x.post, x.ver>> : x \in ToSet(more)}
       /\ m.anchor = plan.anchor /\ m.pred = plan.carried
       /\ m.triggers = IF plan.carried # 0 THEN pass.snap[plan.carried].triggers ELSE Mandatory(plan, count)
       /\ m.contexts = (({x.post : x \in ToSet(more)} \cap Ids) \ Mandatory(plan, count))
                       \cup (IF plan.carried = 0 THEN {}
                             ELSE pass.snap[plan.carried].contexts \cap FrozenPosts(plan))
  BY <1>6
<1> HIDE DEF mandatory
<1>22. RequestOf(m, plan, count, mine, more)
  BY <1>13, <1>20, <1>21 DEF RequestOf
<1> QED BY <1>22 DEF m

LEMMA RequestComposed ==
    ASSUME ThreadOK, PassOK, NEW plan, PlanOK(plan), NEW count \in 1 .. Len(plan.triggers), NEW budget
    PROVE  Composed(Request(plan, count, budget))
<1> DEFINE m == Request(plan, count, budget)
           c == plan.carried
           saved == plan.saved
           eligible == Eligible(plan, count)
           mandatory == Mandatory(plan, count)
<1>1. PICK more \in Seq(OwnItems(eligible) \cup LinkedItems) :
             /\ m.items = more \o saved
             /\ m.versions = plan.frozen \cup {<<x.post, x.ver>> : x \in ToSet(more)}
             /\ m.anchor = plan.anchor /\ m.pred = c /\ m.omitted \in BOOLEAN
             /\ m.triggers = IF c # 0 THEN pass.snap[c].triggers ELSE mandatory
             /\ m.contexts \subseteq Ids \cup IF c = 0 THEN {} ELSE pass.snap[c].contexts
  <2>1. PICK mine, more : RequestOf(m, plan, count, mine, more)
    BY RequestMade
  <2> HIDE DEF m
  <2>2. /\ more \in Seq(OwnItems(eligible) \cup LinkedItems)
        /\ m.items = more \o saved
        /\ m.versions = plan.frozen \cup {<<x.post, x.ver>> : x \in ToSet(more)}
        /\ m.anchor = plan.anchor /\ m.pred = c /\ m.omitted \in BOOLEAN
        /\ m.triggers = IF c # 0 THEN pass.snap[c].triggers ELSE mandatory
        /\ m.contexts = (({x.post : x \in ToSet(more)} \cap Ids) \ mandatory)
                        \cup (IF c = 0 THEN {} ELSE pass.snap[c].contexts \cap FrozenPosts(plan))
    BY <2>1 DEF RequestOf, OwnIn
  <2>3. m.contexts \subseteq Ids \cup IF c = 0 THEN {} ELSE pass.snap[c].contexts
    BY <2>2
  <2> HIDE DEF m, c, saved, eligible, mandatory
  <2> QED BY <2>2, <2>3
<1>2. /\ plan.anchor \in Nat /\ plan.triggers \in Seq(Nat) /\ Len(plan.triggers) \in Nat
      /\ mandatory \in SUBSET Nat
  <2>1. plan.anchor \in Nat /\ plan.triggers \in Seq(Nat)
    BY DEF PlanOK
  <2>2. Len(plan.triggers) \in Nat /\ \A i \in 1 .. Len(plan.triggers) : plan.triggers[i] \in Nat
    BY <2>1
  <2> QED BY <2>1, <2>2 DEF Mandatory
<1>3. c # 0 => c \in DOMAIN pass.snap /\ saved = RestOf(pass.snap[c]) /\ plan.frozen \subseteq pass.snap[c].versions
  BY DEF PlanOK
<1>4. c = 0 => saved = <<>> /\ plan.frozen = {}
  BY SnapElements DEF PlanOK
<1>5. c # 0 => /\ pass.snap[c].triggers \in SUBSET Nat /\ pass.snap[c].contexts \in SUBSET Nat
               /\ pass.snap[c].versions \in SUBSET (Nat \X Nat) /\ saved \in Seq(Items)
               /\ \A l \in DOMAIN saved : /\ pass.snap[c].heard + l \in DOMAIN pass.snap[c].items
                                          /\ saved[l] = pass.snap[c].items[pass.snap[c].heard + l]
               /\ \A l \in DOMAIN pass.snap[c].items :
                     pass.snap[c].heard < l => \E k \in DOMAIN saved : saved[k] = pass.snap[c].items[l]
  <2> SUFFICES ASSUME c # 0, NEW n, n = pass.snap[c]
               PROVE  /\ n.triggers \in SUBSET Nat /\ n.contexts \in SUBSET Nat
                      /\ n.versions \in SUBSET (Nat \X Nat) /\ saved \in Seq(Items)
                      /\ \A l \in DOMAIN saved : /\ n.heard + l \in DOMAIN n.items
                                                 /\ saved[l] = n.items[n.heard + l]
                      /\ \A l \in DOMAIN n.items :
                            n.heard < l => \E k \in DOMAIN saved : saved[k] = n.items[l]
    OBVIOUS
  <2> HIDE DEF saved, m, eligible, mandatory
  <2>1. n \in Message /\ saved = RestOf(n)
    BY <1>3, SnapElements
  <2>2. /\ n.triggers \in SUBSET Nat /\ n.contexts \in SUBSET Nat
        /\ n.versions \in SUBSET (Nat \X Nat) /\ n.heard \in Nat
    BY ONLY <2>1, MessageFields
  <2>3. /\ saved \in Seq(Items)
        /\ \A l \in DOMAIN saved : /\ n.heard + l \in DOMAIN n.items
                                   /\ saved[l] = n.items[n.heard + l]
        /\ \A l \in DOMAIN n.items :
              n.heard < l => l - n.heard \in DOMAIN saved /\ saved[l - n.heard] = n.items[l]
    BY ONLY <2>1, RestItems
  <2>4. \A l \in DOMAIN n.items :
           n.heard < l => \E k \in DOMAIN saved : saved[k] = n.items[l]
    BY ONLY <2>3
  <2> QED BY ONLY <2>2, <2>3, <2>4
<1>6. \A p \in eligible : Kind[p] = "trigger" => p \in KnownTriggers \cup m.triggers
  BY <1>1 DEF PlanOK
<1> HIDE DEF m, c, saved, eligible, mandatory
<1>7. saved \in Seq(Items) /\ c \in Nat
  <2>1. <<>> \in Seq(Items)
    OBVIOUS
  <2>2. c # 0 => c \in Nat
    BY <1>3, SnapElements
  <2>3. CASE c = 0
    <3>1. saved = <<>>
      BY <1>4, <2>3
    <3> QED BY <2>1, <2>3, <3>1
  <2>4. CASE c # 0
    <3>1. saved \in Seq(Items)
      BY <1>5, <2>4
    <3> QED BY <2>2, <2>4, <3>1
  <2> QED BY <2>3, <2>4
<1>8. /\ more \in Seq(Items) /\ Len(more) \in Nat /\ DOMAIN more = 1 .. Len(more)
      /\ \A k \in 1 .. Len(more) : more[k] \in OwnItems(eligible) \cup LinkedItems
  BY DEF OwnItems, LinkedItems
<1>9. /\ m.items \in Seq(Items) /\ Len(m.items) = Len(more) + Len(saved) /\ DOMAIN m.items = 1 .. Len(m.items)
      /\ Len(saved) \in Nat /\ DOMAIN saved = 1 .. Len(saved)
      /\ \A k \in 1 .. Len(more) + Len(saved) : m.items[k] = IF k <= Len(more) THEN more[k] ELSE saved[k - Len(more)]
  <2>1. /\ more \o saved \in Seq(Items) /\ Len(more \o saved) = Len(more) + Len(saved)
        /\ \A k \in 1 .. Len(more) + Len(saved) : (more \o saved)[k] = IF k <= Len(more) THEN more[k] ELSE saved[k - Len(more)]
    BY <1>7, <1>8, ConcatProperties
  <2> QED BY <1>1, <1>7, <2>1
<1>10. \A k \in 1 .. Len(more) : k \in DOMAIN m.items /\ m.items[k] = more[k]
  BY <1>8, <1>9
<1>11. \A l \in DOMAIN saved : Len(more) + l \in DOMAIN m.items /\ m.items[Len(more) + l] = saved[l]
  BY <1>8, <1>9
<1>12. ASSUME NEW k \in DOMAIN m.items
       PROVE  ItemProper(m.items[k], m.triggers)
  <2>1. CASE k \in 1 .. Len(more)
    <3>1. m.items[k] \in OwnItems(eligible) \cup LinkedItems
      BY <1>8, <1>10, <2>1
    <3> QED BY <1>6, <3>1 DEF ItemProper, OwnItems
  <2>2. CASE k \notin 1 .. Len(more)
    <3>1. k - Len(more) \in DOMAIN saved /\ m.items[k] = saved[k - Len(more)]
      BY <1>8, <1>9, <2>2
    <3>2. c # 0
      BY <1>4, <3>1
    <3> QED BY <1>3, <1>5, <3>1, <3>2 DEF ItemProper
  <2> QED BY <2>1, <2>2
<1>13. c # 0 => Holds(m.items, c)
  <2> SUFFICES ASSUME c # 0, NEW l \in DOMAIN pass.snap[c].items, pass.snap[c].heard < l
               PROVE  \E k \in DOMAIN m.items : m.items[k] = pass.snap[c].items[l]
    BY DEF Holds
  <2>1. PICK j \in DOMAIN saved : saved[j] = pass.snap[c].items[l]
    BY <1>5
  <2>2. Len(more) + j \in DOMAIN m.items /\ m.items[Len(more) + j] = saved[j]
    BY <1>11
  <2> QED BY <2>1, <2>2
<1>14. ASSUME NEW v \in m.versions
       PROVE  v \in Nat \X Nat /\ VersionProper(v, m.items)
  <2>1. CASE v \in plan.frozen
    <3>1. c # 0
      BY <1>4, <2>1
    <3> QED BY <1>3, <1>5, <1>13, <2>1, <3>1 DEF VersionProper
  <2>2. CASE v \notin plan.frozen
    <3>1. PICK k \in DOMAIN more : v = <<more[k].post, more[k].ver>>
      BY <1>1, <2>2 DEF ToSet
    <3>2. more[k] \in Items
      BY <1>8
    <3> QED BY <1>8, <1>10, <3>1, <3>2 DEF VersionProper, Items
  <2> QED BY <2>1, <2>2
<1>15. m.triggers \in SUBSET Nat /\ m.contexts \in SUBSET Nat
  BY <1>1, <1>2, <1>5, Constants
<1>16. Composed(m)
  <2>1. m.versions \in SUBSET (Nat \X Nat)
    BY <1>14
  <2> QED BY <1>1, <1>2, <1>7, <1>9, <1>12, <1>14, <1>15, <2>1 DEF Composed
<1> QED BY <1>16 DEF m

(* The rest of a clarification, sent again as it was.                       *)
LEMMA ResentParts ==
    ASSUME PassOK, NEW i \in DOMAIN pass.snap, NEW n, n = pass.snap[i],
           NEW m, m = [pass.snap[i] EXCEPT !.pred = i, !.items = RestOf(pass.snap[i])]
    PROVE  /\ n \in Message /\ i \in Nat
           /\ m.anchor = n.anchor /\ m.triggers = n.triggers /\ m.contexts = n.contexts /\ m.versions = n.versions
           /\ m.items = RestOf(n) /\ m.omitted = n.omitted /\ m.pred = i /\ Holds(m.items, i)
<1> DEFINE r == RestOf(n)
<1>1. n \in Message /\ i \in Nat
  BY SnapElements
<1>2. m = [n EXCEPT !.pred = i, !.items = r]
  OBVIOUS
<1>3. n \in Records
  BY <1>1 DEF Message
<1>4. \A l \in DOMAIN n.items : n.heard < l => \E k \in DOMAIN r : r[k] = n.items[l]
  BY <1>1, RestItems
<1> HIDE DEF r
<1>5. /\ m.anchor = n.anchor /\ m.triggers = n.triggers /\ m.contexts = n.contexts /\ m.versions = n.versions
      /\ m.items = r /\ m.omitted = n.omitted /\ m.pred = i
  BY ONLY <1>2, <1>3 DEF Records
<1>6. Holds(m.items, i)
  BY <1>4, <1>5 DEF Holds
<1> QED BY <1>1, <1>5, <1>6 DEF r

LEMMA ResentComposed ==
    ASSUME PassOK, NEW i \in DOMAIN pass.snap
    PROVE  Composed([pass.snap[i] EXCEPT !.pred = i, !.items = RestOf(pass.snap[i])])
<1> DEFINE n == pass.snap[i]
           m == [pass.snap[i] EXCEPT !.pred = i, !.items = RestOf(pass.snap[i])]
<1>1. /\ n \in Message /\ i \in Nat
      /\ m.anchor = n.anchor /\ m.triggers = n.triggers /\ m.contexts = n.contexts /\ m.versions = n.versions
      /\ m.items = RestOf(n) /\ m.omitted = n.omitted /\ m.pred = i /\ Holds(m.items, i)
  BY ResentParts
<1> HIDE DEF m
<1>2. /\ m.items \in Seq(Items)
      /\ \A k \in DOMAIN m.items : n.heard + k \in DOMAIN n.items /\ m.items[k] = n.items[n.heard + k]
  <2> HIDE DEF n
  <2> QED BY <1>1, RestItems
<1>3. \A k \in DOMAIN m.items : ItemProper(m.items[k], m.triggers)
  BY <1>2 DEF ItemProper
<1>4. \A v \in m.versions : VersionProper(v, m.items)
  BY <1>1 DEF VersionProper
<1> HIDE DEF n
<1>5. Composed(m)
  BY <1>1, <1>2, <1>3, <1>4, MessageFields DEF Composed
<1> QED BY <1>5 DEF m

LEMMA CandidatesRead ==
    ASSUME PassOK
    PROVE  Candidates \subseteq DOMAIN thread /\ Candidates \subseteq Posts
BY PostsRead DEF Candidates

(* A plan takes the triggers of the window; a batch cut short leaves out all
   posts from the first trigger it leaves for later.                        *)
LEMMA OrdinaryPlan ==
    ASSUME ThreadOK, PassOK, Candidates # {}
    PROVE  PlanOK(Ordinary)
<1> DEFINE first == Head(Chronological(Candidates))
           W == {p \in Candidates : thread[p].at <= thread[first].at + Window}
           triggers == Chronological(W)
           n == Cardinality(W)
<1>1. Candidates \subseteq DOMAIN thread /\ Candidates \subseteq Posts
  BY CandidatesRead
<1>2. first \in Candidates
  <2>1. /\ Chronological(Candidates) \in Seq(Candidates)
        /\ \E i \in 1 .. Len(Chronological(Candidates)) : TRUE
    BY <1>1, Chronologically
  <2>2. Chronological(Candidates) # <<>>
    BY <2>1
  <2> HIDE <1>1
  <2> QED BY <2>1, <2>2, HeadTailProperties
<1>3. W \subseteq Candidates /\ W \subseteq DOMAIN thread /\ n \in Nat
  <2>1. W \subseteq Candidates /\ W \subseteq DOMAIN thread
    BY <1>1
  <2> HIDE DEF W
  <2> QED BY <2>1, PostsFinite
<1>4. first \in W
  <2>1. thread[first].at \in Nat
    BY <1>1, <1>2 DEF ThreadOK, PostState
  <2> HIDE DEF first
  <2> QED BY <1>2, <2>1, Constants
<1>5. /\ triggers \in Seq(W) /\ Len(triggers) = n
      /\ \A i \in 1 .. n : triggers[i] \in W /\ Rank(W, triggers[i]) = i - 1
      /\ \A p \in W : \E i \in 1 .. n : triggers[i] = p
  <2> HIDE DEF W
  <2> QED BY <1>3, Chronologically
<1>6. /\ Ordinary.anchor = first /\ Ordinary.carried = 0 /\ Ordinary.saved = <<>>
      /\ Ordinary.frozen = {} /\ Ordinary.triggers = triggers
  BY DEF Ordinary
<1>7. \A p \in W : p \in Nat
  BY <1>3, Constants DEF ThreadOK
<1>8. first \in Nat /\ triggers \in Seq(Nat) /\ 1 \in 1 .. n
  <2>1. \E i \in 1 .. n : triggers[i] = first
    BY <1>4, <1>5
  <2> HIDE DEF W, triggers, n, first
  <2> QED BY <1>3, <1>4, <1>5, <1>7, <2>1
<1>9. ASSUME NEW count \in 1 .. n, NEW p \in Eligible(Ordinary, count), Kind[p] = "trigger", p \notin KnownTriggers
      PROVE  p \in Mandatory(Ordinary, count)
  <2>1. p \in Posts /\ InTime(Ordinary, count, p)
    BY DEF Eligible
  <2>2. p \in Candidates /\ p \in DOMAIN thread
    BY <1>1, <1>9, <2>1 DEF Candidates
  <2>3. IF count < n THEN Before(p, triggers[count + 1]) ELSE thread[p].at <= thread[first].at + Window
    <3> HIDE DEF triggers, first, n
    <3> QED BY <1>5, <1>6, <2>1 DEF InTime
  <2>4. p \in W /\ (count < n => Before(p, triggers[count + 1]))
    <3>1. CASE count < n
      <4>1. count + 1 \in 1 .. n
        BY <1>3, <3>1
      <4>2. triggers[count + 1] \in W
        <5> HIDE DEF W, triggers, n
        <5> QED BY <1>5, <4>1
      <4>3. triggers[count + 1] \in DOMAIN thread /\ thread[triggers[count + 1]].at <= thread[first].at + Window
        <5> HIDE DEF triggers
        <5> QED BY <1>3, <4>2
      <4>4. thread[p].at <= thread[triggers[count + 1]].at
        <5> HIDE DEF triggers
        <5> QED BY <2>2, <2>3, <3>1, <4>3, BeforeOrder
      <4>5. /\ thread[p].at \in Nat /\ thread[triggers[count + 1]].at \in Nat /\ thread[first].at \in Nat
            /\ Window \in Nat
        <5> HIDE DEF triggers, first
        <5> QED BY <1>1, <1>2, <2>2, <4>3, Constants DEF ThreadOK, PostState
      <4>6. thread[p].at <= thread[first].at + Window
        <5> HIDE DEF triggers, first
        <5> QED BY <4>3, <4>4, <4>5
      <4> QED BY <2>2, <2>3, <3>1, <4>6
    <3>2. CASE ~(count < n)
      BY <2>2, <2>3, <3>2
    <3> QED BY <3>1, <3>2
  <2>5. PICK j \in 1 .. n : triggers[j] = p
    <3> HIDE DEF W, triggers, n
    <3> QED BY <1>5, <2>4
  <2>6. j <= count
    <3>1. CASE count < n
      <4>1. count + 1 \in 1 .. n
        BY <1>3, <3>1
      <4> DEFINE t == triggers[count + 1]
      <4>2. t \in W /\ Rank(W, t) = (count + 1) - 1 /\ Rank(W, p) = j - 1
        <5> HIDE DEF W, triggers, n
        <5> QED BY <1>5, <2>5, <4>1
      <4>3. Rank(W, p) < Rank(W, t)
        <5>1. Before(p, t)
          BY <2>4, <3>1
        <5> HIDE DEF W, t
        <5> QED BY <1>3, <2>4, <4>2, <5>1, RankOrders
      <4>4. j - 1 < (count + 1) - 1
        <5> HIDE DEF W, t
        <5> QED BY <4>2, <4>3
      <4> QED BY <1>3, <4>4
    <3>2. CASE ~(count < n)
      BY <1>3, <3>2
    <3> QED BY <3>1, <3>2
  <2>7. j \in 1 .. count
    BY <1>3, <2>6
  <2> HIDE DEF triggers
  <2> QED BY <1>6, <2>5, <2>7 DEF Mandatory
<1>10. PlanOK(Ordinary)
  <2> HIDE DEF first, triggers, W, n
  <2>1. Len(Ordinary.triggers) = n
    BY <1>5, <1>6
  <2>2. \A count \in 1 .. n : \A p \in Eligible(Ordinary, count) :
          Kind[p] = "trigger" => p \in KnownTriggers \/ (Ordinary.carried = 0 /\ p \in Mandatory(Ordinary, count))
    BY <1>6, <1>9
  <2>3. Ordinary.anchor \in Nat /\ Ordinary.triggers \in Seq(Nat) /\ 1 \in 1 .. Len(Ordinary.triggers)
    BY <1>6, <1>8, <2>1
  <2> QED BY <1>6, <2>1, <2>2, <2>3 DEF PlanOK
<1> QED BY <1>10

LEMMA CarriedPlan ==
    ASSUME ThreadOK, PassOK, NEW i \in DOMAIN pass.snap
    PROVE  PlanOK(Carried(i))
<1> DEFINE m == pass.snap[i]
           plan == Carried(i)
<1>1. m \in Message /\ m.anchor \in Nat
  BY SnapElements, MessageFields
<1>2. /\ plan.anchor = m.anchor /\ plan.carried = i /\ plan.saved = RestOf(m)
      /\ plan.frozen \subseteq m.versions /\ plan.triggers = <<m.anchor>> /\ plan.withheld = Candidates
  BY DEF Carried
<1> HIDE DEF plan, m
<1>3. plan.triggers \in Seq(Nat) /\ Len(plan.triggers) = 1 /\ 1 \in 1 .. Len(plan.triggers)
  BY <1>1, <1>2
<1>4. \A count \in 1 .. Len(plan.triggers) : \A p \in Eligible(plan, count) :
          Kind[p] = "trigger" => p \in KnownTriggers
  BY <1>2 DEF Eligible, Candidates
<1>5. PlanOK(plan)
  BY <1>1, <1>2, <1>3, <1>4 DEF PlanOK, m
<1> QED BY <1>5 DEF plan

(* The triggers of an ordinary plan are the candidates of the window, in order,
   from the earliest of all.                                                *)
LEMMA OrdinaryIs ==
    ASSUME ThreadOK, PassOK, Candidates # {}
    PROVE  LET plan == Ordinary
               n == Len(plan.triggers)
           IN /\ plan.carried = 0 /\ plan.saved = <<>> /\ plan.frozen = {} /\ plan.withheld = {}
              /\ plan.initial = pass.initial /\ n \in Nat
              /\ plan.anchor \in Candidates
              /\ \A q \in Candidates : thread[plan.anchor].at <= thread[q].at
              /\ \A i \in 1 .. n : plan.triggers[i] \in Candidates
              /\ \A i \in 1 .. n : thread[plan.triggers[i]].at <= thread[plan.anchor].at + Window
              /\ \A i, j \in 1 .. n : i < j => Before(plan.triggers[i], plan.triggers[j])
<1> DEFINE all == Chronological(Candidates)
           first == Head(all)
           W == {p \in Candidates : thread[p].at <= thread[first].at + Window}
           triggers == Chronological(W)
           n == Len(triggers)
<1>1. Candidates \subseteq DOMAIN thread
  BY CandidatesRead
<1>2. /\ all \in Seq(Candidates) /\ Len(all) = Cardinality(Candidates)
      /\ \A i \in 1 .. Len(all) : all[i] \in Candidates /\ Rank(Candidates, all[i]) = i - 1
      /\ \A p \in Candidates : \E i \in 1 .. Len(all) : all[i] = p
  BY <1>1, Chronologically
<1>3. Len(all) \in Nat /\ 1 \in 1 .. Len(all) /\ all # <<>>
  BY <1>2
<1> HIDE DEF all
<1>4. first = all[1]
  BY <1>2, <1>3
<1>5. first \in Candidates /\ Rank(Candidates, first) = 0
  BY <1>2, <1>3, <1>4
<1> HIDE DEF first
<1>6. ASSUME NEW q \in Candidates
      PROVE  thread[first].at <= thread[q].at
  <2>1. Rank(Candidates, q) \in 0 .. (Cardinality(Candidates) - 1) /\ Cardinality(Candidates) \in Nat
    BY <1>1, RankBounded, PostsFinite
  <2>2. Rank(Candidates, first) <= Rank(Candidates, q)
    BY <1>5, <2>1
  <2>3. first = q \/ Before(first, q)
    BY <1>1, <1>5, <2>2, RankTells
  <2>4. thread[q].at \in Nat /\ first \in DOMAIN thread /\ q \in DOMAIN thread
    BY <1>1, <1>5 DEF ThreadOK, PostState
  <2> QED BY <2>3, <2>4, BeforeOrder
<1>7. W \subseteq Candidates /\ W \subseteq DOMAIN thread
  BY <1>1
<1>8. /\ n = Cardinality(W) /\ \A i \in 1 .. n : triggers[i] \in W /\ Rank(W, triggers[i]) = i - 1
  <2> HIDE DEF W
  <2> QED BY <1>7, Chronologically
<1>9. n \in Nat
  <2> HIDE DEF W, triggers
  <2> QED BY <1>7, <1>8, PostsFinite
<1>10. ASSUME NEW i \in 1 .. n, NEW j \in 1 .. n, i < j
       PROVE  Before(triggers[i], triggers[j])
  <2>1. triggers[i] \in W /\ triggers[j] \in W /\ Rank(W, triggers[i]) = i - 1 /\ Rank(W, triggers[j]) = j - 1
    <3> HIDE DEF W, triggers, n
    <3> QED BY <1>8
  <2>2. i - 1 <= j - 1 /\ i - 1 # j - 1
    <3> HIDE DEF n
    <3> QED BY <1>9, <1>10
  <2> HIDE DEF W, triggers
  <2> QED BY <1>7, <2>1, <2>2, RankTells
<1>11. \A i \in 1 .. n : /\ triggers[i] \in Candidates
                         /\ thread[triggers[i]].at <= thread[first].at + Window
  <2> HIDE DEF triggers, n
  <2> QED BY <1>8
<1>12. /\ Ordinary.anchor = first /\ Ordinary.carried = 0 /\ Ordinary.saved = <<>>
       /\ Ordinary.frozen = {} /\ Ordinary.withheld = {} /\ Ordinary.initial = pass.initial
       /\ Ordinary.triggers = triggers
  BY DEF Ordinary, first, all
<1> HIDE DEF triggers
<1> QED BY <1>5, <1>6, <1>9, <1>10, <1>11, <1>12

(* A request for candidates says each of its triggers once, and what came
   before them, unless it says that it does not.                            *)
LEMMA OrdinaryFresh ==
    ASSUME ThreadOK, PassOK, Candidates # {}, NEW count \in 1 .. Len(Ordinary.triggers), NEW budget
    PROVE  Fresh(Request(Ordinary, count, budget))
<1>1. PICK plan : plan = Ordinary
  OBVIOUS
<1>2. PICK n : n = Len(plan.triggers)
  OBVIOUS
<1>3. PICK m : m = Request(plan, count, budget)
  OBVIOUS
<1>4. /\ plan.carried = 0 /\ plan.saved = <<>> /\ plan.frozen = {} /\ plan.withheld = {}
      /\ plan.initial = pass.initial /\ n \in Nat
      /\ plan.anchor \in Candidates
      /\ \A q \in Candidates : thread[plan.anchor].at <= thread[q].at
      /\ \A i \in 1 .. n : plan.triggers[i] \in Candidates
      /\ \A i \in 1 .. n : thread[plan.triggers[i]].at <= thread[plan.anchor].at + Window
      /\ \A i, j \in 1 .. n : i < j => Before(plan.triggers[i], plan.triggers[j])
  BY <1>1, <1>2, OrdinaryIs
<1>5. PlanOK(plan) /\ count \in 1 .. n
  BY <1>1, <1>2, OrdinaryPlan
<1>6. PICK mine, more : RequestOf(m, plan, count, mine, more)
  BY <1>2, <1>3, <1>5, RequestMade
<1>7. /\ more \in Seq(OwnItems(Eligible(plan, count)) \cup LinkedItems)
      /\ Len(more) \in Nat /\ DOMAIN more = 1 .. Len(more)
      /\ Eligible(plan, count) \cap Mandatory(plan, count) \subseteq mine
      /\ \A p \in mine : \E l \in DOMAIN more :
            /\ more[l].post = p /\ more[l].text = TRUE
            /\ \A k \in DOMAIN more : k # l => more[k].post # p
  <2>1. OwnIn(plan, count, mine, more)
    BY <1>6 DEF RequestOf
  <2>2. more \in Seq(OwnItems(Eligible(plan, count)) \cup LinkedItems)
    BY <2>1 DEF OwnIn
  <2>3. Len(more) \in Nat /\ DOMAIN more = 1 .. Len(more)
    BY <2>2
  <2> QED BY <2>1, <2>2, <2>3 DEF OwnIn
<1>8. /\ m.items = more /\ m.versions = {<<x.post, x.ver>> : x \in ToSet(more)}
      /\ m.anchor = plan.anchor /\ m.pred = 0 /\ m.triggers = Mandatory(plan, count)
      /\ m.contexts = ({x.post : x \in ToSet(more)} \cap Ids) \ Mandatory(plan, count)
      /\ m.omitted \/ Eligible(plan, count) \subseteq mine
  <2>1. more \o <<>> = more
    BY <1>7, ConcatEmptySeq
  <2> QED BY <1>4, <1>6, <2>1 DEF RequestOf
<1>9. FrozenPosts(plan) = {}
  BY <1>4 DEF FrozenPosts
<1>10. Candidates \subseteq DOMAIN thread /\ Candidates \subseteq Posts /\ Posts \subseteq DOMAIN thread
  BY CandidatesRead, PostsRead
<1>11. Mandatory(plan, count) \subseteq Eligible(plan, count)
  <2> SUFFICES ASSUME NEW i \in 1 .. count
               PROVE  plan.triggers[i] \in Eligible(plan, count)
    BY DEF Mandatory
  <2>1. PICK p : p = plan.triggers[i]
    OBVIOUS
  <2>2. i \in 1 .. n /\ p \in Candidates /\ p \in Mandatory(plan, count)
    BY <1>4, <1>5, <2>1 DEF Mandatory
  <2>3. InTime(plan, count, p)
    <3>1. count < n => count + 1 \in 1 .. n /\ i < count + 1
      BY <1>4, <1>5
    <3>2. count < n => Before(p, plan.triggers[count + 1])
      BY <1>4, <2>1, <2>2, <3>1
    <3> QED BY <1>2, <1>4, <2>1, <2>2, <3>2 DEF InTime
  <2>4. Kind[p] = "trigger"
    BY <2>2 DEF Candidates
  <2>5. p \in Eligible(plan, count)
    BY <1>4, <1>9, <1>10, <2>2, <2>3, <2>4 DEF Eligible
  <2> QED BY <2>1, <2>5
<1>12. ASSUME NEW p \in Mandatory(plan, count)
       PROVE  Once(m, p)
  <2>1. p \in mine
    BY <1>7, <1>11
  <2>2. PICK l \in DOMAIN more : /\ more[l].post = p /\ more[l].text = TRUE
                                /\ \A k \in DOMAIN more : k # l => more[k].post # p
    BY <1>7, <2>1
  <2>3. ASSUME NEW k \in DOMAIN more, more[k].post = p
        PROVE  k = l
    BY <2>2, <2>3
  <2>4. Texts(m, p) = {l}
    BY <1>8, <2>2, <2>3 DEF Texts
  <2>5. <<p, more[l].ver>> \in m.versions
    <3>1. more[l] \in ToSet(more)
      BY <2>2 DEF ToSet
    <3> QED BY <1>8, <2>2, <3>1
  <2> QED BY <1>8, <2>2, <2>4, <2>5 DEF Once
<1>13. PostsIn(m) = {x.post : x \in ToSet(more)}
  BY <1>8 DEF PostsIn
<1>14. ASSUME NEW p \in mine
       PROVE  p \in PostsIn(m)
  <2>1. PICK l \in DOMAIN more : more[l].post = p
    BY <1>7
  <2> QED BY <1>13, <2>1 DEF ToSet
<1>15. Mandatory(plan, count) \subseteq PostsIn(m)
  BY <1>7, <1>11, <1>14
<1>16. Mentioned(m) \subseteq PostsIn(m)
  <2>1. ASSUME NEW v \in m.versions PROVE v[1] \in PostsIn(m)
    BY <1>8, <1>13, <2>1
  <2> QED BY <1>8, <1>13, <1>15, <2>1 DEF Mentioned
<1>17. ASSUME ~m.omitted, NEW p \in Posts \ Candidates, Kind[p] # "bot", thread[p].at < thread[m.anchor].at,
              pass.initial \/ p \notin KnownContext
       PROVE  p \in PostsIn(m)
  <2>1. /\ thread[p].at \in Nat /\ thread[plan.anchor].at \in Nat /\ Window \in Nat
        /\ \A q \in Candidates : thread[q].at \in Nat
    BY <1>4, <1>10, Constants DEF ThreadOK, PostState
  <2>2. InTime(plan, count, p)
    <3>1. CASE count < n
      <4>1. plan.triggers[count + 1] \in Candidates
        BY <1>4, <1>5, <3>1
      <4>2. thread[plan.anchor].at <= thread[plan.triggers[count + 1]].at
        BY <1>4, <4>1
      <4>3. thread[p].at < thread[plan.triggers[count + 1]].at
        BY <1>8, <1>17, <2>1, <4>1, <4>2
      <4> QED BY <1>2, <3>1, <4>3 DEF InTime, Before
    <3>2. CASE ~(count < n)
      <4>1. thread[p].at <= thread[plan.anchor].at + Window
        BY <1>8, <1>17, <2>1
      <4> QED BY <1>2, <3>2, <4>1 DEF InTime
    <3> QED BY <3>1, <3>2
  <2>3. p \in Eligible(plan, count)
    BY <1>4, <1>9, <1>17, <2>2 DEF Eligible
  <2> QED BY <1>8, <1>14, <1>17, <2>3
<1>18. pass.initial \in BOOLEAN
  BY DEF PassOK
<1>19. Fresh(m)
  BY <1>4, <1>8, <1>12, <1>16, <1>17, <1>18 DEF Fresh
<1> QED BY <1>1, <1>3, <1>19

(* A request around a clarification has the rest of it.  Of the versions it
   brings the agent was given some; any other it says once, as it was, or not
   at all when its item was delivered.                                      *)
LEMMA CarriedOn ==
    ASSUME ThreadOK, PassOK, NEW i \in DOMAIN pass.snap, pass.snap[i].delivery = "undelivered",
           NEW count \in 1 .. Len(Carried(i).triggers), NEW budget
    PROVE  CarriedOver(Request(Carried(i), count, budget))
<1>1. PICK plan : plan = Carried(i)
  OBVIOUS
<1>2. PICK m : m = Request(plan, count, budget)
  OBVIOUS
<1>3. PICK n : n = pass.snap[i]
  OBVIOUS
<1>4. n \in Message /\ n.delivery = "undelivered" /\ i \in Nat /\ i # 0
  BY <1>3, SnapElements
<1> DEFINE rest == RestOf(n)
<1>5. /\ plan.initial = TRUE /\ plan.carried = i /\ plan.anchor = n.anchor /\ plan.saved = rest
      /\ plan.frozen = {v \in n.versions : VersionTold(v[1]) # v[2]} /\ plan.withheld = Candidates
  BY <1>1, <1>3 DEF Carried
<1>6. PlanOK(plan)
  BY <1>1, CarriedPlan
<1>7. PICK mine, more : RequestOf(m, plan, count, mine, more)
  BY <1>1, <1>2, <1>6, RequestMade
<1>8. /\ more \in Seq(OwnItems(Eligible(plan, count)) \cup LinkedItems)
      /\ Len(more) \in Nat /\ DOMAIN more = 1 .. Len(more)
      /\ \A k \in 1 .. Len(more) : more[k].post \notin FrozenPosts(plan)
      /\ \A p \in mine : \E l \in DOMAIN more : more[l].post = p
  <2>1. OwnIn(plan, count, mine, more)
    BY <1>7 DEF RequestOf
  <2>2. more \in Seq(OwnItems(Eligible(plan, count)) \cup LinkedItems)
    BY <2>1 DEF OwnIn
  <2>3. Len(more) \in Nat /\ DOMAIN more = 1 .. Len(more)
    BY <2>2
  <2> QED BY <2>1, <2>2, <2>3 DEF OwnIn
<1>9. /\ m.items = more \o rest
      /\ m.versions = plan.frozen \cup {<<x.post, x.ver>> : x \in ToSet(more)}
      /\ m.anchor = n.anchor /\ m.pred = i /\ m.triggers = n.triggers
      /\ m.contexts = (({x.post : x \in ToSet(more)} \cap Ids) \ Mandatory(plan, count))
                      \cup (n.contexts \cap FrozenPosts(plan))
      /\ m.omitted \/ Eligible(plan, count) \subseteq mine
  BY <1>3, <1>4, <1>5, <1>7 DEF RequestOf
<1>10. /\ rest \in Seq(Items) /\ Len(rest) \in Nat /\ DOMAIN rest = 1 .. Len(rest)
       /\ \A l \in DOMAIN rest : /\ n.heard + l \in DOMAIN n.items /\ n.heard < n.heard + l
                                 /\ rest[l] = n.items[n.heard + l]
       /\ \A l \in DOMAIN n.items :
             n.heard < l => l - n.heard \in DOMAIN rest /\ rest[l - n.heard] = n.items[l]
  BY <1>4, RestItems
<1> HIDE DEF rest
<1>11. /\ DOMAIN m.items = 1 .. (Len(more) + Len(rest))
       /\ \A k \in 1 .. Len(more) : m.items[k] = more[k]
       /\ \A l \in 1 .. Len(rest) : m.items[Len(more) + l] = rest[l]
  <2>1. more \in Seq(Items)
    BY <1>8 DEF OwnItems, LinkedItems
  <2>2. /\ m.items \in Seq(Items) /\ Len(m.items) = Len(more) + Len(rest)
        /\ \A k \in 1 .. Len(more) + Len(rest) : m.items[k] = IF k <= Len(more) THEN more[k] ELSE rest[k - Len(more)]
    BY <1>9, <1>10, <2>1, ConcatProperties
  <2>3. \A l \in 1 .. Len(rest) : Len(more) + l \in 1 .. Len(more) + Len(rest) /\ ~(Len(more) + l <= Len(more))
                                  /\ (Len(more) + l) - Len(more) = l
    BY <1>8, <1>10
  <2>4. DOMAIN m.items = 1 .. (Len(more) + Len(rest))
    BY <2>2
  <2>5. \A k \in 1 .. Len(more) : m.items[k] = more[k]
    BY <1>8, <1>10, <2>2
  <2>6. \A l \in 1 .. Len(rest) : m.items[Len(more) + l] = rest[l]
    BY <2>2, <2>3
  <2> QED BY <2>4, <2>5, <2>6
<1>12. \A l \in DOMAIN n.items :
          n.heard < l => /\ Len(more) + (l - n.heard) \in DOMAIN m.items
                         /\ m.items[Len(more) + (l - n.heard)] = n.items[l]
  <2> SUFFICES ASSUME NEW l \in DOMAIN n.items, n.heard < l
               PROVE  /\ Len(more) + (l - n.heard) \in DOMAIN m.items
                      /\ m.items[Len(more) + (l - n.heard)] = n.items[l]
    OBVIOUS
  <2>1. PICK j \in 1 .. Len(rest) : j = l - n.heard /\ rest[j] = n.items[l]
    BY <1>10
  <2>2. Len(more) + j \in DOMAIN m.items /\ m.items[Len(more) + j] = rest[j]
    BY <1>8, <1>10, <1>11
  <2> QED BY <2>1, <2>2
<1>13. Holds(m.items, m.pred)
  <2> SUFFICES ASSUME NEW l \in DOMAIN n.items, n.heard < l
               PROVE  \E k \in DOMAIN m.items : m.items[k] = n.items[l]
    BY <1>3, <1>9 DEF Holds
  <2> QED BY <1>12
<1>14. ASSUME NEW v \in n.versions, VersionTold(v[1]) # v[2]
       PROVE  /\ v \in m.versions
              /\ \A l \in DOMAIN n.items : Texts(n, v[1]) = {l} => SaidOn(m, n, v[1], l)
  <2>1. v \in plan.frozen /\ v[1] \in FrozenPosts(plan)
    BY <1>5, <1>14 DEF FrozenPosts
  <2>2. ASSUME NEW l \in DOMAIN n.items, Texts(n, v[1]) = {l}
        PROVE  SaidOn(m, n, v[1], l)
    <3>1. l \in Texts(n, v[1]) /\ l \in Nat /\ n.heard \in Nat
      <4>1. n.items \in Seq(Items) /\ n.heard \in Nat
        BY <1>4, MessageFields
      <4>2. l \in Nat
        BY <4>1
      <4> QED BY <2>2, <4>1, <4>2
    <3>2. ASSUME NEW k \in Texts(m, v[1])
          PROVE  n.heard < l /\ k = Len(more) + (l - n.heard)
      <4>1. k \in DOMAIN m.items /\ m.items[k].post = v[1] /\ m.items[k].text
        BY DEF Texts
      <4>2. k \notin 1 .. Len(more)
        BY <1>8, <1>11, <2>1, <4>1
      <4>3. PICK j \in 1 .. Len(rest) : k = Len(more) + j
        <5>1. k - Len(more) \in 1 .. Len(rest) /\ k = Len(more) + (k - Len(more))
          BY <1>8, <1>10, <1>11, <4>1, <4>2
        <5> QED BY <5>1
      <4>4. n.heard + j \in DOMAIN n.items /\ m.items[k] = n.items[n.heard + j]
        BY <1>10, <1>11, <4>3
      <4>5. n.heard + j \in Texts(n, v[1])
        BY <4>1, <4>4 DEF Texts
      <4>6. n.heard + j = l
        BY <2>2, <4>5
      <4> QED BY <3>1, <4>3, <4>6
    <3>3. CASE l <= n.heard
      <4>1. Texts(m, v[1]) = {}
        BY <3>1, <3>2, <3>3
      <4> QED BY <3>3, <4>1 DEF SaidOn
    <3>4. CASE ~(l <= n.heard)
      <4>1. n.heard < l
        BY <3>1, <3>4
      <4>2. PICK k \in DOMAIN m.items : k = Len(more) + (l - n.heard) /\ m.items[k] = n.items[l]
        BY <1>12, <4>1
      <4>3. k \in Texts(m, v[1])
        BY <3>1, <4>2 DEF Texts
      <4>4. Texts(m, v[1]) = {k}
        BY <3>2, <4>2, <4>3
      <4> QED BY <3>4, <4>2, <4>4 DEF SaidOn
    <3> QED BY <3>3, <3>4
  <2> QED BY <1>9, <2>1, <2>2
<1>15. {x.post : x \in ToSet(more)} \subseteq PostsIn(m)
  <2>1. \A k \in DOMAIN more : k \in DOMAIN m.items /\ m.items[k] = more[k]
    BY <1>8, <1>10, <1>11
  <2>2. \A k \in DOMAIN more : more[k].post \in PostsIn(m)
    BY <2>1 DEF PostsIn, ToSet
  <2> QED BY <2>2 DEF ToSet
<1>16. Mentioned(m) \subseteq PostsIn(m) \cup Mentioned(n)
  <2>1. ASSUME NEW v \in m.versions PROVE v[1] \in PostsIn(m) \cup Mentioned(n)
    <3>1. CASE v \in plan.frozen
      BY <1>5, <3>1 DEF Mentioned
    <3>2. CASE v \notin plan.frozen
      <4>1. PICK x \in ToSet(more) : v = <<x.post, x.ver>>
        BY <1>9, <3>2
      <4> QED BY <1>15, <4>1
    <3> QED BY <3>1, <3>2
  <2>2. m.contexts \subseteq PostsIn(m) \cup Mentioned(n)
    BY <1>9, <1>15 DEF Mentioned
  <2> QED BY <1>9, <2>1, <2>2 DEF Mentioned
<1>17. ASSUME ~m.omitted, NEW p \in Posts \ Candidates
       PROVE  p \in PostsIn(m) \cup Mentioned(n)
  <2>1. CASE p \in FrozenPosts(plan)
    BY <1>5, <2>1 DEF FrozenPosts, Mentioned
  <2>2. CASE p \notin FrozenPosts(plan)
    <3>1. p \in Eligible(plan, count)
      BY <1>4, <1>5, <1>17, <2>2 DEF Eligible, InTime
    <3>2. PICK l \in DOMAIN more : more[l].post = p
      BY <1>8, <1>9, <1>17, <3>1
    <3> QED BY <1>15, <3>2 DEF ToSet
  <2> QED BY <2>1, <2>2
<1>18. CarriedOver(m)
  <2>1. m.pred \in DOMAIN pass.snap /\ n = pass.snap[m.pred]
    BY <1>3, <1>9
  <2>2. m.anchor = n.anchor /\ m.triggers = n.triggers
    BY <1>9
  <2>3. m.omitted \/ \A p \in Posts \ Candidates : p \in PostsIn(m) \cup Mentioned(n)
    BY <1>17
  <2> QED BY <1>4, <1>13, <1>14, <1>16, <2>1, <2>2, <2>3 DEF CarriedOver
<1> QED BY <1>1, <1>2, <1>18

LEMMA ResentIs ==
    ASSUME PassOK, ~pass.initial, NEW i \in DOMAIN pass.snap, pass.snap[i].delivery = "undelivered"
    PROVE  Resent([pass.snap[i] EXCEPT !.pred = i, !.items = RestOf(pass.snap[i])])
<1> DEFINE n == pass.snap[i]
           m == [pass.snap[i] EXCEPT !.pred = i, !.items = RestOf(pass.snap[i])]
<1>1. /\ n \in Message /\ i \in Nat
      /\ m.anchor = n.anchor /\ m.triggers = n.triggers /\ m.contexts = n.contexts /\ m.versions = n.versions
      /\ m.items = RestOf(n) /\ m.omitted = n.omitted /\ m.pred = i /\ Holds(m.items, i)
  BY ResentParts
<1> HIDE DEF m
<1>2. Resent(m)
  BY <1>1 DEF Resent
<1> QED BY <1>2 DEF m

-----------------------------------------------------------------------------
(* The end of a pass: what it adds to the history is a proper message.      *)

LEMMA LargestFits ==
    ASSUME NEW plan, Len(plan.triggers) \in Nat, NEW fitting, fitting \subseteq Attempts(plan), fitting # {}
    PROVE  Largest(fitting) \in fitting /\ Largest(fitting)[1] \in 1 .. Len(plan.triggers)
<1> DEFINE n == Len(plan.triggers)
           most == Min({Tokens, MaxBytes \div 3})
           K == {a[1] : a \in fitting}
<1>1. most \in Nat
  <2>1. Tokens \in Nat /\ MaxBytes \div 3 \in Nat
    BY ContextAssumption
  <2> DEFINE S == {Tokens, MaxBytes \div 3}
  <2>2. S \subseteq Nat /\ S # {}
    BY <2>1
  <2>3. Min(S) \in S
    <3> HIDE DEF S
    <3> QED BY <2>2, MinOfNat
  <2> HIDE DEF S
  <2> QED BY <2>2, <2>3 DEF S
<1>2. fitting \subseteq (1 .. n) \X (0 .. most)
  BY DEF Attempts, Budgets
<1> HIDE DEF most
<1>3. PICK k \in K : \A l \in K : l <= k
  <2>1. K \subseteq 0 .. n /\ K # {}
    BY <1>2
  <2> HIDE DEF K
  <2> QED BY <2>1, GreatestOfBounded
<1> DEFINE B == {a[2] : a \in {b \in fitting : b[1] = k}}
<1>4. PICK c \in B : \A d \in B : d <= c
  <2>1. B \subseteq 0 .. most /\ B # {}
    BY <1>2, <1>3
  <2> HIDE DEF B
  <2> QED BY <1>1, <2>1, GreatestOfBounded
<1>5. PICK a \in fitting : a[1] = k /\ a[2] = c
  BY <1>4
<1>6. \A b \in fitting : b[1] < a[1] \/ (b[1] = a[1] /\ b[2] <= a[2])
  <2> SUFFICES ASSUME NEW b \in fitting
               PROVE  b[1] < a[1] \/ (b[1] = a[1] /\ b[2] <= a[2])
    OBVIOUS
  <2>1. b[1] \in Nat /\ a[1] \in Nat
    BY <1>2
  <2>2. b[1] <= k
    BY <1>3
  <2>3. b[1] = k => b[2] <= c
    BY <1>4
  <2> QED BY <1>5, <2>1, <2>2, <2>3
<1>7. Largest(fitting) \in fitting
  BY <1>6 DEF Largest
<1> QED BY <1>2, <1>7

TargetsOK == run \in [n : Nat, active : BOOLEAN] /\ session \in [n : Nat, usable : BOOLEAN]

LEMMA SubmitAdds ==
    ASSUME TargetsOK, NEW r, Proper(r), NEW kind \in Kindred, NEW created \in BOOLEAN,
           kind = "clarification" => r.pred = 0, Submit(r, kind, created)
    PROVE  /\ TargetsOK'
           /\ \/ history' = history
              \/ \E m \in Message : Proper(m) /\ history' = Append(history, m)
<1> DEFINE sn == session.n + (IF created THEN 1 ELSE 0)
           rn == IF kind = "initial" THEN run.n + 1 ELSE run.n
           m == [anchor |-> r.anchor, triggers |-> r.triggers, contexts |-> r.contexts,
                 versions |-> r.versions, items |-> r.items, omitted |-> r.omitted,
                 pred |-> r.pred, kind |-> kind, delivery |-> "pending", heard |-> 0,
                 session |-> sn, run |-> rn]
<1>1. sn \in Nat /\ rn \in Nat
  BY DEF TargetsOK
<1>2. \/ history' = history /\ run' = run /\ session' = session
      \/ r.items # <<>> /\ history' = Append(history, m) /\ run' = [n |-> rn, active |-> TRUE] /\ session' = [n |-> sn, usable |-> TRUE]
  BY DEF Submit
<1> HIDE DEF sn, rn
<1>3. /\ m.anchor = r.anchor /\ m.triggers = r.triggers /\ m.contexts = r.contexts /\ m.versions = r.versions
      /\ m.items = r.items /\ m.omitted = r.omitted /\ m.pred = r.pred
      /\ m.kind = kind /\ m.delivery = "pending" /\ m.heard = 0
  OBVIOUS
<1>4. m \in Records
  <2>1. "pending" \in Deliveries /\ 0 \in Nat
    BY DEF Deliveries
  <2> QED BY <1>1, <2>1 DEF Proper, Composed, Records
<1> HIDE DEF m
<1>5. r.items # <<>> => m \in Message
  <2>1. r.items \in Seq(Items)
    BY DEF Proper, Composed
  <2>2. r.items # <<>> => Len(r.items) \in Nat /\ Len(r.items) # 0
    BY <2>1
  <2>3. r.items # <<>> => Sound(m)
    BY <1>3, <2>2 DEF Sound
  <2> QED BY <1>4, <2>3 DEF Message
<1>6. Proper(m)
  <2>1. Composed(m)
    BY <1>3 DEF Proper, Composed
  <2>2. \A p : Texts(m, p) = Texts(r, p) /\ (Once(r, p) => Once(m, p))
    BY <1>3 DEF Texts, Once
  <2>3. PostsIn(m) = PostsIn(r) /\ Mentioned(m) = Mentioned(r)
    BY <1>3 DEF PostsIn, Mentioned
  <2>4. Fresh(r) => Fresh(m)
    BY <1>3, <2>2, <2>3 DEF Fresh
  <2>5. \A n, p, l : SaidOn(r, n, p, l) => SaidOn(m, n, p, l)
    BY <1>3, <2>2 DEF SaidOn
  <2>6. CarriedOver(r) => CarriedOver(m)
    <3> SUFFICES ASSUME CarriedOver(r) PROVE CarriedOver(m)
      OBVIOUS
    <3>1. PICK c \in DOMAIN pass.snap : c = r.pred
      BY DEF CarriedOver
    <3> QED BY <1>3, <2>3, <2>5, <3>1 DEF CarriedOver
  <2>7. Resent(r) => Resent(m)
    BY <1>3 DEF Resent
  <2> QED BY <2>1, <2>4, <2>6, <2>7 DEF Proper
<1>7. TargetsOK'
  <2>1. CASE run' = run /\ session' = session
    BY <2>1 DEF TargetsOK
  <2>2. CASE run' = [n |-> rn, active |-> TRUE] /\ session' = [n |-> sn, usable |-> TRUE]
    <3>1. [n |-> rn, active |-> TRUE] \in [n : Nat, active : BOOLEAN]
      BY <1>1
    <3>2. [n |-> sn, usable |-> TRUE] \in [n : Nat, usable : BOOLEAN]
      BY <1>1
    <3> QED BY <2>2, <3>1, <3>2 DEF TargetsOK
  <2> QED BY <1>2, <2>1, <2>2
<1> QED BY <1>2, <1>6, <1>7, <1>5

ProperPlan(plan) ==
    /\ Len(plan.triggers) \in Nat /\ 1 \in 1 .. Len(plan.triggers)
    /\ \A budget : \A count \in 1 .. Len(plan.triggers) : Proper(Request(plan, count, budget))

LEMMA RequestPred ==
    ASSUME NEW plan, NEW count, NEW budget
    PROVE  Request(plan, count, budget).pred = plan.carried
BY DEF Request, Envelope

LEMMA BuildAdds ==
    ASSUME TargetsOK, refused \in SUBSET (Nat \X Nat), NEW plan, ProperPlan(plan),
           plan.initial \in BOOLEAN, NEW kind \in Kindred, kind = "clarification" => plan.carried = 0,
           Build(plan, kind)
    PROVE  /\ TargetsOK' /\ refused' \in SUBSET (Nat \X Nat)
           /\ \/ history' = history
              \/ \E m \in Message : Proper(m) /\ history' = Append(history, m)
<1> DEFINE fitting == Fitting(plan)
           a == Largest(fitting)
           r == Request(plan, a[1], a[2])
           least == Request(plan, 1, 0)
<1>1. Len(plan.triggers) \in Nat /\ 1 \in 1 .. Len(plan.triggers)
  BY DEF ProperPlan
<1>2. \/ fitting # {} /\ Submit(r, kind, plan.initial) /\ refused' = refused
      \/ /\ history' = history /\ run' = run /\ session' = session
         /\ refused' = refused \cup {v \in least.versions : v[1] \in least.triggers}
  BY DEF Build
<1>3. CASE fitting # {} /\ Submit(r, kind, plan.initial) /\ refused' = refused
  <2>1. fitting \subseteq Attempts(plan)
    BY DEF Fitting
  <2>2. a[1] \in 1 .. Len(plan.triggers)
    <3> HIDE DEF fitting
    <3> QED BY <1>1, <1>3, <2>1, LargestFits
  <2>3. Proper(r)
    <3> HIDE DEF a
    <3> QED BY <2>2 DEF ProperPlan
  <2>4. r.pred = plan.carried
    BY RequestPred
  <2> HIDE DEF r, a, fitting
  <2> QED BY <1>3, <2>3, <2>4, SubmitAdds
<1>4. CASE /\ history' = history /\ run' = run /\ session' = session
           /\ refused' = refused \cup {v \in least.versions : v[1] \in least.triggers}
  <2>1. Proper(least)
    BY <1>1 DEF ProperPlan
  <2>2. least.versions \in SUBSET (Nat \X Nat)
    <3> HIDE DEF least
    <3> QED BY <2>1 DEF Proper, Composed
  <2> HIDE DEF least
  <2> QED BY <1>4, <2>2 DEF TargetsOK
<1> HIDE DEF r, a, fitting, least
<1> QED BY <1>2, <1>3, <1>4

LEMMA EndPassAdds ==
    ASSUME ThreadOK, PassOK, TargetsOK, refused \in SUBSET (Nat \X Nat), EndPass
    PROVE  /\ TargetsOK' /\ refused' \in SUBSET (Nat \X Nat)
           /\ \/ history' = history
              \/ \E m \in Message : Proper(m) /\ history' = Append(history, m)
<1> DEFINE i == Min(Transferable)
<1>1. pass.initial \in BOOLEAN
  BY DEF PassOK
<1>2. Transferable # {} => i \in DOMAIN pass.snap /\ pass.snap[i].delivery = "undelivered"
  <2>1. Transferable \subseteq DOMAIN pass.snap /\ DOMAIN pass.snap \subseteq Nat
    BY SnapElements DEF Transferable
  <2>2. Transferable # {} => i \in Transferable
    BY <2>1, MinOfNat
  <2> QED BY <2>2 DEF Transferable
<1>3. ASSUME Transferable # {} PROVE ProperPlan(Carried(i)) /\ Carried(i).initial = TRUE
  <2>1. Carried(i).initial = TRUE
    BY DEF Carried
  <2> HIDE DEF i
  <2>2. PlanOK(Carried(i))
    BY <1>2, <1>3, CarriedPlan
  <2>3. \A budget : \A count \in 1 .. Len(Carried(i).triggers) : Proper(Request(Carried(i), count, budget))
    BY <1>2, <1>3, <2>2, RequestComposed, CarriedOn DEF Proper
  <2> QED BY <2>1, <2>2, <2>3 DEF ProperPlan, PlanOK
<1>4. ASSUME Due PROVE ProperPlan(Ordinary) /\ Ordinary.initial = pass.initial /\ Ordinary.carried = 0
  <2>1. Ordinary.initial = pass.initial /\ Ordinary.carried = 0
    BY DEF Ordinary
  <2>2. Candidates # {} /\ PlanOK(Ordinary)
    BY <1>4, OrdinaryPlan DEF Due
  <2>3. \A budget : \A count \in 1 .. Len(Ordinary.triggers) : Proper(Request(Ordinary, count, budget))
    BY <2>2, RequestComposed, OrdinaryFresh DEF Proper
  <2> QED BY <2>1, <2>2, <2>3 DEF ProperPlan, PlanOK
<1>5. \/ Transferable # {} /\ Build(Carried(i), "initial")
      \/ Transferable # {} /\ ~pass.initial /\ Resend(i)
      \/ Due /\ \E kind \in Kindred : Build(Ordinary, kind)
      \/ Nothing
  BY DEF EndPass, Kindred
<1> HIDE DEF i
<1>6. "initial" \in Kindred
  BY DEF Kindred
<1>7. CASE Transferable # {} /\ Build(Carried(i), "initial")
  <2>1. "initial" # "clarification"
    OBVIOUS
  <2> QED BY <1>3, <1>6, <1>7, <2>1, BuildAdds
<1>8. CASE Transferable # {} /\ ~pass.initial /\ Resend(i)
  <2>1. Proper([pass.snap[i] EXCEPT !.pred = i, !.items = RestOf(pass.snap[i])])
    BY <1>2, <1>8, ResentComposed, ResentIs DEF Proper
  <2>2. Submit([pass.snap[i] EXCEPT !.pred = i, !.items = RestOf(pass.snap[i])], "initial", FALSE) /\ refused' = refused
    BY <1>8 DEF Resend
  <2>3. "initial" # "clarification" /\ FALSE \in BOOLEAN
    OBVIOUS
  <2> QED BY <1>6, <2>1, <2>2, <2>3, SubmitAdds
<1>9. CASE Due /\ \E kind \in Kindred : Build(Ordinary, kind)
  BY <1>1, <1>4, <1>9, BuildAdds
<1>10. CASE Nothing
  BY <1>10 DEF Nothing, TargetsOK
<1> QED BY <1>5, <1>7, <1>8, <1>9, <1>10

-----------------------------------------------------------------------------
(* Types.  Posts keep their time, and the root comes first.                 *)

HistoryOK == history \in Seq(Message) /\ refused \in SUBSET (Nat \X Nat)
TypeOK == ThreadOK /\ TargetsOK /\ PassOK /\ HistoryOK

(* What is never lost: a post keeps its time, a message what it says and what
   was heard of it.  Only what is pending may still be delivered.           *)
Reaches(m) == m.delivery \in {"pending", "delivered"}
Kept(m, n) ==
    /\ n.items = m.items /\ n.triggers = m.triggers /\ n.versions = m.versions
    /\ n.anchor = m.anchor /\ n.contexts = m.contexts /\ n.omitted = m.omitted /\ n.pred = m.pred
    /\ n.heard \in Nat /\ m.heard <= n.heard
    /\ m.delivery = "pending" \/ (n.delivery = m.delivery /\ n.heard = m.heard)
HistoryKept ==
    /\ Len(history) <= Len(history')
    /\ \A i \in DOMAIN history : i \in DOMAIN history' /\ Kept(history[i], history'[i])
HistoryStep ==
    /\ HistoryKept
    /\ \/ DOMAIN history' = DOMAIN history
       \/ EndPass /\ \E m \in Message : Proper(m) /\ history' = Append(history, m)
ThreadKept ==
    \A p \in DOMAIN thread : /\ p \in DOMAIN thread' /\ thread'[p].at = thread[p].at
                             /\ thread'[p].live => thread[p].live

LEMMA HistoryElements ==
    ASSUME HistoryOK
    PROVE  /\ DOMAIN history = 1 .. Len(history) /\ Len(history) \in Nat
           /\ \A i \in DOMAIN history : history[i] \in Message
BY DEF HistoryOK

LEMMA Unmoved ==
    ASSUME HistoryOK, history' = history
    PROVE  HistoryStep
<1>1. \A i \in DOMAIN history : history[i].heard \in Nat
  BY HistoryElements, MessageFields
<1> QED BY <1>1, HistoryElements DEF HistoryStep, HistoryKept, Kept

LEMMA PassUnmoved ==
    ASSUME PassOK, pass' = pass, DOMAIN thread \subseteq DOMAIN thread'
    PROVE  PassOK'
BY DEF PassOK, Got

LEMMA WriteTyped ==
    ASSUME TypeOK, NEW p \in Ids, Write(p)
    PROVE  TypeOK' /\ HistoryStep /\ ThreadKept
<1>1. /\ thread' = [q \in DOMAIN thread \cup {p} |->
                       IF q = p THEN [at |-> now, ver |-> 0, live |-> TRUE] ELSE thread[q]]
      /\ p \notin DOMAIN thread
      /\ UNCHANGED <<now, history, run, session, refused, pass>>
  BY DEF Write
<1>2. /\ DOMAIN thread' = DOMAIN thread \cup {p}
      /\ thread'[p] = [at |-> now, ver |-> 0, live |-> TRUE]
      /\ \A q \in DOMAIN thread : thread'[q] = thread[q]
  BY <1>1
<1>3. [at |-> now, ver |-> 0, live |-> TRUE] \in PostState
  BY DEF TypeOK, ThreadOK, PostState
<1>4. thread' \in [DOMAIN thread' -> PostState]
  <2>1. \A q \in DOMAIN thread' : thread'[q] \in PostState
    BY <1>2, <1>3 DEF TypeOK, ThreadOK
  <2> QED BY <1>1, <2>1
<1>5. thread'[p].at = now
  BY <1>2
<1>6. ThreadOK'
  <2>1. \A q \in DOMAIN thread' : thread'[q].at <= now' /\ thread'[Root].at <= thread'[q].at
    BY <1>1, <1>2, <1>5 DEF TypeOK, ThreadOK
  <2> QED BY <1>1, <1>2, <1>4, <2>1 DEF TypeOK, ThreadOK
<1>7. PassOK'
  BY <1>1, <1>2, PassUnmoved DEF TypeOK
<1> QED BY <1>1, <1>2, <1>6, <1>7, Unmoved DEF TypeOK, HistoryOK, TargetsOK, ThreadKept

LEMMA PostChanged ==
    ASSUME TypeOK, NEW p \in DOMAIN thread, NEW x \in PostState, x.at = thread[p].at, x.live => thread[p].live,
           thread' = [thread EXCEPT ![p] = x], UNCHANGED <<now, history, run, session, refused, pass>>
    PROVE  TypeOK' /\ HistoryStep /\ ThreadKept
<1>1. /\ DOMAIN thread' = DOMAIN thread
      /\ \A q \in DOMAIN thread : thread'[q] = IF q = p THEN x ELSE thread[q]
  BY DEF TypeOK, ThreadOK
<1>2. ThreadKept
  BY <1>1 DEF ThreadKept
<1>3. thread' \in [DOMAIN thread' -> PostState]
  BY DEF TypeOK, ThreadOK
<1>4. ThreadOK'
  <2>1. \A q \in DOMAIN thread' : thread'[q].at <= now' /\ thread'[Root].at <= thread'[q].at
    BY <1>1, <1>2 DEF TypeOK, ThreadOK, ThreadKept
  <2> QED BY <1>1, <1>3, <2>1 DEF TypeOK, ThreadOK
<1>5. PassOK'
  BY <1>1, PassUnmoved DEF TypeOK
<1> QED BY <1>2, <1>4, <1>5, Unmoved DEF TypeOK, HistoryOK, TargetsOK

LEMMA EditTyped ==
    ASSUME TypeOK, NEW p \in Ids, Edit(p) \/ Delete(p)
    PROVE  TypeOK' /\ HistoryStep /\ ThreadKept
<1>1. p \in DOMAIN thread /\ thread[p].live /\ UNCHANGED <<now, history, run, session, refused, pass>>
  BY DEF Edit, Delete, Live
<1>2. thread[p] \in PostState
  BY <1>1 DEF TypeOK, ThreadOK
<1> DEFINE e == [thread[p] EXCEPT !.ver = @ + 1]
           d == [thread[p] EXCEPT !.live = FALSE]
<1>3. e \in PostState /\ e.at = thread[p].at /\ d \in PostState /\ d.at = thread[p].at
  <2>1. ASSUME NEW y \in PostState, NEW v \in Nat
        PROVE  [y EXCEPT !.ver = v] \in PostState /\ [y EXCEPT !.ver = v].at = y.at
    BY DEF PostState
  <2>2. ASSUME NEW y \in PostState
        PROVE  [y EXCEPT !.live = FALSE] \in PostState /\ [y EXCEPT !.live = FALSE].at = y.at
    BY DEF PostState
  <2>3. thread[p].ver + 1 \in Nat /\ e = [thread[p] EXCEPT !.ver = thread[p].ver + 1]
    BY <1>2 DEF PostState
  <2> HIDE DEF e
  <2> QED BY <1>2, <2>1, <2>2, <2>3
<1>4. thread' = [thread EXCEPT ![p] = e] \/ thread' = [thread EXCEPT ![p] = d]
  BY DEF Edit, Delete
<1> HIDE DEF e, d
<1> QED BY <1>1, <1>3, <1>4, PostChanged

LEMMA OthersTyped ==
    ASSUME TypeOK, Tick \/ SessionLost \/ StartPass
    PROVE  TypeOK' /\ HistoryStep /\ ThreadKept
<1>1. history' = history /\ refused' = refused /\ thread' = thread /\ run' = run
  BY DEF Tick, SessionLost, StartPass
<1>2. HistoryOK' /\ HistoryStep /\ ThreadKept
  BY <1>1, Unmoved DEF TypeOK, HistoryOK, ThreadKept
<1>3. now' \in Nat /\ now <= now'
  BY DEF Tick, SessionLost, StartPass, TypeOK, ThreadOK
<1>4. ThreadOK'
  <2>1. \A q \in DOMAIN thread : thread[q].at \in Nat
    BY DEF TypeOK, ThreadOK, PostState
  <2>2. \A q \in DOMAIN thread : thread[q].at <= now'
    BY <1>3, <2>1 DEF TypeOK, ThreadOK
  <2> QED BY <1>1, <1>3, <2>2 DEF TypeOK, ThreadOK
<1>5. TargetsOK'
  BY <1>1 DEF Tick, SessionLost, StartPass, TypeOK, TargetsOK
<1>6. CASE Tick \/ SessionLost
  <2>1. PassOK'
    BY <1>1, <1>6, PassUnmoved DEF Tick, SessionLost, TypeOK
  <2> QED BY <1>2, <1>4, <1>5, <2>1 DEF TypeOK
<1>7. CASE StartPass
  <2>1. pass' = [pc |-> "paging", start |-> LivePosts, got |-> NothingRead, cursor |-> Root,
                 snap |-> history, run |-> run, initial |-> ~run.active /\ ~session.usable]
    BY <1>7 DEF StartPass
  <2>2. NothingRead \in Readings /\ DOMAIN NothingRead = {}
    <3>1. NothingRead \in [{} -> Nat] /\ {} \in SUBSET Ids
      BY DEF NothingRead
    <3> QED BY <3>1 DEF Readings, NothingRead
  <2>3. LivePosts \subseteq DOMAIN thread /\ LivePosts \in SUBSET Ids
    BY DEF LivePosts, TypeOK, ThreadOK
  <2> DEFINE initial == ~run.active /\ ~session.usable
  <2>4. initial \in BOOLEAN
    OBVIOUS
  <2>5. pass' = [pc |-> "paging", start |-> LivePosts, got |-> NothingRead, cursor |-> Root,
                 snap |-> history, run |-> run, initial |-> initial]
    BY <2>1
  <2> HIDE DEF initial
  <2>6. /\ history \in Seq(Message) /\ run \in [n : Nat, active : BOOLEAN] /\ Root \in Ids
        /\ Root \in DOMAIN thread
    BY Constants DEF TypeOK, HistoryOK, TargetsOK, ThreadOK
  <2>7. /\ pass'.start = LivePosts /\ pass'.cursor = Root /\ pass'.got = NothingRead
    BY <2>5
  <2>8. pass' \in [pc : {"idle", "paging", "done"}, start : SUBSET Ids, got : Readings, cursor : Ids,
                   snap : Seq(Message), run : [n : Nat, active : BOOLEAN], initial : BOOLEAN]
    BY <2>2, <2>3, <2>4, <2>5, <2>6
  <2>9. PassOK'
    BY <1>1, <2>2, <2>3, <2>6, <2>7, <2>8 DEF PassOK, Got
  <2> QED BY <1>2, <1>4, <1>5, <2>9 DEF TypeOK
<1> QED BY <1>6, <1>7

(* A pending message that was heard so far and is, or is not, delivered.    *)
DeliveryOf(m, n) ==
    /\ n.items = m.items /\ n.triggers = m.triggers /\ n.versions = m.versions /\ n.kind = m.kind
    /\ n.anchor = m.anchor /\ n.contexts = m.contexts /\ n.omitted = m.omitted /\ n.pred = m.pred
    /\ m.heard <= n.heard /\ n.heard <= Len(m.items)
    /\ n.delivery = "delivered" <=> n.heard = Len(m.items)
    /\ n.delivery = "undelivered" => m.kind = "clarification"

LEMMA DeliveryKept ==
    ASSUME NEW m \in Message, m.delivery = "pending", NEW n \in Records, DeliveryOf(m, n)
    PROVE  n \in Message /\ Kept(m, n)
<1>1. Sound(m)
  BY MessageFields
<1>2. Sound(n) /\ n.heard \in Nat
  BY <1>1 DEF Sound, DeliveryOf, Records
<1> QED BY <1>2 DEF Message, Kept, DeliveryOf

LEMMA DeliverTyped ==
    ASSUME TypeOK, Deliver
    PROVE  TypeOK' /\ HistoryStep /\ ThreadKept
<1> DEFINE k == Min(Pending)
           h == history[k].heard + 1
           d == IF h = Len(history[k].items) THEN "delivered" ELSE history[k].delivery
           m == [history[k] EXCEPT !.heard = h, !.delivery = d]
<1>1. k \in DOMAIN history /\ history[k].delivery = "pending"
  <2>1. Pending \subseteq Nat /\ Pending # {}
    BY HistoryElements DEF Pending, TypeOK, Deliver
  <2>2. Min(Pending) \in Pending
    BY <2>1, MinOfNat
  <2> QED BY <2>2 DEF Pending
<1>2. m \in Message /\ Kept(history[k], m)
  <2>1. PICK p \in Message : p = history[k]
    BY <1>1, HistoryElements DEF TypeOK
  <2>2. /\ p.delivery = "pending" /\ p.heard \in Nat /\ p.items \in Seq(Items) /\ Len(p.items) \in Nat
        /\ p.heard < Len(p.items) /\ p \in Records
    <3>1. p.heard \in Nat /\ p.items \in Seq(Items) /\ Sound(p) /\ p \in Records
      BY MessageFields DEF Message
    <3>2. Len(p.items) \in Nat
      BY <3>1
    <3> QED BY <1>1, <2>1, <3>1, <3>2 DEF Sound
  <2>3. /\ m = [p EXCEPT !.heard = h, !.delivery = d] /\ h = p.heard + 1
        /\ d = IF h = Len(p.items) THEN "delivered" ELSE "pending"
    BY <2>1, <2>2
  <2> HIDE DEF m, h, d, k
  <2>4. h \in Nat /\ d \in Deliveries
    BY <2>2, <2>3 DEF Deliveries
  <2>5. /\ m \in Records /\ m.heard = h /\ m.delivery = d
        /\ m.items = p.items /\ m.triggers = p.triggers /\ m.versions = p.versions /\ m.kind = p.kind
        /\ m.anchor = p.anchor /\ m.contexts = p.contexts /\ m.omitted = p.omitted /\ m.pred = p.pred
    BY ONLY <2>2, <2>3, <2>4 DEF Records
  <2>6. DeliveryOf(p, m)
    BY <2>2, <2>3, <2>4, <2>5 DEF DeliveryOf
  <2> QED BY <2>1, <2>2, <2>5, <2>6, DeliveryKept
<1>3. history' = [history EXCEPT ![k] = m] /\ UNCHANGED <<now, thread, run, session, refused, pass>>
  BY <1>1 DEF Deliver
<1> HIDE DEF k, m, h, d
<1>4. /\ history' \in Seq(Message) /\ Len(history') = Len(history) /\ DOMAIN history' = DOMAIN history
      /\ history'[k] = m /\ \A i \in DOMAIN history : i # k => history'[i] = history[i]
  BY <1>1, <1>2, <1>3, ExceptElements DEF TypeOK, HistoryOK
<1>5. HistoryStep
  <2>1. \A i \in DOMAIN history : Kept(history[i], history[i])
    <3>1. \A i \in DOMAIN history : history[i].heard \in Nat
      BY HistoryElements, MessageFields DEF TypeOK
    <3> QED BY <3>1 DEF Kept
  <2>2. \A i \in DOMAIN history : Kept(history[i], history'[i])
    BY <1>2, <1>4, <2>1
  <2> QED BY <1>4, <2>2, HistoryElements DEF HistoryStep, HistoryKept, TypeOK
<1>6. PassOK'
  BY <1>3, PassUnmoved DEF TypeOK
<1> QED BY <1>3, <1>4, <1>5, <1>6 DEF TypeOK, HistoryOK, ThreadOK, TargetsOK, ThreadKept

LEMMA EndRunTyped ==
    ASSUME TypeOK, NEW completed \in BOOLEAN, EndRun(completed)
    PROVE  TypeOK' /\ HistoryStep /\ ThreadKept
<1> DEFINE d == IF completed THEN "undelivered" ELSE "rejected"
           as(i) == [history[i] EXCEPT !.delivery = d]
           f == [i \in DOMAIN history |->
                    IF i \notin Pending THEN history[i] ELSE as(i)]
<1>1. history' = f /\ run' = [run EXCEPT !.active = FALSE] /\ UNCHANGED <<now, thread, session, refused, pass>>
  BY DEF EndRun
<1>2. /\ d \in Deliveries /\ d # "delivered"
      /\ \A i \in Pending : d = "undelivered" => history[i].kind = "clarification"
  BY DEF Deliveries, EndRun
<1> HIDE DEF d
<1>3. ASSUME NEW i \in DOMAIN history
      PROVE  f[i] \in Message /\ Kept(history[i], f[i])
  <2>1. history[i] \in Message
    BY HistoryElements DEF TypeOK
  <2>2. CASE i \notin Pending
    <3>1. history[i].heard \in Nat
      BY <2>1, MessageFields
    <3> QED BY <2>1, <2>2, <3>1 DEF Kept
  <2>3. CASE i \in Pending
    <3>1. PICK p \in Message : p = history[i]
      BY <2>1
    <3>2. /\ p.delivery = "pending" /\ p.heard \in Nat /\ p.items \in Seq(Items) /\ Len(p.items) \in Nat
          /\ p.heard < Len(p.items) /\ p \in Records /\ (d = "undelivered" => p.kind = "clarification")
      <4>1. p.heard \in Nat /\ p.items \in Seq(Items) /\ Sound(p) /\ p \in Records
        BY MessageFields DEF Message
      <4>2. Len(p.items) \in Nat
        BY <4>1
      <4> QED BY <1>2, <2>3, <3>1, <4>1, <4>2 DEF Sound, Pending
    <3>3. as(i) = [p EXCEPT !.delivery = d]
      BY <3>1
    <3> HIDE DEF as
    <3>4. /\ as(i) \in Records /\ as(i).heard = p.heard /\ as(i).delivery = d
          /\ as(i).items = p.items /\ as(i).triggers = p.triggers /\ as(i).versions = p.versions
          /\ as(i).kind = p.kind /\ as(i).anchor = p.anchor /\ as(i).contexts = p.contexts
          /\ as(i).omitted = p.omitted /\ as(i).pred = p.pred
      BY ONLY <1>2, <3>2, <3>3 DEF Records
    <3>5. DeliveryOf(p, as(i))
      BY <1>2, <3>2, <3>4 DEF DeliveryOf
    <3>6. as(i) \in Message /\ Kept(history[i], as(i))
      BY <3>1, <3>2, <3>4, <3>5, DeliveryKept
    <3> QED BY <2>3, <3>6
  <2> QED BY <2>2, <2>3
<1>4. DOMAIN f = 1 .. Len(history) /\ Len(history) \in Nat /\ f \in [1 .. Len(history) -> Message]
  BY <1>3, HistoryElements DEF TypeOK
<1> HIDE DEF f
<1>5. f \in Seq(Message) /\ Len(f) = Len(history)
  BY <1>4
<1>6. HistoryStep
  <2>1. DOMAIN history' = DOMAIN history /\ Len(history') = Len(history)
    BY <1>1, <1>4, <1>5, HistoryElements DEF TypeOK
  <2>2. \A i \in DOMAIN history : Kept(history[i], history'[i])
    BY <1>1, <1>3
  <2>3. Len(history) <= Len(history')
    BY <1>4, <2>1
  <2> QED BY <2>1, <2>2, <2>3 DEF HistoryStep, HistoryKept
<1>7. PassOK'
  BY <1>1, PassUnmoved DEF TypeOK
<1>8. TargetsOK'
  BY <1>1 DEF TypeOK, TargetsOK
<1> QED BY <1>1, <1>5, <1>6, <1>7, <1>8 DEF TypeOK, HistoryOK, ThreadOK, ThreadKept

LEMMA PageLatest ==
    ASSUME ThreadOK, Page # {}
    PROVE  LET c == CHOOSE p \in Page : \A q \in Page \ {p} : Before(q, p)
           IN  c \in Page /\ c \in DOMAIN thread /\ \A q \in Page \ {c} : Before(q, c)
<1>1. Page \subseteq DOMAIN thread
  BY DEF Page, Rest, LivePosts
<1>2. \E p \in Page : \A q \in Page \ {p} : Before(q, p)
  BY <1>1, LatestOf
<1> QED BY <1>1, <1>2

LEMMA ReadPageIs ==
    ASSUME TypeOK, ReadPage
    PROVE  LET c == IF Page = {} THEN pass.cursor ELSE CHOOSE p \in Page : \A q \in Page \ {p} : Before(q, p)
               g == [p \in Got \cup Page \cup {Root} |-> IF p \in Got THEN pass.got[p] ELSE thread[p].ver]
           IN  /\ pass' = [pass EXCEPT !.got = g, !.cursor = c, !.pc = IF Page = Rest THEN "done" ELSE "paging"]
               /\ pass'.got = g /\ pass'.cursor = c /\ pass'.pc = IF Page = Rest THEN "done" ELSE "paging"
               /\ pass'.start = pass.start /\ pass'.snap = pass.snap
               /\ Got' = Got \cup Page \cup {Root}
<1> DEFINE c == IF Page = {} THEN pass.cursor ELSE CHOOSE p \in Page : \A q \in Page \ {p} : Before(q, p)
           g == [p \in Got \cup Page \cup {Root} |-> IF p \in Got THEN pass.got[p] ELSE thread[p].ver]
           s == IF Page = Rest THEN "done" ELSE "paging"
<1>1. pass' = [pass EXCEPT !.got = g, !.cursor = c, !.pc = s]
  BY DEF ReadPage
<1>2. DOMAIN g = Got \cup Page \cup {Root}
  OBVIOUS
<1> HIDE DEF c, g, s
<1>3. /\ pass'.got = g /\ pass'.cursor = c /\ pass'.pc = s
      /\ pass'.start = pass.start /\ pass'.snap = pass.snap
  BY <1>1 DEF TypeOK, PassOK
<1>4. Got' = Got \cup Page \cup {Root}
  BY <1>2, <1>3 DEF Got
<1> QED BY <1>1, <1>3, <1>4 DEF c, g, s

LEMMA ReadPageTyped ==
    ASSUME TypeOK, ReadPage
    PROVE  TypeOK' /\ HistoryStep /\ ThreadKept
<1> DEFINE c == IF Page = {} THEN pass.cursor ELSE CHOOSE p \in Page : \A q \in Page \ {p} : Before(q, p)
           g == [p \in Got \cup Page \cup {Root} |-> IF p \in Got THEN pass.got[p] ELSE thread[p].ver]
           s == IF Page = Rest THEN "done" ELSE "paging"
<1>1. UNCHANGED <<now, thread, history, run, session, refused>>
  BY DEF ReadPage
<1>2. /\ pass' = [pass EXCEPT !.got = g, !.cursor = c, !.pc = s]
      /\ pass'.cursor = c /\ pass'.start = pass.start /\ Got' = Got \cup Page \cup {Root}
  BY ReadPageIs
<1>3. c \in DOMAIN thread
  BY PageLatest DEF TypeOK, PassOK
<1>4. /\ Got \cup Page \cup {Root} \subseteq DOMAIN thread /\ DOMAIN thread \subseteq Ids
      /\ \A p \in DOMAIN thread : thread[p].ver \in Nat
  BY DEF Page, Rest, LivePosts, TypeOK, ThreadOK, PassOK, PostState
<1>5. g \in Readings
  <2>1. g \in [Got \cup Page \cup {Root} -> Nat]
    BY <1>4, PostsRead DEF TypeOK
  <2>2. Got \cup Page \cup {Root} \in SUBSET Ids
    BY <1>4
  <2> HIDE DEF g
  <2> QED BY <2>1, <2>2 DEF Readings
<1>6. s \in {"idle", "paging", "done"}
  OBVIOUS
<1> HIDE DEF c, g, s
<1>7. pass' \in [pc : {"idle", "paging", "done"}, start : SUBSET Ids, got : Readings, cursor : Ids,
                 snap : Seq(Message), run : [n : Nat, active : BOOLEAN], initial : BOOLEAN]
  BY <1>2, <1>3, <1>4, <1>5, <1>6 DEF TypeOK, PassOK
<1>8. PassOK'
  BY <1>1, <1>2, <1>3, <1>4, <1>7 DEF TypeOK, PassOK
<1>9. HistoryStep
  BY <1>1, Unmoved DEF TypeOK
<1> QED BY <1>1, <1>8, <1>9 DEF TypeOK, HistoryOK, ThreadOK, TargetsOK, ThreadKept

LEMMA NoPassTyped ==
           /\ NoPass \in [pc : {"idle", "paging", "done"}, start : SUBSET Ids, got : Readings, cursor : Ids,
                          snap : Seq(Message), run : [n : Nat, active : BOOLEAN], initial : BOOLEAN]
           /\ NoPass.pc = "idle" /\ NoPass.start = {} /\ NoPass.cursor = Root /\ NoPass.snap = <<>>
           /\ DOMAIN NoPass.got = {}
<1>1. NothingRead \in Readings /\ DOMAIN NothingRead = {}
  <2>1. NothingRead \in [{} -> Nat] /\ {} \in SUBSET Ids
    BY DEF NothingRead
  <2> QED BY <2>1 DEF Readings, NothingRead
<1>2. <<>> \in Seq(Message) /\ [n |-> 0, active |-> FALSE] \in [n : Nat, active : BOOLEAN]
  OBVIOUS
<1> DEFINE none == <<>>
           still == [n |-> 0, active |-> FALSE]
<1>3. NoPass = [pc |-> "idle", start |-> {}, got |-> NothingRead, cursor |-> Root,
                snap |-> none, run |-> still, initial |-> FALSE]
  BY DEF NoPass
<1>4. none \in Seq(Message) /\ still \in [n : Nat, active : BOOLEAN]
  BY <1>2
<1> HIDE DEF none, still
<1>5. /\ NoPass.pc = "idle" /\ NoPass.start = {} /\ NoPass.cursor = Root /\ NoPass.snap = none
      /\ NoPass.got = NothingRead
  BY <1>3
<1>6. NoPass \in [pc : {"idle", "paging", "done"}, start : SUBSET Ids, got : Readings, cursor : Ids,
                  snap : Seq(Message), run : [n : Nat, active : BOOLEAN], initial : BOOLEAN]
  BY <1>1, <1>3, <1>4, Constants
<1> QED BY <1>1, <1>5, <1>6 DEF none

LEMMA PassEnded ==
    ASSUME ThreadOK', pass' = NoPass
    PROVE  PassOK'
<1>1. Root \in DOMAIN thread'
  BY DEF ThreadOK
<1>2. /\ NoPass \in [pc : {"idle", "paging", "done"}, start : SUBSET Ids, got : Readings, cursor : Ids,
                     snap : Seq(Message), run : [n : Nat, active : BOOLEAN], initial : BOOLEAN]
      /\ NoPass.start = {} /\ NoPass.cursor = Root /\ DOMAIN NoPass.got = {}
  BY NoPassTyped
<1> QED BY <1>1, <1>2 DEF PassOK, Got

LEMMA EndPassTyped ==
    ASSUME TypeOK, EndPass
    PROVE  TypeOK' /\ HistoryStep /\ ThreadKept
<1>1. /\ TargetsOK' /\ refused' \in SUBSET (Nat \X Nat)
      /\ \/ history' = history
         \/ \E m \in Message : Proper(m) /\ history' = Append(history, m)
  BY EndPassAdds DEF TypeOK, HistoryOK
<1>2. UNCHANGED <<now, thread>> /\ pass' = NoPass
  BY DEF EndPass
<1>3. ThreadOK' /\ ThreadKept
  BY <1>2 DEF TypeOK, ThreadOK, ThreadKept
<1>4. PassOK'
  BY <1>2, <1>3, PassEnded
<1>5. CASE history' = history
  BY <1>1, <1>3, <1>4, <1>5, Unmoved DEF TypeOK, HistoryOK
<1>6. ASSUME NEW m \in Message, Proper(m), history' = Append(history, m)
      PROVE  HistoryOK' /\ HistoryStep
  <2>1. /\ history' \in Seq(Message) /\ Len(history') = Len(history) + 1
        /\ DOMAIN history' = DOMAIN history \cup {Len(history) + 1}
        /\ \A i \in DOMAIN history : history'[i] = history[i]
    BY <1>6, AppendElements DEF TypeOK, HistoryOK
  <2>2. HistoryKept
    <3>1. \A i \in DOMAIN history : history[i].heard \in Nat
      BY HistoryElements, MessageFields DEF TypeOK
    <3> QED BY <2>1, <3>1, HistoryElements DEF HistoryKept, Kept, TypeOK
  <2> QED BY <1>1, <1>6, <2>1, <2>2 DEF HistoryStep, HistoryOK
<1> QED BY <1>1, <1>3, <1>4, <1>5, <1>6 DEF TypeOK

LEMMA StepTyped ==
    ASSUME TypeOK, [Next]_vars
    PROVE  TypeOK' /\ HistoryStep /\ ThreadKept
<1>1. CASE UNCHANGED vars
  <2>1. UNCHANGED <<now, thread, history, run, session, refused, pass>>
    BY <1>1 DEF vars
  <2>2. HistoryStep
    BY <2>1, Unmoved DEF TypeOK
  <2>3. PassOK'
    BY <2>1, PassUnmoved DEF TypeOK
  <2> QED BY <2>1, <2>2, <2>3 DEF TypeOK, ThreadOK, TargetsOK, HistoryOK, ThreadKept
<1> QED BY <1>1, WriteTyped, EditTyped, OthersTyped, DeliverTyped, EndRunTyped, ReadPageTyped, EndPassTyped
        DEF Next

LEMMA InitTyped == Init => TypeOK
<1> SUFFICES ASSUME Init PROVE TypeOK
  OBVIOUS
<1> DEFINE x == [at |-> 0, ver |-> 0, live |-> TRUE]
<1>1. /\ now = 0 /\ thread = [p \in {Root} |-> x] /\ history = <<>> /\ refused = {}
      /\ run = [n |-> 0, active |-> FALSE] /\ session = [n |-> 0, usable |-> FALSE] /\ pass = NoPass
  BY DEF Init
<1>2. x \in PostState /\ x.at = 0
  BY DEF PostState
<1> HIDE DEF x
<1>3. ThreadOK
  BY <1>1, <1>2, Constants DEF ThreadOK
<1>4. PassOK
  BY <1>1, <1>3, NoPassTyped DEF PassOK, Got, ThreadOK
<1>5. HistoryOK /\ TargetsOK
  BY <1>1 DEF HistoryOK, TargetsOK
<1> QED BY <1>3, <1>4, <1>5 DEF TypeOK

(* The connector's reading of a thread and Orpheus' record of it have their
   types; posts keep their time and none is older than the root.            *)
THEOREM TypeCorrect == Spec => []TypeOK
<1>1. TypeOK /\ [Next]_vars => TypeOK'
  BY StepTyped
<1> QED BY InitTyped, <1>1, PTL DEF Spec

-----------------------------------------------------------------------------
(* Reading page by page: what was there at the start and still is was read,
   or is still to come.                                                     *)

ToCome ==
    pass.pc = "paging" =>
        \A p \in pass.start \cap LivePosts : p \in Got \/ p = Root \/ p \in Rest
Reading == ToCome /\ ReadWhole

LEMMA ReadingKept ==
    ASSUME TypeOK, Reading, ThreadKept, pass' = pass
    PROVE  Reading'
<1>1. pass.start \subseteq DOMAIN thread /\ pass.cursor \in DOMAIN thread
  BY DEF TypeOK, PassOK
<1>2. \A p \in pass.start : p \in LivePosts' => p \in LivePosts
  BY <1>1 DEF ThreadKept, LivePosts, Live
<1>3. \A p \in pass.start : p \in LivePosts' /\ p \in Rest => p \in Rest'
  BY <1>1 DEF ThreadKept, Rest, Before
<1>4. ASSUME pass.pc = "paging", NEW p \in pass.start, p \in LivePosts'
      PROVE  p \in Got' \/ p = Root \/ p \in Rest'
  BY <1>2, <1>3, <1>4 DEF Reading, ToCome, Got
<1>5. ToCome'
  BY <1>4 DEF ToCome
<1>6. ReadWhole'
  BY <1>2 DEF Reading, ReadWhole, Got
<1> QED BY <1>5, <1>6 DEF Reading

LEMMA StartReading ==
    ASSUME TypeOK, StartPass
    PROVE  Reading'
<1>1. pass' = [pc |-> "paging", start |-> LivePosts, got |-> NothingRead, cursor |-> Root,
               snap |-> history, run |-> run, initial |-> ~run.active /\ ~session.usable]
      /\ thread' = thread
  BY DEF StartPass
<1>2. pass'.pc = "paging" /\ pass'.cursor = Root
  BY <1>1
<1>3. ASSUME NEW p \in LivePosts, p # Root PROVE p \in Rest'
  <2>1. p \in DOMAIN thread /\ p \in LivePosts'
    BY <1>1 DEF LivePosts, Live
  <2>2. Root < p /\ thread[Root].at <= thread[p].at
    BY <1>3, <2>1, Constants DEF TypeOK, ThreadOK
  <2>3. thread[Root].at < thread[p].at \/ thread[Root].at = thread[p].at
    BY <2>1, <2>2 DEF TypeOK, ThreadOK, PostState
  <2>4. Before(pass.cursor, p)'
    BY <1>1, <1>2, <2>2, <2>3 DEF Before
  <2> QED BY <1>3, <2>1, <2>4 DEF Rest
<1>4. LivePosts' = LivePosts
  BY <1>1 DEF LivePosts, Live
<1> QED BY <1>2, <1>3, <1>4 DEF Reading, ToCome, ReadWhole

(* A page has the first posts of the rest, so the next one begins after its
   latest.                                                                  *)
LEMMA PageFirst ==
    ASSUME TypeOK, NEW p \in Rest \ Page, NEW q \in Page
    PROVE  Before(q, p)
<1>1. Rest \subseteq DOMAIN thread /\ q \in Rest /\ p \in Rest
  BY DEF Page, Rest, LivePosts
<1>2. Rank(Rest, q) < PageSize /\ ~(Rank(Rest, p) < PageSize) /\ p # q
  BY DEF Page
<1>3. Before(p, q) => Rank(Rest, p) < Rank(Rest, q)
  BY <1>1, RankOrders DEF TypeOK
<1>4. Rank(Rest, p) \in Int /\ Rank(Rest, q) \in Int /\ PageSize \in Int
  <2>1. Rank(Rest, p) \in Int /\ Rank(Rest, q) \in Int
    BY <1>1, RankBounded, PostsFinite DEF TypeOK
  <2> QED BY <2>1, ContextAssumption
<1> QED BY <1>1, <1>2, <1>3, <1>4, BeforeOrder DEF TypeOK

LEMMA ReadPageReads ==
    ASSUME TypeOK, Reading, ReadPage
    PROVE  Reading'
<1> DEFINE c == IF Page = {} THEN pass.cursor ELSE CHOOSE p \in Page : \A q \in Page \ {p} : Before(q, p)
<1>1. /\ pass.pc = "paging" /\ thread' = thread
      /\ pass'.cursor = c /\ pass'.pc = (IF Page = Rest THEN "done" ELSE "paging")
      /\ pass'.start = pass.start /\ Got' = Got \cup Page \cup {Root}
  BY ReadPageIs DEF ReadPage
<1>2. LivePosts' = LivePosts
  BY <1>1 DEF LivePosts, Live
<1>3. Page # {} => c \in Page
  BY PageLatest DEF TypeOK
<1> HIDE DEF c
<1>4. ASSUME NEW p \in Rest \ Page, Page # {} PROVE p \in Rest'
  <2>1. Before(c, p)
    BY <1>3, <1>4, PageFirst
  <2> QED BY <1>1, <1>2, <1>4, <2>1 DEF Rest, Before
<1>5. ASSUME NEW p \in Rest, Page = {} PROVE p \in Rest'
  <2>1. c = pass.cursor
    BY <1>5 DEF c
  <2> QED BY <1>1, <1>2, <1>5, <2>1 DEF Rest, Before
<1>6. \A p \in pass.start \cap LivePosts : p \in Got' \/ p \in Rest \ Page
  BY <1>1 DEF Reading, ToCome
<1>7. ToCome'
  BY <1>1, <1>2, <1>4, <1>5, <1>6 DEF ToCome
<1>8. ReadWhole'
  BY <1>1, <1>2, <1>6 DEF ReadWhole
<1> QED BY <1>7, <1>8 DEF Reading

LEMMA ReadingStep == TypeOK /\ Reading /\ [Next]_vars => Reading'
<1> SUFFICES ASSUME TypeOK, Reading, [Next]_vars PROVE Reading'
  OBVIOUS
<1>1. ThreadKept
  BY StepTyped
<1>2. CASE pass' = pass
  BY <1>1, <1>2, ReadingKept
<1>3. CASE EndPass
  <2>1. pass'.pc = "idle"
    BY <1>3, NoPassTyped DEF EndPass
  <2> QED BY <2>1 DEF Reading, ToCome, ReadWhole
<1>4. pass' = pass \/ StartPass \/ ReadPage \/ EndPass
  BY DEF Next, vars, Write, Edit, Delete, Tick, Deliver, SessionLost, EndRun
<1> QED BY <1>2, <1>3, <1>4, StartReading, ReadPageReads

(* A thread that was read page by page has every post that was there when
   the reading began and still is, however long the pages, whatever is
   written, edited and deleted between them.                                *)
THEOREM ReadsWhole == Spec => []ReadWhole
<1>1. Init => Reading
  <2> SUFFICES ASSUME Init PROVE Reading
    OBVIOUS
  <2>1. pass.pc = "idle"
    BY NoPassTyped DEF Init
  <2> QED BY <2>1 DEF Reading, ToCome, ReadWhole
<1>2. TypeOK /\ [Next]_vars => TypeOK'
  BY StepTyped
<1>3. Reading => ReadWhole
  BY DEF Reading
<1> QED BY InitTyped, ReadingStep, <1>1, <1>2, <1>3, PTL DEF Spec

-----------------------------------------------------------------------------
(* What requests say.  A version a message names is said with its text in the
   message itself, or an earlier one had it in an item that was heard: one that
   is carried over takes with it what was not heard of it.                  *)

Said(i, p, v) ==
    \E k \in DOMAIN history[i].items :
        /\ history[i].items[k].post = p /\ history[i].items[k].text /\ history[i].items[k].ver = v
Heard(i, p, v) ==
    \E k \in 1 .. history[i].heard :
        /\ history[i].items[k].post = p /\ history[i].items[k].text /\ history[i].items[k].ver = v
Given(i, p, v) == \E j \in 1 .. (i - 1) : Heard(j, p, v)

Recalled ==
    /\ Len(pass.snap) <= Len(history)
    /\ \A i \in DOMAIN pass.snap : i \in DOMAIN history /\ Kept(pass.snap[i], history[i])
VersionOK(i, v) == Said(i, v[1], v[2]) \/ Given(i, v[1], v[2])
MentionOK(i, x) == ~x.text => Given(i, x.post, x.ver)
TurnOK(i, x) ==
    x.text /\ ~x.linked /\ Kind[x.post] = "trigger" => \E j \in 1 .. i : x.post \in history[j].triggers
VersionsSaid == \A i \in DOMAIN history : \A v \in history[i].versions : VersionOK(i, v)
MentionsKnown == \A i \in DOMAIN history : \A k \in DOMAIN history[i].items : MentionOK(i, history[i].items[k])
TakenInTurn == \A i \in DOMAIN history : \A k \in DOMAIN history[i].items : TurnOK(i, history[i].items[k])

Consistent == Recalled /\ VersionsSaid /\ MentionsKnown /\ TakenInTurn

LEMMA SaidStays ==
    ASSUME TypeOK, HistoryKept, NEW i \in DOMAIN history, NEW p, NEW v, Said(i, p, v)
    PROVE  Said(i, p, v)'
<1>1. history'[i].items = history[i].items
  BY DEF HistoryKept, Kept
<1> QED BY <1>1 DEF Said

LEMMA HeardStays ==
    ASSUME TypeOK, HistoryKept, NEW i \in DOMAIN history, NEW p, NEW v, Heard(i, p, v)
    PROVE  Heard(i, p, v)'
<1>1. /\ history'[i].items = history[i].items /\ history[i].heard <= history'[i].heard
      /\ history'[i].heard \in Nat
  BY DEF HistoryKept, Kept
<1>2. history[i].heard \in Nat
  BY HistoryElements, MessageFields DEF TypeOK
<1>3. PICK k \in 1 .. history[i].heard :
         /\ history[i].items[k].post = p /\ history[i].items[k].text /\ history[i].items[k].ver = v
  BY DEF Heard
<1>4. k \in 1 .. history'[i].heard
  BY <1>1, <1>2
<1> QED BY <1>1, <1>3, <1>4 DEF Heard

LEMMA GivenStays ==
    ASSUME TypeOK, HistoryKept, NEW i \in 1 .. (Len(history) + 1), NEW p, NEW v, Given(i, p, v)
    PROVE  Given(i, p, v)'
<1>1. PICK j \in 1 .. (i - 1) : Heard(j, p, v)
  BY DEF Given
<1>2. j \in DOMAIN history
  BY HistoryElements DEF TypeOK
<1>3. Heard(j, p, v)'
  BY <1>1, <1>2, HeardStays
<1> QED BY <1>3 DEF Given

(* What a delivered message says was heard.                                 *)
LEMMA DeliveredHeard ==
    ASSUME TypeOK, NEW i \in DOMAIN history, history[i].delivery = "delivered", NEW p, NEW v, Said(i, p, v)
    PROVE  Heard(i, p, v)
<1>1. history[i].items \in Seq(Items) /\ Sound(history[i])
  BY HistoryElements, MessageFields DEF TypeOK
<1>2. DOMAIN history[i].items = 1 .. Len(history[i].items)
  BY <1>1
<1>3. DOMAIN history[i].items = 1 .. history[i].heard
  BY <1>1, <1>2 DEF Sound
<1> QED BY <1>3 DEF Said, Heard

LEMMA GivenLater ==
    ASSUME TypeOK, NEW i \in DOMAIN history, NEW n \in Nat, i <= n, NEW p, NEW v, Given(i, p, v)
    PROVE  Given(n, p, v)
<1>1. PICK j \in 1 .. (i - 1) : Heard(j, p, v)
  BY DEF Given
<1>2. j \in 1 .. (n - 1)
  BY HistoryElements DEF TypeOK
<1> QED BY <1>1, <1>2 DEF Given

(* A version taken as told was named by a message that reached the agent,
   and said by it or by an earlier one.                                     *)
LEMMA ToldNamed ==
    ASSUME TypeOK, Consistent, NEW p, NEW v \in Nat, VersionTold(p) = v
    PROVE  \E j \in DOMAIN history : /\ history[j].delivery = "delivered"
                                      /\ <<p, v>> \in history[j].versions
<1> DEFINE naming == {i \in Delivered : \E w \in pass.snap[i].versions : w[1] = p}
           j == Max(naming)
<1>1. naming # {}
  <2>1. naming = {} => VersionTold(p) = None
    BY DEF VersionTold
  <2> QED BY <2>1, Constants
<1>2. VersionTold(p) = (CHOOSE w \in pass.snap[j].versions : w[1] = p)[2]
  BY <1>1 DEF VersionTold
<1>3. naming \subseteq DOMAIN pass.snap /\ naming \subseteq 0 .. Len(pass.snap) /\ Len(pass.snap) \in Nat
  BY SnapElements DEF Delivered, TypeOK
<1>4. j \in naming
  <2> HIDE DEF naming
  <2> QED BY <1>1, <1>3, MaxOfBounded
<1> HIDE DEF j
<1>5. /\ j \in DOMAIN pass.snap /\ pass.snap[j].delivery = "delivered"
      /\ \E w \in pass.snap[j].versions : w[1] = p
  BY <1>3, <1>4 DEF Delivered
<1>6. PICK w \in pass.snap[j].versions : w[1] = p /\ w[2] = v
  BY <1>2, <1>5
<1>7. /\ j \in DOMAIN history /\ history[j].versions = pass.snap[j].versions
      /\ history[j].delivery = "delivered"
  BY <1>5 DEF Consistent, Recalled, Kept
<1>8. w = <<p, v>>
  <2>1. history[j].versions \subseteq Nat \X Nat
    BY <1>7, HistoryElements, MessageFields DEF TypeOK
  <2> QED BY <1>6, <1>7, <2>1
<1> QED BY <1>6, <1>7, <1>8

LEMMA ToldSaid ==
    ASSUME TypeOK, Consistent, NEW p, NEW v \in Nat, VersionTold(p) = v
    PROVE  Given(Len(history) + 1, p, v)
<1>1. PICK j \in DOMAIN history : history[j].delivery = "delivered" /\ <<p, v>> \in history[j].versions
  BY ToldNamed
<1>2. VersionOK(j, <<p, v>>)
  BY <1>1 DEF Consistent, VersionsSaid
<1>3. Said(j, p, v) \/ Given(j, p, v)
  BY <1>2 DEF VersionOK
<1>4. j \in 1 .. Len(history) /\ Len(history) \in Nat
  BY <1>1, HistoryElements DEF TypeOK
<1>5. CASE Said(j, p, v)
  <2>1. j \in 1 .. (Len(history) + 1 - 1)
    BY <1>4
  <2>2. Heard(j, p, v)
    BY <1>1, <1>5, DeliveredHeard
  <2> QED BY <2>1, <2>2 DEF Given
<1>6. CASE Given(j, p, v)
  <2>1. Len(history) + 1 \in Nat /\ j <= Len(history) + 1
    BY <1>4
  <2> QED BY <1>1, <1>6, <2>1, GivenLater
<1> QED BY <1>3, <1>5, <1>6

(* What a proper message mentions was given before it.                      *)
LEMMA ProperMentions ==
    ASSUME TypeOK, Consistent, NEW m \in Message, Proper(m), NEW k \in DOMAIN m.items, ~m.items[k].text
    PROVE  Given(Len(history) + 1, m.items[k].post, m.items[k].ver)
<1> DEFINE x == m.items[k]
<1>1. ItemProper(x, m.triggers) /\ ~x.text
  BY DEF Proper, Composed
<1> HIDE DEF x
<1>2. CASE x \in LinkedItems
  <2>1. x.ver \in Nat /\ VersionTold(x.post) = x.ver
    BY <1>1, <1>2 DEF LinkedItems, Items
  <2>2. Given(Len(history) + 1, x.post, x.ver)
    BY <2>1, ToldSaid
  <2> QED BY <2>2 DEF x
<1>3. CASE \E i \in DOMAIN pass.snap : \E l \in DOMAIN pass.snap[i].items : x = pass.snap[i].items[l]
  <2>1. PICK i \in DOMAIN pass.snap : \E l \in DOMAIN pass.snap[i].items : x = pass.snap[i].items[l]
    BY <1>3
  <2>2. i \in DOMAIN history /\ history[i].items = pass.snap[i].items
    BY DEF Consistent, Recalled, Kept
  <2>3. Given(i, x.post, x.ver)
    BY <1>1, <2>1, <2>2 DEF Consistent, MentionsKnown, MentionOK
  <2>4. Len(history) + 1 \in Nat /\ i <= Len(history) + 1
    BY <2>2, HistoryElements DEF TypeOK
  <2>5. Given(Len(history) + 1, x.post, x.ver)
    BY <2>2, <2>3, <2>4, GivenLater
  <2> QED BY <2>5 DEF x
<1> QED BY <1>1, <1>2, <1>3 DEF ItemProper

LEMMA Appended ==
    ASSUME TypeOK, NEW m \in Message, history' = Append(history, m), NEW n, n = Len(history) + 1
    PROVE  /\ n \in Nat /\ n \in 1 .. (Len(history) + 1) /\ DOMAIN history' = DOMAIN history \cup {n}
           /\ n \notin DOMAIN history /\ history'[n] = m
           /\ \A j \in DOMAIN history : j \in 1 .. n
BY HistoryElements, AppendElements DEF TypeOK, HistoryOK

LEMMA AppendedMentions ==
    ASSUME TypeOK, Consistent, HistoryKept, NEW m \in Message, Proper(m), history' = Append(history, m),
           NEW n, n = Len(history) + 1, NEW k \in DOMAIN m.items
    PROVE  MentionOK(n, m.items[k])'
<1>1. ASSUME ~m.items[k].text
      PROVE  Given(n, m.items[k].post, m.items[k].ver)'
  <2>1. Given(n, m.items[k].post, m.items[k].ver)
    BY <1>1, ProperMentions
  <2>2. n \in 1 .. (Len(history) + 1)
    BY Appended
  <2> QED BY <2>1, <2>2, GivenStays
<1> QED BY <1>1 DEF MentionOK

LEMMA AppendedVersions ==
    ASSUME TypeOK, Consistent, HistoryKept, NEW m \in Message, Proper(m), history' = Append(history, m),
           NEW n, n = Len(history) + 1, NEW v \in m.versions
    PROVE  VersionOK(n, v)'
<1>1. n \in Nat /\ n \in 1 .. (Len(history) + 1) /\ history'[n] = m /\ \A j \in DOMAIN history : j \in 1 .. n
  BY Appended
<1>2. ASSUME NEW k \in DOMAIN m.items, m.items[k].post = v[1], m.items[k].ver = v[2]
      PROVE  VersionOK(n, v)'
  <2>1. CASE m.items[k].text
    <3>1. Said(n, v[1], v[2])'
      BY <1>1, <1>2, <2>1 DEF Said
    <3> QED BY <3>1 DEF VersionOK
  <2>2. CASE ~m.items[k].text
    <3>1. Given(n, v[1], v[2])
      BY <1>2, <2>2, ProperMentions
    <3>2. Given(n, v[1], v[2])'
      BY <1>1, <3>1, GivenStays
    <3> QED BY <3>2 DEF VersionOK
  <2> QED BY <2>1, <2>2
<1>3. VersionProper(v, m.items)
  BY DEF Proper, Composed
<1>4. CASE \E k \in DOMAIN m.items : v = <<m.items[k].post, m.items[k].ver>>
  <2>1. PICK k \in DOMAIN m.items : v = <<m.items[k].post, m.items[k].ver>>
    BY <1>4
  <2>2. m.items[k].post = v[1] /\ m.items[k].ver = v[2]
    BY <2>1
  <2> QED BY <1>2, <2>2
<1>5. CASE \E i \in DOMAIN pass.snap : v \in pass.snap[i].versions /\ Holds(m.items, i)
  <2>1. PICK i \in DOMAIN pass.snap : v \in pass.snap[i].versions /\ Holds(m.items, i)
    BY <1>5
  <2>2. /\ i \in DOMAIN history /\ history[i].versions = pass.snap[i].versions
        /\ history[i].items = pass.snap[i].items
    BY DEF Consistent, Recalled, Kept
  <2>3. CASE Said(i, v[1], v[2])
    <3>1. PICK l \in DOMAIN history[i].items :
               /\ history[i].items[l].post = v[1] /\ history[i].items[l].text /\ history[i].items[l].ver = v[2]
      BY <2>3 DEF Said
    <3>2. /\ l \in Nat /\ 1 <= l /\ pass.snap[i].heard \in Nat /\ history[i].heard \in Nat
          /\ pass.snap[i].heard <= history[i].heard
      <4>1. history[i].items \in Seq(Items) /\ pass.snap[i].heard \in Nat
        BY <2>2, HistoryElements, SnapElements, MessageFields DEF TypeOK
      <4>2. l \in Nat /\ 1 <= l
        BY <3>1, <4>1
      <4> QED BY <4>1, <4>2 DEF Consistent, Recalled, Kept
    <3>3. CASE pass.snap[i].heard < l
      <4>1. PICK k \in DOMAIN m.items : m.items[k] = history[i].items[l]
        BY <2>1, <2>2, <3>1, <3>3 DEF Holds
      <4> QED BY <1>2, <3>1, <4>1
    <3>4. CASE ~(pass.snap[i].heard < l)
      <4>1. l \in 1 .. history[i].heard
        BY <3>2, <3>4
      <4>2. Heard(i, v[1], v[2])
        BY <3>1, <4>1 DEF Heard
      <4>3. i \in 1 .. (n - 1)
        BY <2>2, HistoryElements DEF TypeOK
      <4>4. Given(n, v[1], v[2])
        BY <4>2, <4>3 DEF Given
      <4>5. Given(n, v[1], v[2])'
        BY <1>1, <4>4, GivenStays
      <4> QED BY <4>5 DEF VersionOK
    <3> QED BY <3>3, <3>4
  <2>4. CASE Given(i, v[1], v[2])
    <3>1. i <= n
      BY <1>1, <2>2
    <3>2. Given(n, v[1], v[2])
      BY <1>1, <2>2, <2>4, <3>1, GivenLater
    <3>3. Given(n, v[1], v[2])'
      BY <1>1, <3>2, GivenStays
    <3> QED BY <3>3 DEF VersionOK
  <2> QED BY <2>1, <2>2, <2>3, <2>4 DEF Consistent, VersionsSaid, VersionOK
<1> QED BY <1>3, <1>4, <1>5 DEF VersionProper

LEMMA AppendedInTurn ==
    ASSUME TypeOK, Consistent, HistoryKept, NEW m \in Message, Proper(m), history' = Append(history, m),
           NEW n, n = Len(history) + 1, NEW k \in DOMAIN m.items
    PROVE  TurnOK(n, m.items[k])'
<1> DEFINE x == m.items[k]
<1>1. n \in Nat /\ n \in 1 .. n /\ history'[n] = m /\ \A j \in DOMAIN history : j \in 1 .. n
  BY Appended, HistoryElements DEF TypeOK
<1>2. \A j \in DOMAIN history : history'[j].triggers = history[j].triggers
  BY DEF HistoryKept, Kept
<1>3. ItemProper(x, m.triggers)
  BY DEF Proper, Composed
<1> HIDE DEF x
<1>4. ASSUME x.text, ~x.linked, Kind[x.post] = "trigger"
      PROVE  \E j \in 1 .. n : x.post \in history'[j].triggers
  <2>1. x \notin LinkedItems
    BY <1>4 DEF LinkedItems
  <2>2. CASE x.post \in m.triggers
    BY <1>1, <2>2
  <2>3. CASE x.post \in KnownTriggers
    <3>1. PICK i \in DOMAIN pass.snap : x.post \in pass.snap[i].triggers
      BY <2>3 DEF KnownTriggers
    <3>2. i \in DOMAIN history /\ history[i].triggers = pass.snap[i].triggers
      BY DEF Consistent, Recalled, Kept
    <3> QED BY <1>1, <1>2, <3>1, <3>2
  <2>4. CASE \E i \in DOMAIN pass.snap : \E l \in DOMAIN pass.snap[i].items : x = pass.snap[i].items[l]
    <3>1. PICK i \in DOMAIN pass.snap : \E l \in DOMAIN pass.snap[i].items : x = pass.snap[i].items[l]
      BY <2>4
    <3>2. i \in DOMAIN history /\ history[i].items = pass.snap[i].items
      BY DEF Consistent, Recalled, Kept
    <3>3. PICK j \in 1 .. i : x.post \in history[j].triggers
      BY <1>4, <3>1, <3>2 DEF Consistent, TakenInTurn, TurnOK
    <3>4. j \in DOMAIN history
      BY <3>2, HistoryElements DEF TypeOK
    <3> QED BY <1>1, <1>2, <3>3, <3>4
  <2> QED BY <1>3, <1>4, <2>1, <2>2, <2>3, <2>4 DEF ItemProper
<1> QED BY <1>4 DEF TurnOK, x

LEMMA SaysStay ==
    ASSUME TypeOK, HistoryKept, NEW i \in DOMAIN history
    PROVE  /\ \A v : VersionOK(i, v) => VersionOK(i, v)'
           /\ \A x : MentionOK(i, x) => MentionOK(i, x)'
           /\ \A x : TurnOK(i, x) => TurnOK(i, x)'
<1>1. i \in 1 .. (Len(history) + 1) /\ \A j \in 1 .. i : j \in DOMAIN history
  BY HistoryElements DEF TypeOK
<1>2. \A j \in DOMAIN history : history'[j].triggers = history[j].triggers
  BY DEF HistoryKept, Kept
<1>3. \A p, v : Given(i, p, v) => Given(i, p, v)'
  BY <1>1, GivenStays
<1>4. \A p, v : Said(i, p, v) => Said(i, p, v)'
  BY SaidStays
<1>5. ASSUME NEW v, VersionOK(i, v) PROVE VersionOK(i, v)'
  BY <1>3, <1>4, <1>5 DEF VersionOK
<1>6. ASSUME NEW x, MentionOK(i, x) PROVE MentionOK(i, x)'
  BY <1>3, <1>6 DEF MentionOK
<1>7. ASSUME NEW x, TurnOK(i, x) PROVE TurnOK(i, x)'
  BY <1>1, <1>2, <1>7 DEF TurnOK
<1> QED BY <1>5, <1>6, <1>7

LEMMA SayingsStep ==
    ASSUME TypeOK, Consistent, HistoryStep
    PROVE  VersionsSaid' /\ MentionsKnown' /\ TakenInTurn'
<1>1. HistoryKept
  BY DEF HistoryStep
<1>2. \A i \in DOMAIN history : /\ history'[i].items = history[i].items
                                /\ history'[i].versions = history[i].versions
  BY <1>1 DEF HistoryKept, Kept
<1>3. ASSUME NEW i \in DOMAIN history, NEW v \in history'[i].versions PROVE VersionOK(i, v)'
  BY <1>1, <1>2, SaysStay DEF Consistent, VersionsSaid
<1>4. ASSUME NEW i \in DOMAIN history, NEW x, NEW k \in DOMAIN history'[i].items, x = history'[i].items[k]
      PROVE  MentionOK(i, x)' /\ TurnOK(i, x)'
  <2>1. MentionOK(i, x) /\ TurnOK(i, x)
    BY <1>2, <1>4 DEF Consistent, MentionsKnown, TakenInTurn
  <2> QED BY <1>1, <2>1, SaysStay
<1>5. CASE DOMAIN history' = DOMAIN history
  <2>1. VersionsSaid'
    BY <1>3, <1>5 DEF VersionsSaid
  <2>2. MentionsKnown'
    BY <1>4, <1>5 DEF MentionsKnown, MentionOK, Given, Heard
  <2>3. TakenInTurn'
    BY <1>4, <1>5 DEF TakenInTurn, TurnOK
  <2> QED BY <2>1, <2>2, <2>3
<1>6. ASSUME NEW m \in Message, Proper(m), history' = Append(history, m)
      PROVE  VersionsSaid' /\ MentionsKnown' /\ TakenInTurn'
  <2>1. PICK n : n = Len(history) + 1
    OBVIOUS
  <2>2. DOMAIN history' = DOMAIN history \cup {n} /\ history'[n] = m
    BY <1>6, <2>1, Appended
  <2>3. \A v \in m.versions : VersionOK(n, v)'
    BY <1>1, <1>6, <2>1, AppendedVersions
  <2>4. \A k \in DOMAIN m.items : MentionOK(n, m.items[k])' /\ TurnOK(n, m.items[k])'
    BY <1>1, <1>6, <2>1, AppendedMentions, AppendedInTurn
  <2>5. VersionsSaid'
    BY <1>3, <2>2, <2>3 DEF VersionsSaid
  <2>6. MentionsKnown'
    BY <1>4, <2>2, <2>4 DEF MentionsKnown, MentionOK, Given, Heard
  <2>7. TakenInTurn'
    BY <1>4, <2>2, <2>4 DEF TakenInTurn, TurnOK
  <2> QED BY <2>5, <2>6, <2>7
<1> QED BY <1>5, <1>6 DEF HistoryStep

LEMMA RecalledStep == TypeOK /\ Consistent /\ [Next]_vars => Recalled'
<1> SUFFICES ASSUME TypeOK, Consistent, [Next]_vars PROVE Recalled'
  OBVIOUS
<1>1. TypeOK' /\ HistoryKept
  BY StepTyped DEF HistoryStep
<1>2. Len(pass.snap) \in Nat /\ Len(history) \in Nat /\ Len(history') \in Nat /\ DOMAIN history = 1 .. Len(history)
  BY <1>1, HistoryElements, SnapElements DEF TypeOK, HistoryOK
<1>3. CASE pass'.snap = pass.snap
  <2>1. Len(pass.snap) <= Len(history')
    BY <1>1, <1>2 DEF Consistent, Recalled, HistoryKept
  <2>2. ASSUME NEW i \in DOMAIN pass.snap
        PROVE  i \in DOMAIN history' /\ Kept(pass.snap[i], history'[i])
    <3>1. /\ i \in DOMAIN history /\ i \in DOMAIN history'
          /\ Kept(pass.snap[i], history[i]) /\ Kept(history[i], history'[i])
      BY <1>1 DEF Consistent, Recalled, HistoryKept
    <3>2. pass.snap[i].heard \in Nat
      BY SnapElements, MessageFields DEF TypeOK
    <3> QED BY <3>1, <3>2 DEF Kept
  <2> QED BY <1>3, <2>1, <2>2 DEF Recalled, Kept
<1>4. CASE StartPass
  <2>1. pass'.snap = history /\ history' = history
    BY <1>4 DEF StartPass
  <2>2. \A i \in DOMAIN history : history[i].heard \in Nat
    BY HistoryElements, MessageFields DEF TypeOK
  <2> QED BY <1>2, <2>1, <2>2 DEF Recalled, Kept
<1>5. CASE EndPass
  <2>1. pass'.snap = <<>>
    BY <1>5, NoPassTyped DEF EndPass
  <2> QED BY <1>2, <2>1 DEF Recalled
<1>6. CASE ReadPage
  <2>1. pass'.snap = pass.snap
    BY <1>6, ReadPageIs
  <2> QED BY <1>3, <2>1
<1>7. pass' = pass \/ StartPass \/ ReadPage \/ EndPass
  BY DEF Next, vars, Write, Edit, Delete, Tick, Deliver, SessionLost, EndRun
<1> QED BY <1>3, <1>4, <1>5, <1>6, <1>7

LEMMA ConsistentStep == TypeOK /\ Consistent /\ [Next]_vars => Consistent'
BY StepTyped, SayingsStep, RecalledStep DEF Consistent

LEMMA ConsistentInit == Init => Consistent
<1> SUFFICES ASSUME Init PROVE Consistent
  OBVIOUS
<1>1. history = <<>> /\ pass.snap = <<>>
  BY NoPassTyped DEF Init
<1> QED BY <1>1 DEF Consistent, Recalled, VersionsSaid, MentionsKnown, TakenInTurn

LEMMA AlwaysConsistent == Spec => [](TypeOK /\ Consistent)
<1>1. TypeOK /\ [Next]_vars => TypeOK'
  BY StepTyped
<1> QED BY InitTyped, ConsistentInit, ConsistentStep, <1>1, PTL DEF Spec

(* A post is mentioned without its text only if the agent was given the text
   of that very version, whatever was edited, carried over or sent in vain in
   between, and in however many sessions.                                   *)
THEOREM MentionsOnlyTold == Spec => []ReferencesKnown
<1>1. TypeOK /\ Consistent => ReferencesKnown
  <2> SUFFICES ASSUME TypeOK, Consistent, NEW i \in DOMAIN history, NEW k \in DOMAIN history[i].items,
                      ~history[i].items[k].text
               PROVE  \E j \in 1 .. (i - 1) : Gives(history[j], history[i].items[k])
    BY DEF ReferencesKnown, ToSet
  <2>1. Given(i, history[i].items[k].post, history[i].items[k].ver)
    BY DEF Consistent, MentionsKnown, MentionOK
  <2> QED BY <2>1 DEF Given, Heard, Gives
<1> QED BY <1>1, AlwaysConsistent, PTL

(* A trigger is not taken as mere context before it was accepted as one,
   however a batch is cut, unless a post links to it.                       *)
THEOREM TakesInTurn == Spec => []NotSwallowed
<1>1. Consistent => NotSwallowed
  BY DEF Consistent, TakenInTurn, TurnOK, NotSwallowed, ToSet
<1> QED BY <1>1, AlwaysConsistent, PTL

-----------------------------------------------------------------------------
(* The text of a trigger.  A message says each of its triggers once.  When it
   carries a clarification over, the text was heard of that and is not said
   again, or was not and is said once; only if an earlier message told the
   agent this version, the text may be there again.                         *)

Told(i, p) ==
    \E j \in 1 .. (i - 1), k \in Texts(history[history[i].pred], p) :
        /\ history[j].delivery = "delivered"
        /\ <<p, history[history[i].pred].items[k].ver>> \in history[j].versions
Divided(m, n, p) ==
    \E l \in DOMAIN n.items : /\ Texts(n, p) = {l}
                              /\ IF l <= n.heard THEN Texts(m, p) = {} ELSE \E k : Texts(m, p) = {k}
TriggerOK(i, p) ==
    IF history[i].pred = 0 THEN Once(history[i], p)
    ELSE Told(i, p) \/ Divided(history[i], history[history[i].pred], p)
PredOK(i) ==
    LET c == history[i].pred
    IN  c # 0 => /\ c \in 1 .. (i - 1) /\ history[i].triggers = history[c].triggers
                 /\ history[c].delivery = "undelivered"
                 /\ \A l \in DOMAIN history[c].items :
                       history[c].heard < l =>
                           \E k \in DOMAIN history[i].items : history[i].items[k] = history[c].items[l]
TriggersSaid == \A i \in DOMAIN history : \A p \in history[i].triggers : TriggerOK(i, p)
Carrying == \A i \in DOMAIN history : PredOK(i)

LEMMA TriggersStay ==
    ASSUME TypeOK, HistoryKept, NEW i \in DOMAIN history, PredOK(i)
    PROVE  /\ \A p : TriggerOK(i, p) => TriggerOK(i, p)'
           /\ PredOK(i)'
<1>1. \A j \in 1 .. i : j \in DOMAIN history /\ Kept(history[j], history'[j])
  BY HistoryElements DEF TypeOK, HistoryKept
<1>2. i \in 1 .. i
  BY HistoryElements DEF TypeOK
<1>3. /\ history'[i].items = history[i].items /\ history'[i].triggers = history[i].triggers
      /\ history'[i].versions = history[i].versions /\ history'[i].pred = history[i].pred
  BY <1>1, <1>2 DEF Kept
<1>4. \A j \in 1 .. (i - 1) : j \in 1 .. i
  BY HistoryElements DEF TypeOK
<1>5. \A j \in 1 .. (i - 1) : /\ history'[j].items = history[j].items
                              /\ history'[j].triggers = history[j].triggers
                              /\ history'[j].versions = history[j].versions
                              /\ history[j].delivery = "delivered" => history'[j].delivery = "delivered"
                              /\ history[j].delivery = "undelivered" => /\ history'[j].delivery = "undelivered"
                                                                        /\ history'[j].heard = history[j].heard
  BY <1>1, <1>4 DEF Kept
<1>6. CASE history[i].pred = 0
  <2>1. \A p : Once(history[i], p) => Once(history[i], p)'
    BY <1>3 DEF Once, Texts
  <2> QED BY <1>3, <1>6, <2>1 DEF TriggerOK, PredOK
<1>7. CASE history[i].pred # 0
  <2>1. PICK c \in 1 .. (i - 1) : c = history[i].pred
    BY <1>7 DEF PredOK
  <2>2. /\ history[c].delivery = "undelivered" /\ history'[c].delivery = "undelivered"
        /\ history'[c].heard = history[c].heard /\ history'[c].items = history[c].items
        /\ history'[c].triggers = history[c].triggers /\ history'[i].pred = c
    BY <1>3, <1>5, <1>7, <2>1 DEF PredOK
  <2>3. \A p : Texts(history[c], p)' = Texts(history[c], p) /\ Texts(history[i], p)' = Texts(history[i], p)
    BY <1>3, <2>2 DEF Texts
  <2>4. ASSUME NEW p, Told(i, p) PROVE Told(i, p)'
    <3>1. PICK j \in 1 .. (i - 1), k \in Texts(history[c], p) :
             history[j].delivery = "delivered" /\ <<p, history[c].items[k].ver>> \in history[j].versions
      BY <2>1, <2>4 DEF Told
    <3>2. k \in Texts(history[c], p)' /\ <<p, history'[c].items[k].ver>> \in history'[j].versions
      BY <1>5, <2>2, <2>3, <3>1
    <3> QED BY <1>5, <2>2, <3>1, <3>2 DEF Told
  <2>5. ASSUME NEW p, Divided(history[i], history[c], p) PROVE Divided(history[i], history[c], p)'
    BY <2>2, <2>3, <2>5 DEF Divided
  <2>6. \A p : TriggerOK(i, p) => TriggerOK(i, p)'
    <3> SUFFICES ASSUME NEW p, TriggerOK(i, p) PROVE TriggerOK(i, p)'
      OBVIOUS
    <3>1. Told(i, p) \/ Divided(history[i], history[c], p)
      BY <1>7, <2>1 DEF TriggerOK
    <3>2. Told(i, p)' \/ Divided(history[i], history[c], p)'
      BY <2>4, <2>5, <3>1
    <3> QED BY <1>7, <2>1, <2>2, <3>2 DEF TriggerOK
  <2>7. PredOK(i)'
    BY <1>3, <1>7, <2>1, <2>2 DEF PredOK
  <2> QED BY <2>6, <2>7
<1> QED BY <1>6, <1>7

(* Where a message comes from that carries another over.                    *)
LEMMA CarriedFrom ==
    ASSUME TypeOK, Consistent, NEW m, NEW c, c = m.pred, CarriedOver(m) \/ Resent(m)
    PROVE  /\ c \in DOMAIN pass.snap /\ c \in DOMAIN history /\ c # 0
           /\ history[c] \in Message /\ pass.snap[c] \in Message
           /\ history[c].delivery = "undelivered" /\ history[c].pred = 0
           /\ history[c].heard = pass.snap[c].heard /\ history[c].items = pass.snap[c].items
           /\ history[c].versions = pass.snap[c].versions /\ history[c].triggers = pass.snap[c].triggers
           /\ m.triggers = history[c].triggers /\ Holds(m.items, c)
<1>1. /\ c \in DOMAIN pass.snap /\ m.triggers = pass.snap[c].triggers /\ pass.snap[c].delivery = "undelivered"
  BY DEF CarriedOver, Resent
<1>2. c \in DOMAIN history /\ Kept(pass.snap[c], history[c])
  BY <1>1 DEF Consistent, Recalled
<1>3. history[c] \in Message /\ pass.snap[c] \in Message /\ c # 0
  BY <1>1, <1>2, HistoryElements, SnapElements DEF TypeOK
<1>4. history[c].delivery = "undelivered"
  BY <1>1, <1>2 DEF Kept
<1>5. history[c].pred = 0
  BY <1>3, <1>4, MessageFields DEF Sound
<1>6. Holds(m.items, c)
  <2>1. CASE CarriedOver(m)
    BY <2>1 DEF CarriedOver
  <2>2. CASE Resent(m)
    <3>1. m.items = RestOf(pass.snap[c])
      BY <2>2 DEF Resent
    <3>2. \A l \in DOMAIN pass.snap[c].items :
             pass.snap[c].heard < l => \E k \in DOMAIN m.items : m.items[k] = pass.snap[c].items[l]
      BY <1>3, <3>1, RestItems
    <3> QED BY <3>2 DEF Holds
  <2> QED BY <2>1, <2>2
<1> QED BY <1>1, <1>2, <1>3, <1>4, <1>5, <1>6 DEF Kept

(* What the rest of a message says.                                         *)
LEMMA RestSays ==
    ASSUME NEW n \in Message, NEW m, m.items = RestOf(n), NEW p, NEW l \in DOMAIN n.items, Texts(n, p) = {l}
    PROVE  SaidOn(m, n, p, l)
<1> DEFINE r == RestOf(n)
<1>1. /\ \A k \in DOMAIN r : n.heard + k \in DOMAIN n.items /\ n.heard < n.heard + k /\ r[k] = n.items[n.heard + k]
      /\ \A j \in DOMAIN n.items : n.heard < j => j - n.heard \in DOMAIN r /\ r[j - n.heard] = n.items[j]
      /\ DOMAIN r = 1 .. Len(r) /\ Len(r) \in Nat
  BY RestItems
<1>2. l \in Nat /\ n.heard \in Nat
  <2>1. n.items \in Seq(Items) /\ n.heard \in Nat
    BY MessageFields
  <2> QED BY <2>1
<1> HIDE DEF r
<1>3. m.items = r
  BY DEF r
<1>4. l \in Texts(n, p)
  OBVIOUS
<1>5. ASSUME NEW k \in Texts(m, p)
      PROVE  n.heard < l /\ k = l - n.heard
  <2>1. k \in DOMAIN r /\ r[k].post = p /\ r[k].text /\ k \in Nat
    BY <1>1, <1>3 DEF Texts
  <2>2. n.heard + k \in Texts(n, p) /\ n.heard < n.heard + k
    BY <1>1, <2>1 DEF Texts
  <2>3. n.heard + k = l
    BY <2>2
  <2> QED BY <1>2, <2>1, <2>2, <2>3
<1>6. CASE l <= n.heard
  <2>1. Texts(m, p) = {}
    BY <1>2, <1>5, <1>6
  <2> QED BY <1>6, <2>1 DEF SaidOn
<1>7. CASE ~(l <= n.heard)
  <2>1. PICK k : k = l - n.heard
    OBVIOUS
  <2>2. k \in DOMAIN m.items /\ m.items[k] = n.items[l]
    BY <1>1, <1>2, <1>3, <1>7, <2>1
  <2>3. k \in Texts(m, p)
    BY <1>4, <2>2 DEF Texts
  <2>4. Texts(m, p) = {k}
    BY <1>5, <2>1, <2>3
  <2> QED BY <1>7, <2>2, <2>4 DEF SaidOn
<1> QED BY <1>6, <1>7

LEMMA AppendedPred ==
    ASSUME TypeOK, Consistent, HistoryKept, NEW m \in Message, Proper(m), history' = Append(history, m),
           NEW n, n = Len(history) + 1
    PROVE  PredOK(n)'
<1>1. /\ n \in Nat /\ history'[n] = m /\ \A j \in DOMAIN history : j \in 1 .. (n - 1)
  BY Appended, HistoryElements DEF TypeOK
<1>2. CASE Fresh(m)
  BY <1>1, <1>2 DEF Fresh, PredOK
<1>3. CASE CarriedOver(m) \/ Resent(m)
  <2>1. PICK c : c = m.pred
    OBVIOUS
  <2>2. /\ c \in DOMAIN pass.snap /\ c \in DOMAIN history /\ c # 0
        /\ history[c].delivery = "undelivered" /\ pass.snap[c] \in Message
        /\ history[c].heard = pass.snap[c].heard /\ history[c].items = pass.snap[c].items
        /\ m.triggers = history[c].triggers /\ Holds(m.items, c)
    BY <1>3, <2>1, CarriedFrom
  <2>4. /\ history'[c].triggers = history[c].triggers /\ history'[c].items = history[c].items
        /\ history'[c].heard = history[c].heard /\ history'[c].delivery = "undelivered"
    BY <2>2 DEF HistoryKept, Kept
  <2>5. \A l \in DOMAIN history'[c].items :
           history'[c].heard < l => \E k \in DOMAIN m.items : m.items[k] = history'[c].items[l]
    BY <2>2, <2>4 DEF Holds
  <2> QED BY <1>1, <2>1, <2>2, <2>4, <2>5 DEF PredOK
<1> QED BY <1>2, <1>3 DEF Proper

LEMMA AppendedTrigger ==
    ASSUME TypeOK, Consistent, TriggersSaid, HistoryKept, NEW m \in Message, Proper(m),
           history' = Append(history, m), NEW n, n = Len(history) + 1, NEW p \in m.triggers
    PROVE  TriggerOK(n, p)'
<1>1. /\ n \in Nat /\ history'[n] = m /\ \A j \in DOMAIN history : j \in 1 .. (n - 1)
      /\ \A j \in DOMAIN history : Kept(history[j], history'[j])
  BY Appended, HistoryElements DEF TypeOK, HistoryKept
<1>2. CASE Fresh(m)
  <2>1. Once(m, p) /\ m.pred = 0
    BY <1>2 DEF Fresh
  <2>2. Once(history[n], p)'
    BY <1>1, <2>1 DEF Once, Texts
  <2> QED BY <1>1, <2>1, <2>2 DEF TriggerOK
<1>3. CASE CarriedOver(m) \/ Resent(m)
  <2>1. PICK c : c = m.pred
    OBVIOUS
  <2>2. PICK h : h = history[c]
    OBVIOUS
  <2>3. /\ c \in DOMAIN pass.snap /\ c \in DOMAIN history /\ c # 0 /\ h \in Message
        /\ h.delivery = "undelivered" /\ h.pred = 0 /\ pass.snap[c] \in Message
        /\ h.heard = pass.snap[c].heard /\ h.items = pass.snap[c].items
        /\ h.versions = pass.snap[c].versions /\ p \in h.triggers
    BY <1>3, <2>1, <2>2, CarriedFrom
  <2>4. Once(h, p)
    BY <2>2, <2>3 DEF TriggersSaid, TriggerOK
  <2>5. PICK l \in DOMAIN h.items : Texts(h, p) = {l} /\ <<p, h.items[l].ver>> \in h.versions
    BY <2>4 DEF Once
  <2>6. PICK v : v = h.items[l].ver
    OBVIOUS
  <2>7. v \in Nat
    <3>1. h.versions \subseteq Nat \X Nat
      BY <2>3, MessageFields
    <3> QED BY <2>5, <2>6, <3>1
  <2>8. history'[c].items = h.items /\ history'[c].heard = h.heard
    BY <1>1, <2>2, <2>3 DEF Kept
  <2>9. /\ Texts(history[c], p)' = {l} /\ Texts(history[n], p)' = Texts(m, p)
    BY <1>1, <2>5, <2>8 DEF Texts
  <2>10. CASE CarriedOver(m) /\ VersionTold(p) = v
    <3>1. PICK j \in DOMAIN history : history[j].delivery = "delivered" /\ <<p, v>> \in history[j].versions
      BY <2>7, <2>10, ToldNamed
    <3>2. history'[j].delivery = "delivered" /\ <<p, v>> \in history'[j].versions /\ j \in 1 .. (n - 1)
      BY <1>1, <3>1 DEF Kept
    <3>3. l \in Texts(history[c], p)' /\ history'[c].items[l].ver = v
      BY <2>6, <2>8, <2>9
    <3>4. Told(n, p)'
      BY <1>1, <2>1, <3>2, <3>3 DEF Told
    <3> QED BY <1>1, <2>1, <2>3, <3>4 DEF TriggerOK
  <2>11. ASSUME SaidOn(m, h, p, l)
         PROVE  TriggerOK(n, p)'
    <3>1. IF l <= h.heard THEN Texts(m, p) = {} ELSE \E k : Texts(m, p) = {k}
      BY <2>11 DEF SaidOn
    <3>2. Divided(history[n], history[c], p)'
      BY <2>5, <2>8, <2>9, <3>1 DEF Divided
    <3> QED BY <1>1, <2>1, <2>3, <3>2 DEF TriggerOK
  <2>12. CASE CarriedOver(m) /\ VersionTold(p) # v
    <3>1. PICK w : w = <<p, v>>
      OBVIOUS
    <3>2. w \in pass.snap[c].versions /\ VersionTold(w[1]) # w[2] /\ w[1] = p
      BY <2>3, <2>5, <2>6, <2>12, <3>1
    <3>3. l \in DOMAIN pass.snap[c].items /\ Texts(pass.snap[c], w[1]) = {l}
      BY <2>3, <2>5, <3>2 DEF Texts
    <3>4. SaidOn(m, pass.snap[c], w[1], l)
      BY <2>1, <2>12, <3>2, <3>3 DEF CarriedOver
    <3>5. SaidOn(m, h, p, l)
      BY <2>3, <3>2, <3>4 DEF SaidOn
    <3> QED BY <2>11, <3>5
  <2>13. CASE Resent(m)
    <3>1. m.items = RestOf(h)
      BY <2>1, <2>3, <2>13 DEF Resent, RestOf
    <3>2. SaidOn(m, h, p, l)
      BY <2>3, <2>5, <3>1, RestSays
    <3> QED BY <2>11, <3>2
  <2> QED BY <1>3, <2>10, <2>12, <2>13
<1> QED BY <1>2, <1>3 DEF Proper

LEMMA TriggersStep ==
    ASSUME TypeOK, Consistent, TriggersSaid, Carrying, HistoryStep
    PROVE  TriggersSaid' /\ Carrying'
<1>1. HistoryKept /\ \A i \in DOMAIN history : history'[i].triggers = history[i].triggers
  BY DEF HistoryStep, HistoryKept, Kept
<1>2. ASSUME NEW i \in DOMAIN history
      PROVE  PredOK(i)' /\ \A p \in history'[i].triggers : TriggerOK(i, p)'
  <2>1. PredOK(i) /\ \A p \in history'[i].triggers : TriggerOK(i, p)
    BY <1>1 DEF TriggersSaid, Carrying
  <2> QED BY <1>1, <2>1, TriggersStay
<1>3. CASE DOMAIN history' = DOMAIN history
  BY <1>2, <1>3 DEF TriggersSaid, Carrying
<1>4. ASSUME NEW m \in Message, Proper(m), history' = Append(history, m)
      PROVE  TriggersSaid' /\ Carrying'
  <2>1. PICK n : n = Len(history) + 1
    OBVIOUS
  <2>2. DOMAIN history' = DOMAIN history \cup {n} /\ history'[n] = m
    BY <1>4, <2>1, Appended
  <2>3. PredOK(n)' /\ \A p \in m.triggers : TriggerOK(n, p)'
    BY <1>1, <1>4, <2>1, AppendedPred, AppendedTrigger
  <2> QED BY <1>2, <2>2, <2>3 DEF TriggersSaid, Carrying
<1> QED BY <1>3, <1>4 DEF HistoryStep

(* A request says the text of each of its triggers once.  One that carries a
   clarification over keeps its triggers, says as they were accepted those that
   were not delivered, and does not repeat the others, although fresh context
   is built around them; only of a version the agent was told before the text
   may be there again.                                                      *)
THEOREM SaysOnce == Spec => []SaidOnce
<1>1. TypeOK /\ TriggersSaid /\ Carrying => SaidOnce
  <2> SUFFICES ASSUME TypeOK, TriggersSaid, Carrying, NEW i \in DOMAIN history, NEW p \in history[i].triggers
               PROVE  LET m == history[i]
                          n == history[m.pred]
                          heard == {k \in Texts(n, p) : k <= n.heard}
                          said == {m.items[k] : k \in Texts(m, p)}
                          left == {n.items[k] : k \in Texts(n, p) \ heard}
                          told == \E j \in 1..(i - 1), k \in Texts(n, p) :
                                      history[j].delivery = "delivered" /\ <<p, n.items[k].ver>> \in history[j].versions
                      IN  IF m.pred = 0 THEN Cardinality(Texts(m, p)) = 1
                          ELSE /\ m.triggers = n.triggers /\ left \subseteq said
                               /\ told \/ Cardinality(heard) + Cardinality(Texts(m, p)) = 1
    BY DEF SaidOnce
  <2> DEFINE m == history[i]
             n == history[m.pred]
             heard == {k \in Texts(n, p) : k <= n.heard}
             said == {m.items[k] : k \in Texts(m, p)}
             left == {n.items[k] : k \in Texts(n, p) \ heard}
             told == \E j \in 1..(i - 1), k \in Texts(n, p) :
                         history[j].delivery = "delivered" /\ <<p, n.items[k].ver>> \in history[j].versions
  <2>1. TriggerOK(i, p) /\ PredOK(i)
    BY DEF TriggersSaid, Carrying
  <2>2. CASE m.pred = 0
    <3>1. PICK k : Texts(m, p) = {k}
      BY <2>1, <2>2 DEF TriggerOK, Once
    <3>2. Cardinality(Texts(m, p)) = 1
      BY <3>1, FS_Singleton
    <3> QED BY <2>2, <3>2
  <2>3. CASE m.pred # 0
    <3>1. /\ m.triggers = n.triggers /\ n \in Message
          /\ \A l \in DOMAIN n.items : n.heard < l => \E k \in DOMAIN m.items : m.items[k] = n.items[l]
      <4>1. m.pred \in DOMAIN history
        BY <2>1, <2>3, HistoryElements DEF PredOK, TypeOK
      <4> QED BY <2>1, <2>3, <4>1, HistoryElements DEF PredOK, TypeOK
    <3>2. n.heard \in Nat /\ \A l \in DOMAIN n.items : l \in Nat
      <4>1. n.items \in Seq(Items) /\ n.heard \in Nat
        BY <3>1, MessageFields
      <4> QED BY <4>1
    <3>3. left \subseteq said
      <4> SUFFICES ASSUME NEW l \in Texts(n, p), ~(l <= n.heard)
                   PROVE  \E k \in Texts(m, p) : m.items[k] = n.items[l]
        OBVIOUS
      <4>1. l \in DOMAIN n.items /\ n.heard < l
        BY <3>2 DEF Texts
      <4>2. PICK k \in DOMAIN m.items : m.items[k] = n.items[l]
        BY <3>1, <4>1
      <4> QED BY <4>2 DEF Texts
    <3>4. ASSUME Divided(m, n, p)
          PROVE  Cardinality(heard) + Cardinality(Texts(m, p)) = 1
      <4>1. PICK l \in DOMAIN n.items : /\ Texts(n, p) = {l}
                                        /\ IF l <= n.heard THEN Texts(m, p) = {} ELSE \E k : Texts(m, p) = {k}
        BY <3>4 DEF Divided
      <4>2. CASE l <= n.heard
        <5>1. heard = {l} /\ Texts(m, p) = {}
          BY <4>1, <4>2
        <5>2. Cardinality(heard) = 1 /\ Cardinality(Texts(m, p)) = 0
          BY <5>1, FS_Singleton, FS_EmptySet
        <5> QED BY <5>2
      <4>3. CASE ~(l <= n.heard)
        <5>1. heard = {} /\ \E k : Texts(m, p) = {k}
          BY <4>1, <4>3
        <5>2. Cardinality(heard) = 0 /\ Cardinality(Texts(m, p)) = 1
          BY <5>1, FS_Singleton, FS_EmptySet
        <5> QED BY <5>2
      <4> QED BY <4>2, <4>3
    <3>5. Told(i, p) => told
      BY DEF Told
    <3>6. told \/ Cardinality(heard) + Cardinality(Texts(m, p)) = 1
      BY <2>1, <2>3, <3>4, <3>5 DEF TriggerOK
    <3> HIDE DEF heard, said, left, told
    <3>7. /\ m.triggers = n.triggers /\ left \subseteq said
          /\ told \/ Cardinality(heard) + Cardinality(Texts(m, p)) = 1
      BY <3>1, <3>3, <3>6
    <3> QED BY <2>3, <3>7 DEF heard, said, left, told
  <2> QED BY <2>2, <2>3
<1>2. Init => TriggersSaid /\ Carrying
  BY DEF Init, TriggersSaid, Carrying
<1>3. TypeOK /\ Consistent /\ TriggersSaid /\ Carrying /\ [Next]_vars => TriggersSaid' /\ Carrying'
  BY StepTyped, TriggersStep
<1> QED BY <1>1, <1>2, <1>3, AlwaysConsistent, PTL DEF Spec

-----------------------------------------------------------------------------
(* Nothing is passed over.  Posts of the thread are read in time: what was
   written before the clock's last tick was there when the pass began
   (Attentive).  Of those never refused, triggers before the anchor of a
   message are triggers of it or of an earlier one, and what else was before it
   was said, or posts were omitted (Surveyed).  A message that carries another
   over brings, with its items, those that were heard of that.              *)

Standing == (LivePosts \cup Got) \ EverRefused
Attentive ==
    /\ Live(Root)
    /\ pass.pc # "idle" => \A p \in LivePosts : thread[p].at < now => p \in pass.start

Handed(j) == history[j].delivery = "delivered"
Early(m, p) == thread[p].at < thread[m.anchor].at
OrderOK(i) ==
    \A p \in Standing :
        Kind[p] = "trigger" /\ Early(history[i], p) => \E j \in 1 .. i : p \in history[j].triggers
Brings(m) == PostsIn(m) \cup HeardBefore(m)
PredBefore(i) == history[i].pred # 0 => history[i].pred \in 1 .. (i - 1)
CoverOK(i) ==
    \/ history[i].omitted
    \/ \E j \in 1 .. (i - 1) : Handed(j) /\ history[j].omitted
    \/ \A p \in Standing :
          Kind[p] # "bot" /\ Early(history[i], p) =>
              p \in Brings(history[i]) \/ \E j \in 1 .. (i - 1) : Handed(j) /\ p \in Brings(history[j])
MessageOK(i) ==
    /\ history[i].anchor \in DOMAIN thread
    /\ PredBefore(i) /\ Mentioned(history[i]) \subseteq Brings(history[i])
    /\ OrderOK(i) /\ CoverOK(i)
Surveyed == \A i \in DOMAIN history : MessageOK(i)

LEMMA BringsSame ==
    ASSUME NEW m, NEW n, n.items = m.items, n.pred = m.pred
    PROVE  Brings(n) = Brings(m)
BY DEF Brings, PostsIn, HeardBefore

(* What was brought stays brought.                                          *)
LEMMA BringsGrow ==
    ASSUME TypeOK, HistoryKept, NEW m, NEW n, n.items = m.items, n.pred = m.pred,
           m.pred # 0 => m.pred \in DOMAIN history
    PROVE  Brings(m) \subseteq Brings(n)'
<1>1. PostsIn(n) = PostsIn(m)
  BY DEF PostsIn
<1>2. CASE m.pred = 0
  BY <1>1, <1>2 DEF Brings, HeardBefore
<1>3. CASE m.pred # 0
  <2>1. PICK c \in DOMAIN history : c = m.pred
    BY <1>3
  <2>2. /\ history'[c].items = history[c].items /\ history[c].heard \in Nat
        /\ history'[c].heard \in Nat /\ history[c].heard <= history'[c].heard
    BY HistoryElements, MessageFields DEF TypeOK, HistoryKept, Kept
  <2>3. \A k \in 1 .. history[c].heard : k \in 1 .. history'[c].heard
    BY <2>2
  <2>4. HeardBefore(m) \subseteq HeardBefore(n)'
    BY <1>3, <2>1, <2>2, <2>3 DEF HeardBefore
  <2> QED BY <1>1, <2>4 DEF Brings
<1> QED BY <1>2, <1>3

LEMMA BringsStay ==
    ASSUME TypeOK, HistoryKept, NEW i \in DOMAIN history, PredBefore(i)
    PROVE  Brings(history[i]) \subseteq Brings(history[i])' /\ PredBefore(i)'
<1>1. PICK m : m = history[i]
  OBVIOUS
<1>2. PICK n : n = history'[i]
  OBVIOUS
<1>3. n.items = m.items /\ n.pred = m.pred
  BY <1>1, <1>2 DEF HistoryKept, Kept
<1>4. m.pred # 0 => m.pred \in DOMAIN history
  BY <1>1, HistoryElements DEF PredBefore, TypeOK
<1>5. Brings(m) \subseteq Brings(n)'
  BY <1>3, <1>4, BringsGrow
<1>6. Brings(n)' = Brings(history[i])'
  BY <1>2 DEF Brings, PostsIn, HeardBefore
<1> QED BY <1>1, <1>2, <1>3, <1>5, <1>6 DEF PredBefore

LEMMA RefusedGrows ==
    ASSUME [Next]_vars
    PROVE  refused \subseteq refused'
<1>1. ASSUME NEW plan, NEW kind, Build(plan, kind) PROVE refused \subseteq refused'
  BY <1>1 DEF Build
<1>2. ASSUME EndPass PROVE refused \subseteq refused'
  <2>1. \/ \E plan, kind : Build(plan, kind)
        \/ \E i : Resend(i)
        \/ Nothing
    BY <1>2 DEF EndPass
  <2> QED BY <1>1, <2>1 DEF Resend, Nothing
<1> QED BY <1>2 DEF Next, vars, Write, Edit, Delete, Tick, Deliver, EndRun, SessionLost, StartPass, ReadPage

LEMMA ThreadStep ==
    ASSUME TypeOK, [Next]_vars
    PROVE  /\ \A p \in DOMAIN thread' : p \in DOMAIN thread \/ thread'[p].at = now
           /\ Live(Root) => Live(Root)'
<1>1. CASE thread' = thread
  BY <1>1 DEF Live
<1>2. ASSUME NEW p \in Ids, Write(p)
      PROVE  /\ \A q \in DOMAIN thread' : q \in DOMAIN thread \/ thread'[q].at = now
             /\ Live(Root) => Live(Root)'
  BY <1>2 DEF Write, Live
<1>3. ASSUME NEW p \in Ids, Edit(p) \/ Delete(p)
      PROVE  /\ \A q \in DOMAIN thread' : q \in DOMAIN thread \/ thread'[q].at = now
             /\ Live(Root) => Live(Root)'
  <2>1. DOMAIN thread' = DOMAIN thread
    BY <1>3 DEF Edit, Delete
  <2>2. Live(Root) => Live(Root)'
    <3>1. CASE Delete(p)
      <4>1. p # Root
        BY <3>1, ContextAssumption DEF Delete
      <4>2. Root \in DOMAIN thread => thread'[Root] = thread[Root]
        BY <3>1, <4>1 DEF Delete
      <4> QED BY <2>1, <4>2 DEF Live
    <3>2. CASE Edit(p)
      <4>1. thread' = [thread EXCEPT ![p].ver = @ + 1] /\ p \in DOMAIN thread /\ thread[p].live
        BY <3>2 DEF Edit, Live
      <4>2. thread[p] \in PostState
        BY <4>1 DEF TypeOK, ThreadOK
      <4>3. thread'[p] = [thread[p] EXCEPT !.ver = thread[p].ver + 1]
        BY <4>1 DEF TypeOK, ThreadOK
      <4>4. thread'[p].live = thread[p].live
        BY <4>2, <4>3 DEF PostState
      <4>5. \A q \in DOMAIN thread : q # p => thread'[q] = thread[q]
        BY <4>1
      <4> QED BY <2>1, <4>1, <4>4, <4>5 DEF Live
    <3> QED BY <1>3, <3>1, <3>2
  <2> QED BY <2>1, <2>2
<1>4. thread' = thread \/ \E p \in Ids : Write(p) \/ Edit(p) \/ Delete(p)
  BY DEF Next, vars, Tick, Deliver, EndRun, SessionLost, StartPass, ReadPage, EndPass
<1> QED BY <1>1, <1>2, <1>3, <1>4

LEMMA AttentiveStep == TypeOK /\ Attentive /\ [Next]_vars => Attentive'
<1> SUFFICES ASSUME TypeOK, Attentive, [Next]_vars PROVE Attentive'
  OBVIOUS
<1>1. /\ ThreadKept /\ Live(Root)'
      /\ \A p \in DOMAIN thread' : p \in DOMAIN thread \/ thread'[p].at = now
  BY StepTyped, ThreadStep DEF Attentive
<1>2. \A p \in LivePosts' : /\ p \in LivePosts /\ thread'[p].at = thread[p].at
                            \/ thread'[p].at = now
  BY <1>1 DEF ThreadKept, LivePosts, Live
<1>3. CASE pass'.pc = "idle"
  BY <1>1, <1>3 DEF Attentive
<1>4. CASE now' = now /\ pass'.start = pass.start /\ pass.pc # "idle"
  <2>1. now \in Nat
    BY DEF TypeOK, ThreadOK
  <2> QED BY <1>1, <1>2, <1>4, <2>1 DEF Attentive
<1>5. CASE StartPass
  <2>1. pass'.start = LivePosts /\ thread' = thread
    BY <1>5 DEF StartPass
  <2>2. LivePosts' = LivePosts
    BY <2>1 DEF LivePosts, Live
  <2> QED BY <1>1, <2>1, <2>2 DEF Attentive
<1>6. CASE ReadPage
  <2>1. now' = now /\ pass'.start = pass.start /\ pass.pc # "idle"
    BY <1>6, ReadPageIs DEF ReadPage
  <2> QED BY <1>4, <2>1
<1>7. CASE EndPass
  <2>1. pass'.pc = "idle"
    BY <1>7, NoPassTyped DEF EndPass
  <2> QED BY <1>3, <2>1
<1>8. CASE Tick
  <2>1. pass'.pc = "idle"
    BY <1>8 DEF Tick
  <2> QED BY <1>3, <2>1
<1>9. CASE pass' = pass /\ now' = now
  BY <1>3, <1>4, <1>9
<1>10. (pass' = pass /\ now' = now) \/ StartPass \/ ReadPage \/ EndPass \/ Tick
  BY DEF Next, vars, Write, Edit, Delete, Deliver, SessionLost, EndRun
<1> QED BY <1>5, <1>6, <1>7, <1>8, <1>9, <1>10

(* Only what is written now comes to stand.                                 *)
LEMMA StandingStep ==
    ASSUME TypeOK, Attentive, [Next]_vars
    PROVE  \A p \in Standing' : /\ p \in Standing /\ p \in DOMAIN thread /\ thread'[p].at = thread[p].at
                                \/ thread'[p].at = now
<1>1. /\ ThreadKept /\ refused \subseteq refused'
      /\ \A p \in DOMAIN thread' : p \in DOMAIN thread \/ thread'[p].at = now
  BY StepTyped, ThreadStep, RefusedGrows
<1>2. LivePosts \cup Got \subseteq DOMAIN thread /\ (LivePosts \cup Got)' \subseteq DOMAIN thread'
  <2>1. TypeOK'
    BY StepTyped
  <2> QED BY <2>1 DEF TypeOK, PassOK, LivePosts
<1>3. \A p \in LivePosts' : p \in DOMAIN thread => p \in LivePosts
  BY <1>1 DEF ThreadKept, LivePosts, Live
<1>4. Got' \subseteq Got \cup LivePosts
  <2>1. CASE pass' = pass
    BY <2>1 DEF Got
  <2>2. CASE StartPass
    <3>1. pass'.got = NothingRead
      BY <2>2 DEF StartPass
    <3> QED BY <3>1 DEF Got, NothingRead
  <2>3. CASE ReadPage
    <3>1. Got' = Got \cup Page \cup {Root}
      BY <2>3, ReadPageIs
    <3>2. Page \subseteq LivePosts /\ Root \in LivePosts
      BY DEF Page, Rest, Attentive, LivePosts, Live
    <3> QED BY <3>1, <3>2
  <2>4. CASE EndPass
    <3>1. Got' = {}
      BY <2>4, NoPassTyped DEF EndPass, Got
    <3> QED BY <3>1
  <2>5. pass' = pass \/ StartPass \/ ReadPage \/ EndPass
    BY DEF Next, vars, Write, Edit, Delete, Tick, Deliver, SessionLost, EndRun
  <2> QED BY <2>1, <2>2, <2>3, <2>4, <2>5
<1>5. EverRefused \subseteq EverRefused'
  BY <1>1 DEF EverRefused
<1>6. ASSUME NEW p \in Standing', p \in DOMAIN thread
      PROVE  p \in Standing /\ thread'[p].at = thread[p].at
  BY <1>1, <1>3, <1>4, <1>5, <1>6 DEF Standing, ThreadKept
<1> QED BY <1>1, <1>2, <1>6 DEF Standing

(* What holds of a message goes on to hold.                                 *)
LEMMA MessageStays ==
    ASSUME TypeOK, Attentive, [Next]_vars, Surveyed, NEW i \in DOMAIN history
    PROVE  MessageOK(i)'
<1>1. HistoryKept /\ ThreadKept /\ MessageOK(i)
  BY StepTyped DEF HistoryStep, Surveyed
<1>2. \A j \in 1 .. i : j \in DOMAIN history /\ Kept(history[j], history'[j])
  BY <1>1, HistoryElements DEF TypeOK, HistoryKept
<1>3. i \in 1 .. i /\ \A j \in 1 .. (i - 1) : j \in 1 .. i
  BY HistoryElements DEF TypeOK
<1>4. PICK m : m = history[i]
  OBVIOUS
<1>5. PICK n : n = history'[i]
  OBVIOUS
<1>6. Kept(m, n)
  BY <1>2, <1>3, <1>4, <1>5
<1>7. Mentioned(n) = Mentioned(m) /\ n.omitted = m.omitted /\ n.anchor = m.anchor
  BY <1>6 DEF Kept, Mentioned
<1>8. m.anchor \in DOMAIN thread /\ thread'[m.anchor].at = thread[m.anchor].at /\ thread[m.anchor].at <= now
  BY <1>1, <1>4 DEF MessageOK, ThreadKept, TypeOK, ThreadOK
<1>9. ASSUME NEW p \in Standing', Early(n, p)'
      PROVE  p \in Standing /\ Early(m, p)
  <2>1. thread'[p].at < thread[m.anchor].at
    BY <1>7, <1>8, <1>9 DEF Early
  <2>2. thread'[p].at # now
    <3>1. thread[m.anchor].at \in Nat /\ now \in Nat
      BY <1>8 DEF TypeOK, ThreadOK, PostState
    <3> QED BY <1>8, <2>1, <3>1
  <2>3. p \in Standing /\ thread'[p].at = thread[p].at
    BY <2>2, StandingStep
  <2> QED BY <2>1, <2>3 DEF Early
<1>10. ASSUME NEW j \in 1 .. i
       PROVE  /\ history'[j].triggers = history[j].triggers /\ history'[j].omitted = history[j].omitted
              /\ Brings(history[j]) \subseteq Brings(history[j])' /\ (Handed(j) => Handed(j)')
  <2>1. j \in DOMAIN history /\ Kept(history[j], history'[j]) /\ PredBefore(j)
    BY <1>2 DEF Surveyed, MessageOK
  <2>2. Brings(history[j]) \subseteq Brings(history[j])'
    BY <1>1, <2>1, BringsStay
  <2> QED BY <2>1, <2>2 DEF Kept, Handed
<1>11. OrderOK(i)'
  <2> SUFFICES ASSUME NEW p \in Standing', Kind[p] = "trigger", Early(n, p)'
               PROVE  \E j \in 1 .. i : p \in history'[j].triggers
    BY <1>5 DEF OrderOK, Early
  <2>1. PICK j \in 1 .. i : p \in history[j].triggers
    BY <1>1, <1>4, <1>9 DEF MessageOK, OrderOK
  <2> QED BY <1>10, <2>1
<1>12. CoverOK(i)'
  <2>1. CASE m.omitted
    BY <1>5, <1>7, <2>1 DEF CoverOK
  <2>2. CASE \E j \in 1 .. (i - 1) : Handed(j) /\ history[j].omitted
    <3>1. \E j \in 1 .. (i - 1) : Handed(j)' /\ history'[j].omitted
      BY <1>3, <1>10, <2>2
    <3> QED BY <3>1 DEF CoverOK
  <2>3. CASE \A p \in Standing :
                Kind[p] # "bot" /\ Early(m, p) =>
                    p \in Brings(m) \/ \E j \in 1 .. (i - 1) : Handed(j) /\ p \in Brings(history[j])
    <3>1. ASSUME NEW p \in Standing', Kind[p] # "bot", Early(n, p)'
          PROVE  p \in Brings(history[i])' \/ \E j \in 1 .. (i - 1) : Handed(j)' /\ p \in Brings(history[j])'
      <4>1. p \in Brings(history[i]) \/ \E j \in 1 .. (i - 1) : Handed(j) /\ p \in Brings(history[j])
        BY <1>4, <1>9, <2>3, <3>1
      <4> QED BY <1>3, <1>10, <4>1
    <3> QED BY <1>5, <3>1 DEF CoverOK, Early
  <2> QED BY <1>1, <1>4, <2>1, <2>2, <2>3 DEF MessageOK, CoverOK
<1>13. n.anchor \in DOMAIN thread' /\ Mentioned(n) \subseteq Brings(history[i])'
  BY <1>1, <1>3, <1>4, <1>7, <1>8, <1>10 DEF MessageOK, ThreadKept
<1>14. PredBefore(i)'
  BY <1>1, BringsStay DEF MessageOK
<1> QED BY <1>5, <1>11, <1>12, <1>13, <1>14 DEF MessageOK, Mentioned

(* What a pass hands on with a message: the posts it read before the anchor
   are there, or the message or one the agent was given says otherwise.     *)
Answered(m, p) == Kind[p] = "trigger" => \E j \in DOMAIN pass.snap : p \in history[j].triggers
Whole(m) ==
    \/ m.omitted
    \/ ~pass.initial /\ \E j \in DOMAIN pass.snap : Handed(j) /\ history[j].omitted
    \/ \A p \in Got \ EverRefused :
          Kind[p] # "bot" /\ Early(m, p) =>
              \/ p \in Brings(m)
              \/ ~pass.initial /\ \E j \in DOMAIN pass.snap : Handed(j) /\ p \in Brings(history[j])

LEMMA SnapIs ==
    ASSUME TypeOK, Consistent, NEW j \in DOMAIN pass.snap
    PROVE  /\ j \in DOMAIN history /\ Mentioned(pass.snap[j]) = Mentioned(history[j])
           /\ Brings(pass.snap[j]) = Brings(history[j])
           /\ pass.snap[j].anchor = history[j].anchor /\ pass.snap[j].triggers = history[j].triggers
           /\ pass.snap[j].omitted = history[j].omitted /\ pass.snap[j].items = history[j].items
           /\ pass.snap[j].delivery = "delivered" => Handed(j)
           /\ Handed(j) => Reaches(pass.snap[j])
           /\ \A i \in 1 .. j : i \in DOMAIN pass.snap
           /\ j \in 1 .. j /\ \A i \in 1 .. (j - 1) : i \in 1 .. j
<1>1. j \in DOMAIN history /\ Kept(pass.snap[j], history[j])
  BY DEF Consistent, Recalled
<1>2. \A i \in 1 .. j : i \in DOMAIN pass.snap
  BY SnapElements DEF TypeOK
<1>3. j \in 1 .. j /\ \A i \in 1 .. (j - 1) : i \in 1 .. j
  BY SnapElements DEF TypeOK
<1>4. Brings(pass.snap[j]) = Brings(history[j])
  BY <1>1, BringsSame DEF Kept
<1> QED BY <1>1, <1>2, <1>3, <1>4 DEF Kept, Mentioned, Handed, Reaches

(* A message that carries another over brings what that has.                *)
LEMMA CarriedBrings ==
    ASSUME TypeOK, Consistent, NEW m, CarriedOver(m) \/ Resent(m), NEW c, c = m.pred
    PROVE  Brings(pass.snap[c]) \subseteq Brings(m)
<1>1. PICK n : n = pass.snap[c]
  OBVIOUS
<1>2. /\ c # 0 /\ c \in DOMAIN pass.snap /\ n \in Message /\ Holds(m.items, c) /\ c \in DOMAIN history
      /\ history[c].heard = n.heard /\ history[c].items = n.items /\ history[c].pred = 0
  BY <1>1, CarriedFrom
<1>3. n.pred = 0
  BY <1>1, <1>2 DEF Consistent, Recalled, Kept
<1>4. n.items \in Seq(Items) /\ n.heard \in Nat
  BY <1>2, MessageFields
<1>5. ASSUME NEW l \in DOMAIN n.items
      PROVE  n.items[l].post \in Brings(m)
  <2>1. l \in Nat /\ 1 <= l
    BY <1>4
  <2>2. CASE n.heard < l
    <3>1. PICK k \in DOMAIN m.items : m.items[k] = n.items[l]
      BY <1>1, <1>2, <2>2 DEF Holds
    <3> QED BY <3>1 DEF Brings, PostsIn, ToSet
  <2>3. CASE ~(n.heard < l)
    <3>1. l \in 1 .. history[c].heard
      BY <1>2, <1>4, <2>1, <2>3
    <3>2. n.items[l].post \in HeardBefore(m)
      BY <1>2, <3>1 DEF HeardBefore
    <3> QED BY <3>2 DEF Brings
  <2> QED BY <2>2, <2>3
<1>6. PostsIn(n) \subseteq Brings(m)
  BY <1>5 DEF PostsIn, ToSet
<1> QED BY <1>1, <1>3, <1>6 DEF Brings, HeardBefore

(* The triggers before the anchor were accepted.                            *)
LEMMA EarlyAnswered ==
    ASSUME TypeOK, Consistent, Surveyed, NEW m, Proper(m),
           NEW p \in Got \ EverRefused, Early(m, p)
    PROVE  p \in Posts \ Candidates /\ Answered(m, p)
<1>1. p \in Posts
  BY DEF Posts, EverRefused
<1>2. ASSUME Kind[p] = "trigger", p \notin Candidates
      PROVE  \E j \in DOMAIN pass.snap : p \in history[j].triggers
  <2>1. PICK j \in DOMAIN pass.snap : p \in pass.snap[j].triggers
    BY <1>1, <1>2 DEF Candidates, KnownTriggers
  <2> QED BY <2>1, SnapIs
<1>3. CASE Fresh(m)
  <2>1. p \notin Candidates
    <3>1. thread[p].at < thread[m.anchor].at
      BY DEF Early
    <3>2. ASSUME p \in Candidates PROVE FALSE
      <4>1. thread[m.anchor].at <= thread[p].at
        BY <1>3, <3>2 DEF Fresh
      <4>2. thread[m.anchor].at \in Nat /\ thread[p].at \in Nat
        BY <1>3, <3>2, CandidatesRead DEF Fresh, TypeOK, ThreadOK, PostState
      <4> QED BY <3>1, <4>1, <4>2
    <3> QED BY <3>2
  <2> QED BY <1>1, <1>2, <2>1 DEF Answered
<1>4. CASE CarriedOver(m) \/ Resent(m)
  <2>1. PICK c : c = m.pred
    OBVIOUS
  <2>2. c \in DOMAIN pass.snap /\ m.anchor = pass.snap[c].anchor
    BY <1>4, <2>1 DEF CarriedOver, Resent
  <2>3. c \in DOMAIN history /\ Early(history[c], p)
    BY <2>2, SnapIs DEF Early
  <2>4. p \in Standing /\ OrderOK(c)
    BY <2>3 DEF Standing, Surveyed, MessageOK
  <2>5. ASSUME Kind[p] = "trigger"
        PROVE  \E j \in DOMAIN pass.snap : p \in history[j].triggers
    <3>1. PICK j \in 1 .. c : p \in history[j].triggers
      BY <2>3, <2>4, <2>5 DEF OrderOK
    <3> QED BY <2>2, <3>1, SnapIs
  <2>6. p \notin Candidates
    <3>1. ASSUME Kind[p] = "trigger" PROVE p \in KnownTriggers
      <4>1. PICK j \in DOMAIN pass.snap : p \in history[j].triggers
        BY <2>5, <3>1
      <4> QED BY <4>1, SnapIs DEF KnownTriggers
    <3> QED BY <3>1 DEF Candidates
  <2> QED BY <1>1, <2>5, <2>6 DEF Answered
<1> QED BY <1>3, <1>4 DEF Proper

LEMMA ProperWhole ==
    ASSUME TypeOK, Consistent, Surveyed, NEW m, Proper(m)
    PROVE  /\ Whole(m) /\ m.anchor \in DOMAIN thread /\ Mentioned(m) \subseteq Brings(m)
           /\ m.pred # 0 => m.pred \in DOMAIN history
<1>1. CASE Fresh(m)
  <2>1. m.anchor \in DOMAIN thread
    BY <1>1, CandidatesRead DEF Fresh, TypeOK
  <2>2. ASSUME ~m.omitted, NEW p \in Got \ EverRefused, Kind[p] # "bot", Early(m, p), p \notin Brings(m)
        PROVE  ~pass.initial /\ \E j \in DOMAIN pass.snap : Handed(j) /\ p \in Brings(history[j])
    <3>1. p \in Posts \ Candidates
      BY <2>2, EarlyAnswered
    <3>2. ~pass.initial /\ p \in KnownContext
      BY <1>1, <2>2, <3>1 DEF Fresh, Early, Brings
    <3>3. PICK j \in Delivered : p \in pass.snap[j].contexts \cup pass.snap[j].triggers
      BY <3>2 DEF KnownContext
    <3>4. j \in DOMAIN pass.snap /\ pass.snap[j].delivery = "delivered" /\ p \in Mentioned(pass.snap[j])
      BY <3>3 DEF Delivered, Mentioned
    <3>5. Handed(j) /\ p \in Mentioned(history[j]) /\ j \in DOMAIN history
      BY <3>4, SnapIs
    <3>6. p \in Brings(history[j])
      BY <3>5 DEF Surveyed, MessageOK
    <3> QED BY <3>2, <3>4, <3>5, <3>6
  <2>3. Whole(m)
    BY <2>2 DEF Whole
  <2> QED BY <1>1, <2>1, <2>3 DEF Fresh, Brings
<1>2. ASSUME NEW c, c = m.pred, c \in DOMAIN pass.snap, m.anchor = pass.snap[c].anchor
      PROVE  /\ m.anchor \in DOMAIN thread
             /\ Mentioned(pass.snap[c]) \subseteq Brings(pass.snap[c])
             /\ c \in DOMAIN history /\ CoverOK(c)
  <2>1. c \in DOMAIN history /\ MessageOK(c)
    BY <1>2, SnapIs DEF Surveyed
  <2> QED BY <1>2, <2>1, SnapIs DEF MessageOK
<1>3. CASE CarriedOver(m)
  <2>1. PICK c : c = m.pred
    OBVIOUS
  <2>2. /\ c \in DOMAIN pass.snap /\ m.anchor = pass.snap[c].anchor
        /\ Brings(pass.snap[c]) \subseteq Brings(m)
        /\ Mentioned(m) \subseteq PostsIn(m) \cup Mentioned(pass.snap[c])
        /\ m.omitted \/ \A p \in Posts \ Candidates : p \in PostsIn(m) \cup Mentioned(pass.snap[c])
    BY <1>3, <2>1, CarriedBrings DEF CarriedOver
  <2>3. m.anchor \in DOMAIN thread /\ Mentioned(pass.snap[c]) \subseteq Brings(m) /\ c \in DOMAIN history
    BY <1>2, <2>1, <2>2
  <2>4. Whole(m)
    BY <2>2, <2>3, EarlyAnswered DEF Whole, Brings
  <2> QED BY <2>1, <2>2, <2>3, <2>4 DEF Brings
<1>4. CASE Resent(m)
  <2>1. PICK c : c = m.pred
    OBVIOUS
  <2>2. /\ ~pass.initial /\ c \in DOMAIN pass.snap /\ m.anchor = pass.snap[c].anchor
        /\ Mentioned(m) = Mentioned(pass.snap[c]) /\ Brings(pass.snap[c]) \subseteq Brings(m)
        /\ m.omitted = pass.snap[c].omitted
    BY <1>4, <2>1, CarriedBrings DEF Resent, Mentioned
  <2>3. m.anchor \in DOMAIN thread /\ Mentioned(m) \subseteq Brings(m) /\ CoverOK(c) /\ c \in DOMAIN history
    BY <1>2, <2>1, <2>2
  <2>4. /\ m.omitted = history[c].omitted /\ m.anchor = history[c].anchor /\ Brings(history[c]) \subseteq Brings(m)
        /\ \A j \in 1 .. (c - 1) : j \in DOMAIN pass.snap
    BY <2>2, SnapIs
  <2>5. ASSUME history[c].omitted PROVE Whole(m)
    BY <2>4, <2>5 DEF Whole
  <2>6. ASSUME \E j \in 1 .. (c - 1) : Handed(j) /\ history[j].omitted PROVE Whole(m)
    BY <2>2, <2>4, <2>6 DEF Whole
  <2>7. ASSUME \A p \in Standing :
                  Kind[p] # "bot" /\ Early(history[c], p) =>
                      \/ p \in Brings(history[c])
                      \/ \E j \in 1 .. (c - 1) : Handed(j) /\ p \in Brings(history[j])
        PROVE  Whole(m)
    <3>1. ASSUME NEW p \in Got \ EverRefused, Kind[p] # "bot", Early(m, p), p \notin Brings(m)
          PROVE  \E j \in DOMAIN pass.snap : Handed(j) /\ p \in Brings(history[j])
      <4>1. p \in Standing /\ Early(history[c], p)
        BY <2>4, <3>1 DEF Standing, Early
      <4> QED BY <2>4, <2>7, <3>1, <4>1
    <3> QED BY <2>2, <3>1 DEF Whole
  <2>8. Whole(m)
    BY <2>3, <2>5, <2>6, <2>7 DEF CoverOK
  <2> QED BY <2>1, <2>3, <2>8
<1> QED BY <1>1, <1>3, <1>4 DEF Proper

LEMMA MessageJoins ==
    ASSUME TypeOK, Consistent, Reading, Attentive, Surveyed, EndPass, HistoryKept,
           NEW m \in Message, Proper(m), history' = Append(history, m), NEW n, n = Len(history) + 1
    PROVE  MessageOK(n)'
<1>1. /\ history'[n] = m /\ Len(history) \in Nat
      /\ \A j \in DOMAIN history : j \in 1 .. (n - 1) /\ j \in 1 .. n /\ Kept(history[j], history'[j])
  BY Appended, HistoryElements DEF TypeOK, HistoryKept
<1>2. \A j \in DOMAIN pass.snap : j \in DOMAIN history
  BY SnapIs
<1>3. /\ Whole(m) /\ m.anchor \in DOMAIN thread /\ Mentioned(m) \subseteq Brings(m)
      /\ m.pred # 0 => m.pred \in DOMAIN history
  BY ProperWhole
<1>4. thread' = thread /\ pass.pc = "done" /\ Got' = {}
  BY NoPassTyped DEF EndPass, Got
<1>5. \A j \in DOMAIN history :
          /\ history'[j].triggers = history[j].triggers /\ history'[j].omitted = history[j].omitted
          /\ Brings(history[j]) \subseteq Brings(history[j])' /\ (Handed(j) => Handed(j)')
  <2> SUFFICES ASSUME NEW j \in DOMAIN history
               PROVE  /\ history'[j].triggers = history[j].triggers /\ history'[j].omitted = history[j].omitted
                      /\ Brings(history[j]) \subseteq Brings(history[j])' /\ (Handed(j) => Handed(j)')
    OBVIOUS
  <2>1. Kept(history[j], history'[j]) /\ PredBefore(j)
    BY <1>1 DEF Surveyed, MessageOK
  <2>2. Brings(history[j]) \subseteq Brings(history[j])'
    BY <2>1, BringsStay
  <2> QED BY <2>1, <2>2 DEF Kept, Handed
<1>6. Brings(m) \subseteq Brings(history[n])' /\ PredBefore(n)'
  <2>1. Brings(m) \subseteq Brings(m)'
    BY <1>3, BringsGrow
  <2>2. Brings(m)' = Brings(history[n])'
    BY <1>1 DEF Brings, PostsIn, HeardBefore
  <2> QED BY <1>1, <1>3, <2>1, <2>2 DEF PredBefore
<1>7. ASSUME NEW p \in Standing', Early(m, p)
      PROVE  p \in Got \ EverRefused
  <2>1. [Next]_vars
    BY DEF Next
  <2>2. EverRefused \subseteq EverRefused'
    BY <2>1, RefusedGrows DEF EverRefused
  <2>3. p \in LivePosts \ EverRefused
    BY <1>4, <1>7, <2>2 DEF Standing, LivePosts, Live
  <2>4. thread[p].at < now
    <3>1. /\ thread[p].at \in Nat /\ thread[m.anchor].at \in Nat /\ now \in Nat
          /\ thread[m.anchor].at <= now
      BY <1>3, <2>3 DEF TypeOK, ThreadOK, PostState, LivePosts
    <3> QED BY <1>7, <3>1 DEF Early
  <2>5. p \in pass.start
    BY <1>4, <2>3, <2>4 DEF Attentive
  <2> QED BY <1>4, <2>3, <2>5 DEF Reading, ReadWhole
<1>8. \A p : Early(m, p)' => Early(m, p)
  BY <1>4 DEF Early
<1>9. OrderOK(n)'
  <2> SUFFICES ASSUME NEW p \in Standing', Kind[p] = "trigger", Early(m, p)'
               PROVE  \E j \in 1 .. n : p \in history'[j].triggers
    BY <1>1 DEF OrderOK, Early
  <2>1. p \in Got \ EverRefused /\ Early(m, p)
    BY <1>7, <1>8
  <2>2. PICK j \in DOMAIN pass.snap : p \in history[j].triggers
    BY <2>1, EarlyAnswered DEF Answered
  <2> QED BY <1>1, <1>2, <1>5, <2>2
<1>10. CoverOK(n)'
  <2>1. CASE m.omitted
    BY <1>1, <2>1 DEF CoverOK
  <2>2. CASE \E j \in DOMAIN pass.snap : Handed(j) /\ history[j].omitted
    <3>1. \E j \in 1 .. (n - 1) : Handed(j)' /\ history'[j].omitted
      BY <1>1, <1>2, <1>5, <2>2
    <3> QED BY <3>1 DEF CoverOK
  <2>3. CASE \A p \in Got \ EverRefused :
                Kind[p] # "bot" /\ Early(m, p) =>
                    p \in Brings(m) \/ \E j \in DOMAIN pass.snap : Handed(j) /\ p \in Brings(history[j])
    <3>1. ASSUME NEW p \in Standing', Kind[p] # "bot", Early(m, p)'
          PROVE  p \in Brings(history[n])' \/ \E j \in 1 .. (n - 1) : Handed(j)' /\ p \in Brings(history[j])'
      <4>1. p \in Brings(m) \/ \E j \in DOMAIN pass.snap : Handed(j) /\ p \in Brings(history[j])
        BY <1>7, <1>8, <2>3, <3>1
      <4> QED BY <1>1, <1>2, <1>5, <1>6, <4>1
    <3> QED BY <1>1, <3>1 DEF CoverOK, Early
  <2> QED BY <1>3, <2>1, <2>2, <2>3 DEF Whole
<1>11. m.anchor \in DOMAIN thread' /\ Mentioned(m) \subseteq Brings(history[n])'
  BY <1>3, <1>4, <1>6
<1> QED BY <1>1, <1>9, <1>10, <1>6, <1>11 DEF MessageOK, Mentioned

LEMMA SurveyedStep ==
    TypeOK /\ Consistent /\ Reading /\ Attentive /\ Surveyed /\ [Next]_vars => Surveyed'
<1> SUFFICES ASSUME TypeOK, Consistent, Reading, Attentive, Surveyed, [Next]_vars PROVE Surveyed'
  OBVIOUS
<1>1. HistoryStep /\ HistoryKept
  BY StepTyped DEF HistoryStep
<1>2. \A i \in DOMAIN history : MessageOK(i)'
  BY MessageStays DEF Surveyed
<1>3. CASE DOMAIN history' = DOMAIN history
  BY <1>2, <1>3 DEF Surveyed
<1>4. ASSUME NEW m \in Message, EndPass, Proper(m), history' = Append(history, m)
      PROVE  Surveyed'
  <2>1. PICK n : n = Len(history) + 1
    OBVIOUS
  <2>2. DOMAIN history' = DOMAIN history \cup {n}
    BY <1>4, <2>1, Appended
  <2>3. MessageOK(n)'
    BY <1>1, <1>4, <2>1, MessageJoins
  <2> QED BY <1>2, <2>2, <2>3 DEF Surveyed
<1> QED BY <1>1, <1>3, <1>4 DEF HistoryStep

LEMMA WholeCovers ==
    ASSUME TypeOK, Consistent, NEW m, Whole(m)
    PROVE  Covered(m, {m} \cup IF pass.initial THEN {} ELSE Reaching)
<1> DEFINE told == {m} \cup IF pass.initial THEN {} ELSE Reaching
<1>1. m \in told
  OBVIOUS
<1>2. ASSUME ~pass.initial, NEW j \in DOMAIN pass.snap, Handed(j)
      PROVE  /\ pass.snap[j] \in told /\ pass.snap[j].omitted = history[j].omitted
             /\ Brings(pass.snap[j]) = Brings(history[j])
  <2>1. Reaches(pass.snap[j])
    BY <1>2, SnapIs
  <2>2. pass.snap[j] \in Reaching
    BY <2>1 DEF Reaching, Reaches
  <2> QED BY <1>2, <2>2, SnapIs
<1> HIDE DEF told
<1>3. CASE m.omitted
  BY <1>1, <1>3 DEF Covered, told
<1>4. CASE ~pass.initial /\ \E j \in DOMAIN pass.snap : Handed(j) /\ history[j].omitted
  <2>1. \E n \in told : n.omitted
    BY <1>2, <1>4
  <2> QED BY <2>1 DEF Covered, told
<1>5. CASE \A p \in Got \ EverRefused :
              Kind[p] # "bot" /\ Early(m, p) =>
                  \/ p \in Brings(m)
                  \/ ~pass.initial /\ \E j \in DOMAIN pass.snap : Handed(j) /\ p \in Brings(history[j])
  <2>1. ASSUME NEW p \in Earlier(m) PROVE \E n \in told : p \in Brings(n)
    <3>1. p \in Got \ EverRefused /\ Kind[p] # "bot" /\ Early(m, p)
      BY <2>1 DEF Earlier, Early
    <3>2. \/ p \in Brings(m)
          \/ ~pass.initial /\ \E j \in DOMAIN pass.snap : Handed(j) /\ p \in Brings(history[j])
      BY <1>5, <3>1
    <3> QED BY <1>1, <1>2, <3>2
  <2>2. Earlier(m) \subseteq UNION {PostsIn(n) \cup HeardBefore(n) : n \in told}
    BY <2>1 DEF Brings
  <2> QED BY <2>2 DEF Covered, told
<1> QED BY <1>3, <1>4, <1>5 DEF Whole

(* What was written before a batch is not passed over: the request has it, or
   one that the agent was given in an earlier request had it, or it was given
   with the part that was delivered of a clarification one of them carries
   over, or one of them says that posts were omitted; but for posts once
   refused as too large.                                                    *)
THEOREM PassesNothingOver == Spec => NothingPassedOver
<1>1. Init => Reading /\ Attentive /\ Surveyed
  <2> SUFFICES ASSUME Init PROVE Reading /\ Attentive /\ Surveyed
    OBVIOUS
  <2>1. pass.pc = "idle"
    BY NoPassTyped DEF Init
  <2>2. Live(Root)
    <3>1. DOMAIN thread = {Root} /\ thread[Root].live
      BY DEF Init
    <3> QED BY <3>1 DEF Live
  <2>3. history = <<>>
    BY DEF Init
  <2> QED BY <2>1, <2>2, <2>3 DEF Reading, ToCome, ReadWhole, Attentive, Surveyed
<1>2. TypeOK /\ Consistent /\ Surveyed /\ [Next]_vars =>
          (Len(history') > Len(history) =>
              Covered(Last(history'), {Last(history')} \cup IF pass.initial THEN {} ELSE Reaching))
  <2> SUFFICES ASSUME TypeOK, Consistent, Surveyed, [Next]_vars, Len(history') > Len(history)
               PROVE  Covered(Last(history'), {Last(history')} \cup IF pass.initial THEN {} ELSE Reaching)
    OBVIOUS
  <2>1. HistoryStep /\ TypeOK'
    BY StepTyped
  <2>2. DOMAIN history' # DOMAIN history
    <3>1. Len(history) \in Nat /\ DOMAIN history = 1 .. Len(history)
      BY HistoryElements DEF TypeOK
    <3>2. history' \in Seq(Message)
      BY <2>1 DEF TypeOK, HistoryOK
    <3>3. Len(history') \in Nat /\ DOMAIN history' = 1 .. Len(history')
      BY <3>2
    <3>4. Len(history') \in DOMAIN history'
      BY <3>1, <3>3
    <3> QED BY <3>1, <3>4
  <2>3. PICK m \in Message : Proper(m) /\ history' = Append(history, m)
    BY <2>1, <2>2 DEF HistoryStep
  <2>4. PICK n : n = Len(history) + 1
    OBVIOUS
  <2>5. history'[n] = m /\ Len(history') = n
    <3>1. Len(history') = Len(history) + 1
      BY <2>3, AppendElements DEF TypeOK, HistoryOK
    <3> QED BY <2>3, <2>4, <3>1, Appended
  <2>6. Last(history') = m
    BY <2>5 DEF Last
  <2>7. Whole(m)
    BY <2>3, ProperWhole
  <2> QED BY <2>6, <2>7, WholeCovers
<1>3. TypeOK /\ [Next]_vars => TypeOK'
  BY StepTyped
<1>4. NothingPassedOver <=>
          [][Len(history') > Len(history) =>
                Covered(Last(history'), {Last(history')} \cup IF pass.initial THEN {} ELSE Reaching)]_vars
  BY DEF NothingPassedOver
<1> QED BY <1>1, <1>2, <1>3, <1>4, AlwaysConsistent, ReadingStep, AttentiveStep, SurveyedStep, PTL DEF Spec
=============================================================================
