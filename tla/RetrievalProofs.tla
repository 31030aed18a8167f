-------------------------- MODULE RetrievalProofs --------------------------
(***************************************************************************)
(* What holds of the calls of a replica for any specs, calls and numbers of*)
(* texts, beside what holds of the replica itself (VLLMStartupProofs).     *)
(***************************************************************************)
EXTENDS Retrieval, VLLMStartupProofs, NaturalsInduction, WellFoundedInduction,
        FiniteSetTheorems, SequenceTheorems

(* Ranked is a choice: to say what it is, one must know that there is one. *)

Less == OpToRel(<, Nat)

(* Some member of a set of numbers is the least one.                       *)
LEMMA LeastExists ==
  ASSUME NEW T \in SUBSET Nat, T # {}
  PROVE  \E x \in T : \A y \in T : x <= y
<1>1. IsWellFoundedOn(Less, Nat)
  BY NatLessThanWellFounded DEF Less
<1>2. PICK x \in T : \A y \in T : <<y, x>> \notin Less
  BY <1>1, WFMin
<1>3. \A y \in Nat : <<y, x>> \in Less <=> y < x
  BY Zenon DEF Less, OpToRel
<1>4. \A y \in T : ~(y < x)
  BY <1>2, <1>3, Zenon
<1> QED BY <1>4

(* The order a ranking has, as Ranked states it.                           *)
Before(s, x, y) ==
  \/ s[x] > s[y]
  \/ s[x] = s[y] /\ x < y

Ordered(s, q) == \A i, j \in DOMAIN q : i < j => Before(s, q[i], q[j])

(* An order is strict: no place is there twice.                            *)
LEMMA OrderedIsInjective ==
  ASSUME NEW n \in Nat, NEW s \in [1..n -> Nat], NEW q \in [1..n -> 1..n], Ordered(s, q)
  PROVE  IsInjective(q)
<1> SUFFICES ASSUME NEW a \in 1..n, NEW b \in 1..n, q[a] = q[b] PROVE a = b
  BY DEF IsInjective
<1>1. \A x \in 1..n : ~Before(s, x, x)
  <2> TAKE x \in 1..n
  <2>1. s[x] \in Nat
    OBVIOUS
  <2> QED BY <2>1 DEF Before
<1>2. q[a] \in 1..n /\ q[b] \in 1..n
  OBVIOUS
<1>3. ~(a < b) /\ ~(b < a)
  BY <1>1, <1>2 DEF Ordered
<1> QED BY <1>3

(* One more document finds its place in a ranking: before the first that   *)
(* scores less.                                                            *)
LEMMA Insertion ==
  ASSUME NEW m \in Nat, NEW s \in [1..(m + 1) -> Nat], NEW p \in [1..m -> 1..m],
         Ordered(s, p)
  PROVE  \E q \in [1..(m + 1) -> 1..(m + 1)] : Ordered(s, q)
<1> DEFINE last == m + 1
           T == {i \in 1..m : s[p[i]] < s[last]} \cup {last}
<1>1. PICK k \in T : \A y \in T : k <= y
  <2>1. T \in SUBSET Nat /\ T # {}
    OBVIOUS
  <2> HIDE DEF T
  <2> QED BY <2>1, LeastExists
<1>2. k \in Nat /\ 1 <= k /\ k <= last
  OBVIOUS
<1>3. ASSUME NEW i \in 1..m PROVE p[i] \in 1..m /\ p[i] \in 1..last /\ p[i] < last
  <2>1. p[i] \in 1..m
    OBVIOUS
  <2>2. \A x \in 1..m : x \in 1..last /\ x < last
    OBVIOUS
  <2> HIDE DEF last
  <2> QED BY <2>1, <2>2
<1>4. /\ \A x \in 1..last : s[x] \in Nat
      /\ s[last] \in Nat
  OBVIOUS
<1>5. ASSUME NEW i \in 1..m, i < k PROVE Before(s, p[i], last)
  <2>1. i \notin T
    <3>1. ~(k <= i)
      BY <1>2, <1>5
    <3> QED BY <1>1, <3>1
  <2>2. ~(s[p[i]] < s[last])
    BY <2>1
  <2>3. s[p[i]] \in Nat /\ s[last] \in Nat
    <3> HIDE DEF last
    <3> QED BY <1>3, <1>4
  <2>4. s[p[i]] > s[last] \/ s[p[i]] = s[last]
    <3>1. \A x, y \in Nat : ~(x < y) => x > y \/ x = y
      OBVIOUS
    <3> HIDE DEF last
    <3> QED BY <2>2, <2>3, <3>1, Zenon
  <2> QED BY <1>3, <2>4 DEF Before
<1>6. ASSUME NEW i \in 1..m, i >= k PROVE Before(s, last, p[i])
  <2>1. k \in 1..m /\ s[p[k]] < s[last]
    BY <1>1, <1>2, <1>6
  <2>2. s[p[i]] \in Nat /\ s[last] \in Nat /\ s[p[k]] \in Nat
    <3> HIDE DEF last
    <3> QED BY <1>3, <1>4, <2>1
  <2>3. i = k \/ k < i
    BY <1>2, <1>6
  <2>4. CASE k < i
    <3>1. Before(s, p[k], p[i])
      BY <2>1, <2>4 DEF Ordered
    <3>2. \A x, y, z \in Nat : (x > y \/ x = y) /\ x < z => z > y
      OBVIOUS
    <3>3. s[p[k]] > s[p[i]] \/ s[p[k]] = s[p[i]]
      BY <3>1, Zenon DEF Before
    <3> HIDE DEF last
    <3>4. s[last] > s[p[i]]
      BY <2>1, <2>2, <3>2, <3>3, Zenon
    <3> QED BY <3>4 DEF Before
  <2>5. CASE i = k
    BY <2>1, <2>2, <2>5 DEF Before
  <2> QED BY <2>3, <2>4, <2>5
<1> DEFINE q == [i \in 1..last |-> IF i < k THEN p[i] ELSE IF i = k THEN last ELSE p[i - 1]]
<1>7. ASSUME NEW i \in 1..last
      PROVE  /\ i < k => q[i] = p[i] /\ i \in 1..m
             /\ i = k => q[i] = last
             /\ i > k => q[i] = p[i - 1] /\ i - 1 \in 1..m /\ i - 1 >= k
  BY <1>2
<1>8. DOMAIN q = 1..last /\ q = [i \in 1..last |-> q[i]]
  OBVIOUS
<1> HIDE DEF q, T
<1>9. ASSUME NEW i \in 1..last PROVE q[i] \in 1..last
  <2>1. i < k \/ i = k \/ i > k
    BY <1>2
  <2>2. last \in 1..last
    OBVIOUS
  <2> HIDE DEF last
  <2> QED BY <1>3, <1>7, <2>1, <2>2
<1>10. ASSUME NEW i \in 1..last, NEW j \in 1..last, i < j
       PROVE  Before(s, q[i], q[j])
  <2>0. i \in Int /\ j \in Int
    OBVIOUS
  <2> HIDE DEF last
  <2>1. CASE j < k
    <3>1. i < k
      BY <1>2, <1>10, <2>0, <2>1
    <3>2. q[i] = p[i] /\ q[j] = p[j] /\ i \in 1..m /\ j \in 1..m
      BY <1>7, <2>1, <3>1
    <3> QED BY <1>10, <3>2 DEF Ordered
  <2>2. CASE j = k
    <3>1. q[i] = p[i] /\ q[j] = last /\ i \in 1..m /\ i < k
      BY <1>7, <1>10, <2>2
    <3> QED BY <1>5, <3>1
  <2>3. CASE j > k /\ i = k
    <3>1. q[j] = p[j - 1] /\ q[i] = last /\ j - 1 \in 1..m /\ j - 1 >= k
      BY <1>7, <2>3
    <3> QED BY <1>6, <3>1
  <2>4. CASE j > k /\ i < k
    <3>1. q[j] = p[j - 1] /\ q[i] = p[i] /\ j - 1 \in 1..m /\ i \in 1..m /\ j - 1 >= k
      BY <1>7, <2>4
    <3>2. i < j - 1
      BY <1>2, <2>0, <2>4, <3>1
    <3> QED BY <3>1, <3>2 DEF Ordered
  <2>5. CASE i > k
    <3>1. j > k
      BY <1>2, <1>10, <2>0, <2>5
    <3>2. q[j] = p[j - 1] /\ q[i] = p[i - 1] /\ j - 1 \in 1..m /\ i - 1 \in 1..m
      BY <1>7, <2>5, <3>1
    <3>3. i - 1 < j - 1
      BY <1>10, <2>0
    <3> QED BY <3>2, <3>3 DEF Ordered
  <2>6. (j < k) \/ (j = k) \/ (j > k /\ i = k) \/ (j > k /\ i < k) \/ i > k
    BY <1>2, <2>0
  <2> QED BY <2>1, <2>2, <2>3, <2>4, <2>5, <2>6
<1>11. q \in [1..last -> 1..last]
  BY <1>8, <1>9
<1>12. Ordered(s, q)
  BY <1>8, <1>10 DEF Ordered
<1> QED BY <1>11, <1>12

(* Any number of scores can be ranked.                                     *)
LEMMA RankingExists ==
  ASSUME NEW n \in Nat, NEW s \in [1..n -> Nat]
  PROVE  \E q \in [1..n -> 1..n] : Ordered(s, q)
<1> DEFINE Can(k, t) == \E q \in [1..k -> 1..k] : Ordered(t, q)
           Bad == {k \in Nat : \E t \in [1..k -> Nat] : ~Can(k, t)}
<1>1. ASSUME Bad # {} PROVE FALSE
  <2>1. PICK k \in Bad : \A y \in Bad : k <= y
    <3>1. Bad \in SUBSET Nat
      OBVIOUS
    <3> HIDE DEF Bad
    <3> QED BY <1>1, <3>1, LeastExists
  <2>2. PICK t \in [1..k -> Nat] : ~Can(k, t)
    OBVIOUS
  <2>3. k \in Nat
    OBVIOUS
  <2>4. k # 0
    <3> SUFFICES ASSUME k = 0 PROVE FALSE
      OBVIOUS
    <3>1. 1..k = {}
      OBVIOUS
    <3>2. [i \in 1..k |-> i] \in [1..k -> 1..k]
      OBVIOUS
    <3>3. Ordered(t, [i \in 1..k |-> i])
      BY <3>1 DEF Ordered
    <3> QED BY <2>2, <3>2, <3>3
  <2> DEFINE m == k - 1
             u == [i \in 1..m |-> t[i]]
  <2>5. m \in Nat /\ m + 1 = k /\ m < k
    BY <2>3, <2>4
  <2>6. u \in [1..m -> Nat]
    BY <2>3, <2>4
  <2>7. m \notin Bad
    <3>1. ~(k <= m)
      BY <2>5
    <3> HIDE DEF Bad
    <3> QED BY <2>1, <3>1
  <2>8. PICK p \in [1..m -> 1..m] : Ordered(u, p)
    BY <2>5, <2>6, <2>7
  <2>9. Ordered(t, p)
    <3>1. \A i \in 1..m : p[i] \in 1..m /\ u[p[i]] = t[p[i]]
      OBVIOUS
    <3>2. DOMAIN p = 1..m
      OBVIOUS
    <3> HIDE DEF m, u
    <3> QED BY <2>8, <3>1, <3>2 DEF Ordered, Before
  <2>10. t \in [1..(m + 1) -> Nat]
    BY <2>5
  <2> HIDE DEF m
  <2>11. \E q \in [1..(m + 1) -> 1..(m + 1)] : Ordered(t, q)
    BY <2>5, <2>9, <2>10, Insertion
  <2> QED BY <2>2, <2>5, <2>11
<1>2. n \notin Bad
  BY <1>1
<1> QED BY <1>2

(* So Ranked is a ranking.                                                 *)
LEMMA RankedIsRanking ==
  ASSUME NEW n \in Nat, NEW s \in [1..n -> Nat]
  PROVE  /\ Ranked(s) \in [1..n -> 1..n]
         /\ IsInjective(Ranked(s))
         /\ Ordered(s, Ranked(s))
<1>1. PICK q \in [1..n -> 1..n] : Ordered(s, q)
  BY RankingExists
<1>2. IsInjective(q)
  BY <1>1, OrderedIsInjective
<1> DEFINE R == {r \in [DOMAIN s -> DOMAIN s] : IsInjective(r)}
           Good(r) == \A i, j \in DOMAIN s : i < j =>
                        \/ s[r[i]] > s[r[j]]
                        \/ s[r[i]] = s[r[j]] /\ r[i] < r[j]
<1>3. DOMAIN s = 1..n
  OBVIOUS
<1>4. q \in R /\ Good(q)
  BY <1>1, <1>2, <1>3 DEF Ordered, Before
<1>5. Ranked(s) = CHOOSE r \in R : Good(r)
  BY DEF Ranked
<1>6. Ranked(s) \in R /\ Good(Ranked(s))
  <2> HIDE DEF R, Good
  <2> QED BY <1>4, <1>5
<1> QED BY <1>3, <1>6 DEF Ordered, Before

(* What RankedByScore asks of an answer.                                   *)
IsRanking(scored, out, texts, top_n) ==
  /\ IsInjective(out)
  /\ Range(out) \subseteq 1..texts
  /\ \A i \in 1..Len(out) - 1 : scored[out[i]] >= scored[out[i + 1]]
  /\ \A i \in DOMAIN scored \ Range(out) : \A j \in Range(out) : scored[i] <= scored[j]
  /\ Len(out) < Len(scored) => Len(out) = top_n

(* The ranking, cut or not.                                                *)
LEMMA BestIsCut ==
  ASSUME NEW n \in Nat, NEW s \in [1..n -> Nat], NEW top_n \in Nat
  PROVE  \E k \in 0..n :
           /\ Best(s, top_n) = [i \in 1..k |-> Ranked(s)[i]]
           /\ (k = n \/ k = top_n)
<1> DEFINE q == Ranked(s)
<1>1. q \in [1..n -> 1..n]
  BY RankedIsRanking
<1>2. q \in Seq(1..n) /\ Len(q) = n
  BY <1>1
<1>3. CASE top_n > 0 /\ top_n < n
  <2>1. Best(s, top_n) = SubSeq(q, 1, top_n)
    BY <1>2, <1>3 DEF Best, Cut
  <2>2. \A i \in 1..top_n : q[i] \in 1..n
    BY <1>1, <1>3
  <2> HIDE DEF q
  <2>3. /\ SubSeq(q, 1, top_n) \in Seq(1..n)
        /\ Len(SubSeq(q, 1, top_n)) = top_n
        /\ \A i \in 1..top_n : SubSeq(q, 1, top_n)[i] = q[i]
    <3>1. 1 \in Int /\ top_n \in Int
      OBVIOUS
    <3>2. /\ SubSeq(q, 1, top_n) \in Seq(1..n)
          /\ Len(SubSeq(q, 1, top_n)) = IF 1 <= top_n THEN top_n - 1 + 1 ELSE 0
          /\ \A i \in 1..(top_n - 1 + 1) : SubSeq(q, 1, top_n)[i] = q[1 + i - 1]
      BY <2>2, <3>1, SubSeqProperties
    <3> QED BY <1>3, <3>2
  <2>4. SubSeq(q, 1, top_n) = [i \in 1..top_n |-> q[i]]
    BY <2>3
  <2> QED BY <1>3, <2>1, <2>4 DEF q
<1>4. CASE ~(top_n > 0 /\ top_n < n)
  <2>1. Best(s, top_n) = q
    BY <1>2, <1>4 DEF Best, Cut
  <2>2. q = [i \in 1..n |-> q[i]]
    BY <1>1
  <2> QED BY <2>1, <2>2
<1> QED BY <1>3, <1>4

(* A ranking of all documents has them all.                                *)
LEMMA RankedHasAll ==
  ASSUME NEW n \in Nat, NEW s \in [1..n -> Nat], NEW x \in 1..n
  PROVE  \E a \in 1..n : Ranked(s)[a] = x
<1>1. Ranked(s) \in Injection(1..n, 1..n)
  BY RankedIsRanking DEF Injection
<1>2. IsFiniteSet(1..n)
  BY FS_Interval
<1>3. Ranked(s) \in Surjection(1..n, 1..n)
  BY <1>1, <1>2, FS_Injection
<1> QED BY <1>3 DEF Surjection

(* What Best gives is in order, complete up to its cut, and a sequence.    *)
LEMMA BestIsRanking ==
  ASSUME NEW n \in Nat, NEW s \in [1..n -> Nat], NEW top_n \in Nat,
         NEW texts \in Nat, n <= texts
  PROVE  /\ IsRanking(s, Best(s, top_n), texts, top_n)
         /\ \E k \in 0..n : Best(s, top_n) \in [1..k -> 1..n]
<1> DEFINE q == Ranked(s)
<1>1. PICK k \in 0..n : Best(s, top_n) = [i \in 1..k |-> q[i]] /\ (k = n \/ k = top_n)
  BY BestIsCut
<1> DEFINE out == [i \in 1..k |-> q[i]]
<1>2. q \in [1..n -> 1..n] /\ IsInjective(q) /\ Ordered(s, q)
  BY RankedIsRanking
<1>3. \A i \in 1..n : q[i] \in 1..n /\ s[q[i]] \in Nat
  <2> TAKE i \in 1..n
  <2>1. q[i] \in 1..n
    BY <1>2
  <2> QED BY <2>1
<1>4. ASSUME NEW a \in 1..n, NEW b \in 1..n, a < b PROVE s[q[a]] >= s[q[b]]
  <2>1. s[q[a]] > s[q[b]] \/ s[q[a]] = s[q[b]]
    BY <1>2, <1>4 DEF Ordered, Before
  <2>2. \A x, y \in Nat : x > y \/ x = y => x >= y
    OBVIOUS
  <2> QED BY <1>3, <2>1, <2>2
<1>5. \A x \in 1..n : \E a \in 1..n : q[a] = x
  BY RankedHasAll
<1>6. DOMAIN q = 1..n
  BY <1>2
<1>7. k \in Nat /\ k <= n /\ (\A i \in 1..k : i \in 1..n /\ i \in Nat)
  OBVIOUS
<1> HIDE DEF q
<1>8. out \in [1..k -> 1..n]
  BY <1>3, <1>7
<1>9. DOMAIN out = 1..k /\ Len(out) = k /\ \A i \in 1..k : out[i] = q[i]
  BY <1>7
<1>10. DOMAIN s = 1..n /\ Len(s) = n
  OBVIOUS
<1> HIDE DEF out
<1>11. Range(out) = {q[i] : i \in 1..k}
  BY <1>9 DEF Range
<1>12. IsInjective(out)
  BY <1>2, <1>6, <1>7, <1>9 DEF IsInjective
<1>13. Range(out) \subseteq 1..texts
  <2>1. \A x \in 1..n : x \in 1..texts
    OBVIOUS
  <2> QED BY <1>3, <1>7, <1>11, <2>1
<1>14. ASSUME NEW i \in 1..Len(out) - 1 PROVE s[out[i]] >= s[out[i + 1]]
  <2>1. i \in 1..k /\ i + 1 \in 1..k /\ i < i + 1
    BY <1>7, <1>9
  <2>2. i \in 1..n /\ i + 1 \in 1..n
    BY <1>7, <2>1
  <2>3. s[q[i]] >= s[q[i + 1]]
    BY <1>4, <2>1, <2>2
  <2> QED BY <1>9, <2>1, <2>3
<1>15. ASSUME NEW x \in DOMAIN s \ Range(out), NEW y \in Range(out)
       PROVE  s[x] <= s[y]
  <2>1. PICK a \in 1..n : q[a] = x
    BY <1>5, <1>10
  <2>2. PICK b \in 1..k : q[b] = y
    BY <1>11
  <2>3. a \notin 1..k
    BY <1>11, <2>1
  <2>4. b \in 1..n /\ b < a
    BY <1>7, <2>3
  <2>5. s[q[b]] >= s[q[a]]
    BY <1>4, <2>4
  <2>6. s[x] \in Nat /\ s[y] \in Nat
    BY <1>3, <2>1, <2>2, <2>4
  <2> QED BY <2>1, <2>2, <2>5, <2>6
<1>16. Len(out) < Len(s) => Len(out) = top_n
  BY <1>1, <1>7, <1>9, <1>10
<1>17. IsRanking(s, out, texts, top_n)
  BY <1>12, <1>13, <1>14, <1>15, <1>16 DEF IsRanking
<1> QED BY <1>1, <1>8, <1>17 DEF out

-----------------------------------------------------------------------------

(* A call that is with the adapter is one for embeddings, of a native model*)
AdapterIsNative ==
  \A c \in Calls : call[c].at = "adapter" => spec.native /\ call[c].method = "embed"

CInv ==
  /\ IInv
  /\ CallsTypeOK /\ AdapterIsNative
  /\ RankedByScore /\ EmptyOnlyOnNativeError /\ MisconfiguredOnlyIfForeign

-----------------------------------------------------------------------------

LEMMA NothingIsASequence == \A S : <<>> \in SeqOf(S, MaxTexts)
<1> TAKE S
<1>1. <<>> \in [1..0 -> S] /\ 0 \in 0..MaxTexts
  BY RetrievalAssumption
<1> QED BY <1>1 DEF SeqOf

LEMMA InitCInv == RInit => CInv
<1> SUFFICES ASSUME RInit PROVE CInv
  OBVIOUS
<1>1. IInv
  BY InitIInv DEF RInit
<1>2. call \in [Calls -> [at : {"idle"}, method : Methods, texts : 0..MaxTexts,
                          top_n : 0..MaxTexts, answer : {"none"}, scored : {<<>>}, out : {<<>>}]]
  BY DEF RInit
<1>3. CallsTypeOK
  BY <1>2, NothingIsASequence DEF CallsTypeOK, CallRecords
<1>4. \A c \in Calls : call[c].at = "idle" /\ call[c].answer = "none"
  BY <1>2
<1> QED
  BY <1>1, <1>3, <1>4 DEF CInv, AdapterIsNative, RankedByScore, EmptyOnlyOnNativeError,
                          MisconfiguredOnlyIfForeign, Answered

(* A step of the replica: its model stays what it is, so what an answer    *)
(* says of it stays true.                                                  *)
LEMMA ReplicaKeeps ==
  ASSUME CInv, [Next]_vars, UNCHANGED call
  PROVE  CInv'
<1>1. IInv'
  BY NextIInv DEF CInv
<1>2. UNCHANGED spec
  BY DEF Next, Startup, Validate, StartStub, CreateAsync, SkipAsync, LoadFails, Load,
         AsyncAdapter, CheckTask, SyncChatAdapter, SyncEmbeddingAdapter, Shutdown, Rebuild,
         At, vars
<1> QED
  BY <1>1, <1>2 DEF CInv, CallsTypeOK, AdapterIsNative, RankedByScore,
                    EmptyOnlyOnNativeError, MisconfiguredOnlyIfForeign, Answered

(* What an answer changes.                                                 *)
LEMMA AnswerGives ==
  ASSUME CallsTypeOK, NEW c \in Calls,
         NEW a \in {"ok", "invalid_input", "misconfigured", "failed"},
         NEW scored \in SeqOf(0..MaxScore, MaxTexts), NEW out \in SeqOf(1..MaxTexts, MaxTexts),
         Answer(c, a, scored, out)
  PROVE  /\ CallsTypeOK'
         /\ call'[c].at = "done" /\ call'[c].answer = a
         /\ call'[c].scored = scored /\ call'[c].out = out
         /\ call'[c].method = call[c].method /\ call'[c].texts = call[c].texts
         /\ call'[c].top_n = call[c].top_n
         /\ \A d \in Calls \ {c} : call'[d] = call[d]
<1> DEFINE A == {"idle", "adapter", "done"}
           N == 0..MaxTexts
           W == {"none", "ok", "invalid_input", "misconfigured", "failed"}
           T == SeqOf(0..MaxScore, MaxTexts)
           U == SeqOf(1..MaxTexts, MaxTexts)
<1>1. call \in [Calls -> [at : A, method : Methods, texts : N, top_n : N, answer : W,
                          scored : T, out : U]]
  BY DEF CallsTypeOK, CallRecords
<1>2. "done" \in A /\ a \in W /\ scored \in T /\ out \in U
  OBVIOUS
<1>3. call' = [call EXCEPT ![c].at = "done", ![c].answer = a, ![c].scored = scored,
                           ![c].out = out]
  BY DEF Answer
<1> HIDE DEF A, N, W, T, U
<1>4. call' \in [Calls -> [at : A, method : Methods, texts : N, top_n : N, answer : W,
                           scored : T, out : U]]
  BY <1>1, <1>2, <1>3
<1>5. CallsTypeOK'
  BY <1>4 DEF CallsTypeOK, CallRecords, A, N, W, T, U
<1>6. /\ call'[c].at = "done" /\ call'[c].answer = a
      /\ call'[c].scored = scored /\ call'[c].out = out
      /\ call'[c].method = call[c].method /\ call'[c].texts = call[c].texts
      /\ call'[c].top_n = call[c].top_n
      /\ \A d \in Calls \ {c} : call'[d] = call[d]
  BY <1>1, <1>3
<1> QED BY <1>5, <1>6

(* An answer keeps the invariant if it is right about the model.           *)
LEMMA AnswerKeeps ==
  ASSUME CInv, UNCHANGED vars,
         NEW c \in Calls, NEW a \in {"ok", "invalid_input", "misconfigured", "failed"},
         NEW scored \in SeqOf(0..MaxScore, MaxTexts), NEW out \in SeqOf(1..MaxTexts, MaxTexts),
         Answer(c, a, scored, out),
         a = "ok" /\ call[c].method = "score" =>
           IsRanking(scored, out, call[c].texts, call[c].top_n),
         a = "ok" /\ call[c].method = "embed" /\ out = <<>> => spec.native,
         a = "misconfigured" => spec.native /\ (call[c].method # spec.task \/ ~spec.real)
  PROVE  CInv'
<1>1. IInv'
  <2>1. [Next]_vars
    OBVIOUS
  <2> QED BY <2>1, NextIInv DEF CInv
<1>2. UNCHANGED spec
  BY DEF vars
<1>3. /\ CallsTypeOK'
      /\ call'[c].at = "done" /\ call'[c].answer = a
      /\ call'[c].scored = scored /\ call'[c].out = out
      /\ call'[c].method = call[c].method /\ call'[c].texts = call[c].texts
      /\ call'[c].top_n = call[c].top_n
      /\ \A d \in Calls \ {c} : call'[d] = call[d]
  BY AnswerGives DEF CInv
<1>4. RankedByScore'
  BY <1>3 DEF CInv, RankedByScore, Answered, IsRanking
<1> QED
  BY <1>1, <1>2, <1>3, <1>4 DEF CInv, AdapterIsNative, EmptyOnlyOnNativeError,
                                MisconfiguredOnlyIfForeign, Answered

(* Where there are texts, there are places.                                *)
LEMMA PlacesOfSome ==
  ASSUME NEW n \in 0..MaxTexts
  PROVE  /\ Places(n) \in SeqOf(1..MaxTexts, MaxTexts)
         /\ n > 0 => Places(n) # <<>>
<1>0. Places(n) \in [1..n -> 1..MaxTexts]
  BY RetrievalAssumption DEF Places
<1> SUFFICES ASSUME n > 0 PROVE Places(n) # <<>>
  BY <1>0 DEF SeqOf
<1>1. DOMAIN Places(n) = 1..n /\ 1 \in 1..n
  BY DEF Places
<1>2. DOMAIN <<>> = {}
  OBVIOUS
<1> QED BY <1>1, <1>2

(* A real replica of a native embedding model that is up has its adapter;  *)
(* one for scores does not come up.                                        *)
LEMMA NativeIsWhole ==
  ASSUME IInv, pc = "up", spec.native, spec.real
  PROVE  spec.task # "score" /\ (spec.task = "embed" => "embed" \in adapters)
BY DEF IInv, UpIsWhole, Valid, RequiresEmbedding

(* A refusal says nothing of the model, unless that it is misconfigured.   *)
LEMMA RefuseKeeps ==
  ASSUME CInv, UNCHANGED vars, NEW c \in Calls, NEW a \in {"invalid_input", "failed"},
         Refuse(c, a)
  PROVE  CInv'
BY AnswerKeeps, NothingIsASequence DEF Refuse

(* A ranking of scores is an answer that keeps the invariant.              *)
LEMMA RankingKeeps ==
  ASSUME CInv, UNCHANGED vars, NEW c \in Calls, call[c].method = "score",
         NEW n \in 0..MaxTexts, n <= call[c].texts, NEW scores \in [1..n -> 0..MaxScore],
         Answer(c, "ok", scores, Best(scores, call[c].top_n))
  PROVE  CInv'
<1>1. call[c].texts \in Nat /\ call[c].top_n \in Nat
  BY RetrievalAssumption DEF CInv, CallsTypeOK, CallRecords
<1>2. n \in Nat /\ scores \in [1..n -> Nat]
  BY RetrievalAssumption
<1>3. /\ IsRanking(scores, Best(scores, call[c].top_n), call[c].texts, call[c].top_n)
      /\ \E k \in 0..n : Best(scores, call[c].top_n) \in [1..k -> 1..n]
  BY <1>1, <1>2, BestIsRanking
<1>4. scores \in SeqOf(0..MaxScore, MaxTexts)
  BY DEF SeqOf
<1>5. Best(scores, call[c].top_n) \in SeqOf(1..MaxTexts, MaxTexts)
  <2>1. PICK k \in 0..n : Best(scores, call[c].top_n) \in [1..k -> 1..n]
    BY <1>3
  <2>2. k \in 0..MaxTexts /\ \A x \in 1..n : x \in 1..MaxTexts
    BY RetrievalAssumption
  <2>3. Best(scores, call[c].top_n) \in [1..k -> 1..MaxTexts]
    BY <2>1, <2>2
  <2> QED BY <2>2, <2>3 DEF SeqOf
<1> QED BY <1>3, <1>4, <1>5, AnswerKeeps

(* Every answer of every call keeps the invariant.                         *)
LEMMA ServesKeeps ==
  ASSUME CInv, NEW c \in Calls, Serves(c)
  PROVE  CInv'
<1>0. call[c].texts \in 0..MaxTexts /\ IInv
  BY DEF CInv, CallsTypeOK, CallRecords
<1>1. CASE NoTexts(c) \/ EngineFails(c)
  BY <1>1, RefuseKeeps DEF NoTexts, EngineFails, BestEffort, Calling
<1>2. CASE StubEmbedding(c)
  <2>1. call[c].texts > 0 /\ call[c].method = "embed"
    BY <1>2 DEF StubEmbedding, BestEffort, Calling
  <2>2. Answer(c, "ok", <<>>, Places(call[c].texts)) /\ UNCHANGED vars
    BY <1>2 DEF StubEmbedding, BestEffort, Calling
  <2>3. /\ Places(call[c].texts) \in SeqOf(1..MaxTexts, MaxTexts)
        /\ Places(call[c].texts) # <<>>
    BY <1>0, <2>1, PlacesOfSome
  <2> QED BY <2>1, <2>2, <2>3, AnswerKeeps, NothingIsASequence
<1>3. CASE StubRerank(c)
  <2>1. PICK scores \in [1..call[c].texts -> 0..MaxScore] :
          Answer(c, "ok", scores, Best(scores, call[c].top_n))
    BY <1>3 DEF StubRerank
  <2>2. call[c].method = "score" /\ UNCHANGED vars
    BY <1>3 DEF StubRerank, BestEffort, Calling
  <2>3. call[c].texts <= call[c].texts
    BY <1>0
  <2> QED BY <1>0, <2>1, <2>2, <2>3, RankingKeeps
<1>4. CASE EngineEmbeds(c)
  <2>1. PICK n \in 1..MaxTexts : Answer(c, "ok", <<>>, Places(n))
    BY <1>4 DEF EngineEmbeds
  <2>2. Places(n) \in SeqOf(1..MaxTexts, MaxTexts) /\ Places(n) # <<>>
    BY PlacesOfSome, RetrievalAssumption
  <2>3. UNCHANGED vars /\ call[c].method = "embed"
    BY <1>4 DEF EngineEmbeds, BestEffort, Calling
  <2> QED BY <2>1, <2>2, <2>3, AnswerKeeps, NothingIsASequence
<1>5. CASE EngineScores(c)
  <2>1. call[c].method = "score" /\ UNCHANGED vars
    BY <1>5 DEF EngineScores, BestEffort, Calling
  <2>0. PICK n \in 1..MaxTexts : \E scores \in [1..n -> 0..MaxScore] :
          IF n > call[c].texts
          THEN Refuse(c, "failed")
          ELSE Answer(c, "ok", scores, Best(scores, call[c].top_n))
    BY <1>5 DEF EngineScores
  <2>2. PICK scores \in [1..n -> 0..MaxScore] :
          IF n > call[c].texts
          THEN Refuse(c, "failed")
          ELSE Answer(c, "ok", scores, Best(scores, call[c].top_n))
    BY <2>0
  <2>3. CASE n > call[c].texts
    BY <2>1, <2>2, <2>3, RefuseKeeps
  <2>4. CASE ~(n > call[c].texts)
    <3>1. n <= call[c].texts /\ n \in 0..MaxTexts
      BY <1>0, <2>4, RetrievalAssumption
    <3>2. Answer(c, "ok", scores, Best(scores, call[c].top_n))
      BY <2>2, <2>4
    <3> QED BY <2>1, <3>1, <3>2, RankingKeeps
  <2> QED BY <2>3, <2>4
<1>6. CASE Misconfigured(c)
  <2>1. Answer(c, "misconfigured", <<>>, <<>>) /\ UNCHANGED vars
    BY <1>6 DEF Misconfigured, Refuse, Calling
  <2>2. /\ pc = "up" /\ spec.native
        /\ \/ call[c].method = "score"
           \/ call[c].method = "embed" /\ "embed" \notin adapters
    BY <1>6 DEF Misconfigured, Calling
  <2>3. call[c].method # spec.task \/ ~spec.real
    BY <1>0, <2>2, NativeIsWhole
  <2> QED BY <2>1, <2>2, <2>3, AnswerKeeps, NothingIsASequence
<1>7. CASE CallAdapter(c)
  <2>1. UNCHANGED vars /\ spec.native /\ call[c].method = "embed"
        /\ call' = [call EXCEPT ![c].at = "adapter"]
    BY <1>7 DEF CallAdapter, Calling
  <2>2. CallsTypeOK'
    BY <2>1 DEF CInv, CallsTypeOK, CallRecords
  <2>3. /\ call'[c].answer = call[c].answer /\ call'[c].method = call[c].method
        /\ call'[c].out = call[c].out /\ call'[c].scored = call[c].scored
        /\ call'[c].texts = call[c].texts /\ call'[c].top_n = call[c].top_n
        /\ \A d \in Calls \ {c} : call'[d] = call[d]
    BY <2>1 DEF CInv, CallsTypeOK, CallRecords
  <2>4. RankedByScore'
    <3>1. \A d \in Calls :
            /\ call'[d].answer = call[d].answer /\ call'[d].method = call[d].method
            /\ call'[d].out = call[d].out /\ call'[d].scored = call[d].scored
            /\ call'[d].texts = call[d].texts /\ call'[d].top_n = call[d].top_n
      BY <2>3
    <3> QED BY <3>1 DEF CInv, RankedByScore, Answered
  <2>5. IInv'
    <3>1. [Next]_vars
      BY <2>1
    <3> QED BY <3>1, <1>0, NextIInv
  <2>6. UNCHANGED spec
    BY <2>1 DEF vars
  <2> QED
    BY <2>1, <2>2, <2>3, <2>4, <2>5, <2>6
    DEF CInv, AdapterIsNative, EmptyOnlyOnNativeError, MisconfiguredOnlyIfForeign, Answered
<1>8. CASE AdapterEmbeds(c)
  <2>1. Answer(c, "ok", <<>>, Places(call[c].texts)) /\ UNCHANGED vars
    BY <1>8 DEF AdapterEmbeds, AdapterCalled
  <2>2. spec.native /\ call[c].method = "embed"
    BY <1>8 DEF AdapterEmbeds, AdapterCalled, CInv, AdapterIsNative
  <2>3. Places(call[c].texts) \in SeqOf(1..MaxTexts, MaxTexts)
    BY <1>0, PlacesOfSome
  <2> QED BY <2>1, <2>2, <2>3, AnswerKeeps, NothingIsASequence
<1>9. CASE AdapterSaysError(c)
  <2>1. Answer(c, "ok", <<>>, <<>>) /\ UNCHANGED vars
    BY <1>9 DEF AdapterSaysError, AdapterCalled
  <2>2. spec.native /\ call[c].method = "embed"
    BY <1>9 DEF AdapterSaysError, AdapterCalled, CInv, AdapterIsNative
  <2> QED BY <2>1, <2>2, AnswerKeeps, NothingIsASequence
<1>10. CASE AdapterFails(c)
  BY <1>10, RefuseKeeps DEF AdapterFails, AdapterCalled
<1> QED
  BY <1>1, <1>2, <1>3, <1>4, <1>5, <1>6, <1>7, <1>8, <1>9, <1>10 DEF Serves

LEMMA NextCInv == CInv /\ [RNext]_rvars => CInv'
<1> SUFFICES ASSUME CInv, [RNext]_rvars PROVE CInv'
  OBVIOUS
<1>1. CASE Next /\ UNCHANGED call
  BY <1>1, ReplicaKeeps
<1>2. CASE \E c \in Calls : Serves(c)
  BY <1>2, ServesKeeps
<1>3. CASE UNCHANGED rvars
  BY <1>3, ReplicaKeeps DEF rvars
<1> QED BY <1>1, <1>2, <1>3 DEF RNext

LEMMA CallsInductive == RSpec => []CInv
  BY InitCInv, NextCInv, PTL DEF RSpec

-----------------------------------------------------------------------------

(* A client is told that a model is misconfigured only if it asks a native *)
(* model for a task that is not its own, or one that runs as a stub: every *)
(* other replica that is up has what its calls need.                       *)
THEOREM MisconfiguredIsForeign == RSpec => []MisconfiguredOnlyIfForeign
<1>1. CInv => MisconfiguredOnlyIfForeign
  BY DEF CInv
<1> QED BY <1>1, CallsInductive, PTL

(* An embedding answer without a vector comes of a native model, whose     *)
(* serving layer answered with an error.                                   *)
THEOREM EmptyIsNativeError == RSpec => []EmptyOnlyOnNativeError
<1>1. CInv => EmptyOnlyOnNativeError
  BY DEF CInv
<1> QED BY <1>1, CallsInductive, PTL

(* The records of the calls keep their types.                              *)
THEOREM CallsTypeCorrect == RSpec => []RTypeOK
<1>1. CInv => RTypeOK
  BY DEF CInv, IInv, RTypeOK
<1> QED BY <1>1, CallsInductive, PTL

(* A rerank answer is a ranking by score of documents of the request, cut  *)
(* only to top_n, for any number of documents and scores.                  *)
THEOREM RerankIsRanking == RSpec => []RankedByScore
<1>1. CInv => RankedByScore
  BY DEF CInv
<1> QED BY <1>1, CallsInductive, PTL

=============================================================================
