------------------------ MODULE SharedServicesProofs ------------------------
(***************************************************************************)
(* Proofs about the two services that the coroutines of the Python core    *)
(* share, the event bus and the AI provider router.  The two have no state *)
(* in common; both keep an order in a filtered list (the subscribers that  *)
(* match, the models that are not on cooldown), and the first section says *)
(* what a filtered sequence is.                                            *)
(*                                                                         *)
(* The bus: for any number of publishers, subscribers, messages and any    *)
(* queue size, who holds and who waits for the lock, that an unsubscribed  *)
(* callback is quiet, and that a subscriber gets its messages each once    *)
(* and in order.                                                           *)
(* The router: for any number of callers, routes, models and calls and     *)
(* whatever the costs, what concurrent calls may spend, and that no call   *)
(* fails before it has been through its whole fallback chain.              *)
(***************************************************************************)
EXTENDS EventBus, ProviderRouter, FiniteSetTheorems, SequenceTheorems,
        WellFoundedInduction, TLAPS

(* The positions of a sequence whose elements are in S. *)
Hits(s, S) == {i \in DOMAIN s : s[i] \in S}

LEMMA RankIsBelow ==
  ASSUME NEW n \in Nat, NEW I \in SUBSET (1 .. n)
  PROVE  /\ IsFiniteSet(I) /\ Cardinality(I) \in Nat /\ Cardinality(I) <= n
         /\ \A i \in I : Rank(I, i) \in 1 .. Cardinality(I)
         /\ \A i, j \in I : i < j => Rank(I, i) < Rank(I, j)
  <1>1. IsFiniteSet(1 .. n) /\ Cardinality(1 .. n) = n
    BY FS_Interval
  <1>2. IsFiniteSet(I) /\ Cardinality(I) \in Nat /\ Cardinality(I) <= n
    BY <1>1, FS_Subset, FS_CardinalityType
  <1> DEFINE Upto(i) == {j \in I : j <= i}
  <1>3. ASSUME NEW T \in SUBSET I
        PROVE  /\ IsFiniteSet(T) /\ Cardinality(T) \in Nat
               /\ Cardinality(T) <= Cardinality(I)
    BY <1>2, FS_Subset, FS_CardinalityType
  <1>4. ASSUME NEW i \in I
        PROVE  Rank(I, i) \in 1 .. Cardinality(I)
    <2>1. i \in Upto(i) /\ Upto(i) \in SUBSET I
      OBVIOUS
    <2>2. Cardinality(Upto(i)) # 0
      BY <1>3, <2>1, FS_EmptySet
    <2> HIDE DEF Upto
    <2>3. Cardinality(Upto(i)) \in 1 .. Cardinality(I)
      BY <1>2, <1>3, <2>1, <2>2
    <2> QED BY <2>3 DEF Rank, Upto
  <1>5. ASSUME NEW i \in I, NEW j \in I, i < j
        PROVE  Rank(I, i) < Rank(I, j)
    <2>1. /\ Upto(i) \in SUBSET Upto(j) /\ Upto(j) \in SUBSET I
          /\ j \in Upto(j) /\ j \notin Upto(i)
      <3>1. \A k \in I : k \in Nat
        OBVIOUS
      <3>2. ASSUME NEW k \in I, k <= i PROVE k <= j
        <4>1. k \in Nat /\ i \in Nat /\ j \in Nat
          BY <3>1
        <4> QED BY ONLY <1>5, <3>2, <4>1
      <3>3. j <= j /\ ~(j <= i)
        <4>1. i \in Nat /\ j \in Nat
          BY <3>1
        <4> QED BY ONLY <1>5, <4>1
      <3> QED BY <3>2, <3>3
    <2> HIDE DEF Upto
    <2>2. /\ IsFiniteSet(Upto(j))
          /\ Cardinality(Upto(i)) <= Cardinality(Upto(j))
          /\ Cardinality(Upto(i)) # Cardinality(Upto(j))
      BY <1>3, <2>1, FS_Subset
    <2>3. Cardinality(Upto(i)) \in Nat /\ Cardinality(Upto(j)) \in Nat
      BY <1>3, <2>1
    <2>4. Cardinality(Upto(i)) < Cardinality(Upto(j))
      BY <2>2, <2>3
    <2> QED BY <2>4 DEF Rank, Upto
  <1> QED BY <1>2, <1>4, <1>5

(* Every rank is that of one position. *)
LEMMA RankIsMet ==
  ASSUME NEW n \in Nat, NEW I \in SUBSET (1 .. n)
  PROVE  \A k \in 1 .. Cardinality(I) : \E i \in I : Rank(I, i) = k
  <1> DEFINE N == 1 .. Cardinality(I)
             f == [i \in I |-> Rank(I, i)]
  <1>1. f \in [I -> N] /\ \A i, j \in I : f[i] = f[j] => i = j
    <2>1. \A i \in I : Rank(I, i) \in N
      BY RankIsBelow
    <2>2. ASSUME NEW i \in I, NEW j \in I, Rank(I, i) = Rank(I, j) PROVE i = j
      <3>1. \A a, b \in I : a < b => Rank(I, a) < Rank(I, b)
        BY RankIsBelow
      <3>2. \A a \in I : Rank(I, a) \in Nat
        BY <2>1
      <3>3. i \in Nat /\ j \in Nat
        OBVIOUS
      <3> QED BY <2>2, <3>1, <3>2, <3>3
    <2> QED BY <2>1, <2>2
  <1>2. f \in Injection(I, N)
    BY <1>1 DEF Injection, IsInjective
  <1>3. Cardinality(I) \in Nat
    BY RankIsBelow
  <1>4. IsFiniteSet(N) /\ Cardinality(N) = Cardinality(I)
    BY <1>3, FS_Interval
  <1>5. f \in Surjection(I, N)
    <2> HIDE DEF f, N
    <2> QED BY <1>2, <1>4, FS_Injection
  <1> QED BY <1>5 DEF Surjection

(* Only takes from s the elements at the hits, in their order. *)
TakesHits(V, s, S) ==
  /\ Cardinality(Hits(s, S)) \in Nat
  /\ Cardinality(Hits(s, S)) <= Len(s)
  /\ Only(s, S) \in Seq(V \cap S) /\ Only(s, S) \in Seq(V)
  /\ Len(Only(s, S)) = Cardinality(Hits(s, S))
  /\ \A i \in Hits(s, S) :
       /\ Rank(Hits(s, S), i) \in 1 .. Len(Only(s, S))
       /\ Only(s, S)[Rank(Hits(s, S), i)] = s[i]
  /\ \A k \in 1 .. Len(Only(s, S)) : \E i \in Hits(s, S) :
       Rank(Hits(s, S), i) = k

LEMMA OnlyTakesHits ==
  ASSUME NEW V, NEW s \in Seq(V), NEW S
  PROVE  TakesHits(V, s, S)
  <1> DEFINE I == Hits(s, S)
             n == Cardinality(I)
             P(k) == CHOOSE i \in I : Rank(I, i) = k
  <1>1. I \in SUBSET (1 .. Len(s)) /\ Len(s) \in Nat
    BY DEF Hits
  <1>2. n \in Nat /\ n <= Len(s)
    BY <1>1, RankIsBelow
  <1>3. \A i \in I : Rank(I, i) \in 1 .. n
    BY <1>1, RankIsBelow
  <1>4. \A k \in 1 .. n : \E i \in I : Rank(I, i) = k
    BY <1>1, RankIsMet
  <1>5. \A k \in 1 .. n : P(k) \in I /\ Rank(I, P(k)) = k
    BY <1>4
  <1>6. \A i \in I : P(Rank(I, i)) = i
    <2> SUFFICES ASSUME NEW i \in I PROVE P(Rank(I, i)) = i
      OBVIOUS
    <2>1. P(Rank(I, i)) \in I /\ Rank(I, P(Rank(I, i))) = Rank(I, i)
      OBVIOUS
    <2>2. \A a, b \in I : a < b => Rank(I, a) < Rank(I, b)
      BY <1>1, RankIsBelow
    <2>3. Rank(I, i) \in Nat
      BY <1>2, <1>3
    <2>4. \A a \in I : a \in Nat
      BY <1>1
    <2> HIDE DEF P, I
    <2> QED BY <2>1, <2>2, <2>3, <2>4
  <1>7. Only(s, S) = [k \in 1 .. n |-> s[P(k)]]
    BY DEF Only, Hits
  <1>8. \A i \in I : s[i] \in V \cap S
    BY DEF Hits
  <1> HIDE DEF I, P, n
  <1>9. Only(s, S) \in [1 .. n -> V \cap S]
    BY <1>5, <1>7, <1>8
  <1>10. /\ Only(s, S) \in Seq(V \cap S) /\ Only(s, S) \in Seq(V)
         /\ Len(Only(s, S)) = n
    BY <1>2, <1>9
  <1>11. \A i \in I : Only(s, S)[Rank(I, i)] = s[i]
    BY <1>3, <1>6, <1>7
  <1> QED BY <1>2, <1>3, <1>4, <1>10, <1>11 DEF TakesHits, I, n
LEMMA OnlyRange ==
  ASSUME NEW V, NEW s \in Seq(V), NEW S
  PROVE  Range(Only(s, S)) = Range(s) \cap S
  <1> DEFINE I == Hits(s, S)
             q == Only(s, S)
             R(i) == Rank(I, i)
  <1>1. \A i : i \in I <=> i \in DOMAIN s /\ s[i] \in S
    BY DEF Hits
  <1>2. /\ q \in Seq(V \cap S)
        /\ \A i \in I : R(i) \in 1 .. Len(q) /\ q[R(i)] = s[i]
        /\ \A k \in 1 .. Len(q) : \E i \in I : R(i) = k
    <2> HIDE DEF I, q, R
    <2>1. TakesHits(V, s, S)
      BY OnlyTakesHits
    <2> QED BY <2>1, Zenon DEF TakesHits, I, q, R
  <1> HIDE DEF I, q, R
  <1>3. DOMAIN q = 1 .. Len(q)
    BY <1>2
  <1>4. ASSUME NEW k \in DOMAIN q PROVE q[k] \in Range(s) \cap S
    BY <1>1, <1>2, <1>3 DEF Range
  <1>5. ASSUME NEW i \in DOMAIN s, s[i] \in S PROVE s[i] \in Range(q)
    BY <1>1, <1>2, <1>3, <1>5 DEF Range
  <1>6. Range(q) = Range(s) \cap S
    BY <1>4, <1>5 DEF Range
  <1> QED BY <1>6 DEF q

(* Elements that are distinct stay so. *)
LEMMA OnlyInjective ==
  ASSUME NEW V, NEW s \in Seq(V), NEW S, IsInjective(s)
  PROVE  IsInjective(Only(s, S))
  <1> DEFINE I == Hits(s, S)
             q == Only(s, S)
             R(i) == Rank(I, i)
  <1>1. TakesHits(V, s, S)
    BY OnlyTakesHits
  <1>2. /\ q \in Seq(V)
        /\ \A i \in I : q[R(i)] = s[i]
        /\ \A k \in 1 .. Len(q) : \E i \in I : R(i) = k
    BY <1>1, Zenon DEF TakesHits, I, q, R
  <1>3. \A i \in I : i \in DOMAIN s
    BY DEF Hits
  <1> HIDE DEF I, q, R
  <1>4. DOMAIN q = 1 .. Len(q)
    BY <1>2
  <1>5. ASSUME NEW k \in DOMAIN q, NEW l \in DOMAIN q, q[k] = q[l] PROVE k = l
    <2>1. PICK i \in I : R(i) = k
      BY <1>2, <1>4
    <2>2. PICK j \in I : R(j) = l
      BY <1>2, <1>4
    <2>3. s[i] = s[j]
      BY <1>2, <1>5, <2>1, <2>2
    <2>4. i = j
      BY <1>3, <2>3 DEF IsInjective
    <2> QED BY <2>1, <2>2, <2>4
  <1>6. IsInjective(q)
    BY <1>5 DEF IsInjective
  <1> QED BY <1>6 DEF q

(* Only the elements of the sequence tell. *)
LEMMA OnlySame ==
  ASSUME NEW s, NEW S, NEW T, \A i \in DOMAIN s : s[i] \in S <=> s[i] \in T
  PROVE  Only(s, S) = Only(s, T)
  <1>1. {i \in DOMAIN s : s[i] \in S} = {i \in DOMAIN s : s[i] \in T}
    OBVIOUS
  <1> DEFINE F(I) == [k \in 1 .. Cardinality(I) |-> s[CHOOSE i \in I : Rank(I, i) = k]]
  <1>2. /\ Only(s, S) = F({i \in DOMAIN s : s[i] \in S})
        /\ Only(s, T) = F({i \in DOMAIN s : s[i] \in T})
    BY DEF Only
  <1> HIDE DEF F
  <1> QED BY <1>1, <1>2

(* What is appended comes last, or not at all. *)
LEMMA OnlyAppend ==
  ASSUME NEW s \in Seq(Nat), NEW x \in Nat, NEW S
  PROVE  Only(Append(s, x), S) =
           IF x \in S THEN Append(Only(s, S), x) ELSE Only(s, S)
  <1> DEFINE n == Len(s)
             t == Append(s, x)
             I == Hits(s, S)
             J == Hits(t, S)
             a == Only(s, S)
             b == Only(t, S)
  <1>1. /\ n \in Nat /\ t \in Seq(Nat) /\ DOMAIN s = 1 .. n
        /\ DOMAIN t = 1 .. n + 1 /\ t[n + 1] = x
        /\ \A i \in 1 .. n : t[i] = s[i]
    OBVIOUS
  <1>2. TakesHits(Nat, s, S) /\ TakesHits(Nat, t, S)
    <2> HIDE DEF t
    <2> QED BY <1>1, OnlyTakesHits
  <1>3. /\ Cardinality(I) \in Nat /\ a \in Seq(Nat) /\ Len(a) = Cardinality(I)
        /\ \A i \in I : Rank(I, i) \in 1 .. Len(a) /\ a[Rank(I, i)] = s[i]
        /\ \A k \in 1 .. Len(a) : \E i \in I : Rank(I, i) = k
    BY <1>2, Zenon DEF TakesHits
  <1>4. /\ Cardinality(J) \in Nat /\ b \in Seq(Nat) /\ Len(b) = Cardinality(J)
        /\ \A i \in J : Rank(J, i) \in 1 .. Len(b) /\ b[Rank(J, i)] = t[i]
    <2> HIDE DEF t
    <2> QED BY <1>2, Zenon DEF TakesHits
  <1>5. /\ I \in SUBSET (1 .. n) /\ n + 1 \notin I /\ IsFiniteSet(I)
        /\ J = IF x \in S THEN I \cup {n + 1} ELSE I
    <2>1. \A i \in 1 .. n : i # n + 1
      BY <1>1
    <2>2. I \in SUBSET (1 .. n)
      BY <1>1 DEF Hits
    <2>3. IsFiniteSet(I)
      BY <1>1, <2>2, RankIsBelow
    <2>4. 1 .. n + 1 = (1 .. n) \cup {n + 1}
      BY <1>1
    <2>5. \A i : i \in I <=> i \in 1 .. n /\ s[i] \in S
      BY <1>1 DEF Hits
    <2>6. \A i : i \in J <=> i \in 1 .. n + 1 /\ t[i] \in S
      BY <1>1 DEF Hits
    <2> HIDE DEF I, J, t, n
    <2>7. CASE x \in S
      <3>1. \A i : i \in J <=> i \in I \/ i = n + 1
        BY <1>1, <2>1, <2>4, <2>5, <2>6, <2>7
      <3>2. J = I \cup {n + 1}
        BY <3>1
      <3> QED BY <2>1, <2>2, <2>3, <2>5, <2>7, <3>2
    <2>8. CASE x \notin S
      BY <1>1, <2>1, <2>4, <2>5, <2>6, <2>8
    <2> QED BY <2>1, <2>2, <2>3, <2>7, <2>8
  <1>6. \A i \in I : Rank(J, i) = Rank(I, i)
    <2> SUFFICES ASSUME NEW i \in I PROVE Rank(J, i) = Rank(I, i)
      OBVIOUS
    <2>1. i \in 1 .. n /\ ~(n + 1 <= i)
      <3>1. i \in 1 .. n
        BY <1>5
      <3> QED BY <1>1, <3>1
    <2> HIDE DEF n, I, J
    <2>2. {j \in J : j <= i} = {j \in I : j <= i}
      BY <1>5, <2>1
    <2> QED BY <2>2 DEF Rank
  <1>7. x \in S => Rank(J, n + 1) = Cardinality(J)
                   /\ Cardinality(J) = Cardinality(I) + 1
    <2> SUFFICES ASSUME x \in S
                 PROVE  /\ Rank(J, n + 1) = Cardinality(J)
                        /\ Cardinality(J) = Cardinality(I) + 1
      OBVIOUS
    <2> HIDE DEF I, J
    <2>1. J = I \cup {n + 1}
      BY <1>5
    <2>2. \A j \in J : j <= n + 1
      <3>1. \A j \in 1 .. n : j <= n + 1
        BY <1>1
      <3> QED BY <1>1, <1>5, <2>1, <3>1
    <2>3. {j \in J : j <= n + 1} = J
      BY <2>2
    <2>4. Cardinality(J) = Cardinality(I) + 1
      BY <1>5, <2>1, FS_AddElement
    <2> QED BY <2>3, <2>4 DEF Rank
  <1> HIDE DEF n, t, I, J, a, b
  <1>8. CASE x \in S
    <2> DEFINE c == Append(a, x)
    <2>1. /\ c \in Seq(Nat) /\ Len(c) = Len(a) + 1 /\ c[Len(a) + 1] = x
          /\ \A k \in 1 .. Len(a) : c[k] = a[k]
      BY <1>3
    <2>2. Len(b) = Len(a) + 1 /\ Len(a) \in Nat
      BY <1>3, <1>4, <1>7, <1>8
    <2>3. ASSUME NEW k \in 1 .. Len(a) PROVE b[k] = c[k]
      <3>1. PICK i \in I : Rank(I, i) = k
        BY <1>3
      <3>2. i \in J /\ i \in 1 .. n
        BY <1>5
      <3>3. b[k] = t[i] /\ a[k] = s[i] /\ t[i] = s[i]
        BY <1>1, <1>3, <1>4, <1>6, <3>1, <3>2
      <3> QED BY <2>1, <3>3
    <2>4. b[Len(a) + 1] = c[Len(a) + 1]
      <3>1. n + 1 \in J
        BY <1>5, <1>8
      <3>2. Rank(J, n + 1) = Len(a) + 1
        BY <1>3, <1>7, <1>8
      <3> QED BY <1>1, <1>4, <2>1, <3>1, <3>2
    <2>5. 1 .. Len(a) + 1 = (1 .. Len(a)) \cup {Len(a) + 1}
      BY <2>2
    <2>6. \A k \in 1 .. Len(b) : b[k] = c[k]
      BY <2>2, <2>3, <2>4, <2>5
    <2>7. b \in Seq(Nat) /\ c \in Seq(Nat) /\ Len(b) = Len(c)
      BY <1>4, <2>1, <2>2
    <2> HIDE DEF c
    <2>8. b = c
      BY <2>6, <2>7, SeqEqual
    <2> QED BY <1>8, <2>8 DEF a, b, c, t
  <1>9. CASE x \notin S
    <2>1. J = I /\ Len(b) = Len(a)
      BY <1>3, <1>4, <1>5, <1>9
    <2>2. ASSUME NEW k \in 1 .. Len(a) PROVE b[k] = a[k]
      <3>1. PICK i \in I : Rank(I, i) = k
        BY <1>3
      <3>2. i \in 1 .. n
        BY <1>5
      <3> QED BY <1>1, <1>3, <1>4, <2>1, <3>1, <3>2
    <2>3. b = a
      BY <1>3, <1>4, <2>1, <2>2
    <2> QED BY <1>9, <2>3 DEF a, b, t
  <1> QED BY <1>8, <1>9

-----------------------------------------------------------------------------
(* THE EVENT BUS                                                           *)

(* Who waits for the lock is at the step that asks for it. *)
Waiting ==
  /\ \A p \in Publishers :
       <<"publish", p>> \in Range(waiters) => publisher[p].pc = "lock"
  /\ \A s \in Subscribers :
       /\ <<"subscribe", s>> \in Range(waiters) => consumer[s].pc = "subscribing"
       /\ <<"consume", s>> \in Range(waiters) => consumer[s].pc = "lock"
       /\ <<"close", s>> \in Range(waiters) => closing[s] = "lock"

(* The lock is held by the publisher that puts the newest message, or by   *)
(* nobody.                                                                 *)
Locked ==
  /\ holder \in {None} \cup ({"publish"} \X Publishers)
  /\ \A p \in Publishers :
       /\ publisher[p].pc = "put" <=> holder = <<"publish", p>>
       /\ publisher[p].pc = "put" => /\ publisher[p].message = Len(log)
                                     /\ publisher[p].message \in Messages
                                     /\ IsInjective(publisher[p].rest)
       /\ publisher[p].pc # "put" => publisher[p].rest = <<>>

Subscribed ==
  \A s \in Subscribers :
    /\ s \in Range(subscribers) \/ closing[s] # "no"
         => consumer[s].pc \notin {"absent", "subscribing"}
    /\ closing[s] \in {"cancel", "done"} => s \notin Range(subscribers)
    /\ closing[s] = "done" => consumer[s].pc = "done"

Asking == {q \in Publishers : publisher[q].pc = "lock"}

Room == Len(log) + Cardinality(Asking) <= MaxMessages

(* A callback runs with a message. *)
Calling == \A s \in Subscribers :
             consumer[s].pc = "callback" => consumer[s].message \in Messages

LockInv == BusTypeOK /\ Waiting /\ Locked /\ Subscribed /\ Room /\ Calling

LEMMA Appending ==
  ASSUME NEW V, NEW s \in Seq(V), NEW x \in V
  PROVE  /\ Append(s, x) \in Seq(V)
         /\ Range(Append(s, x)) = Range(s) \cup {x}
         /\ IsInjective(s) /\ x \notin Range(s) => IsInjective(Append(s, x))
  <1> DEFINE n == Len(s)
             t == Append(s, x)
  <1>1. /\ n \in Nat /\ t \in Seq(V) /\ DOMAIN s = 1 .. n
        /\ DOMAIN t = (1 .. n) \cup {n + 1} /\ t[n + 1] = x
        /\ \A i \in 1 .. n : t[i] = s[i]
    <2>1. /\ n \in Nat /\ t \in Seq(V) /\ DOMAIN s = 1 .. n
          /\ DOMAIN t = 1 .. n + 1 /\ t[n + 1] = x
          /\ \A i \in 1 .. n : t[i] = s[i]
      OBVIOUS
    <2>2. n \in Nat => 1 .. n + 1 = (1 .. n) \cup {n + 1}
      OBVIOUS
    <2> QED BY <2>1, <2>2
  <1>2. \A i \in 1 .. n : i # n + 1
    BY <1>1
  <1> HIDE DEF n, t
  <1>3. Range(t) = Range(s) \cup {x}
    BY <1>1, <1>2 DEF Range
  <1>4. IsInjective(s) /\ x \notin Range(s) => IsInjective(t)
    <2> SUFFICES ASSUME IsInjective(s), x \notin Range(s),
                        NEW i \in DOMAIN t, NEW j \in DOMAIN t, t[i] = t[j]
                 PROVE  i = j
      BY DEF IsInjective
    <2>1. \A k \in 1 .. n : s[k] # x
      BY <1>1 DEF Range
    <2> QED BY <1>1, <1>2, <2>1 DEF IsInjective
  <1> QED BY <1>1, <1>3, <1>4 DEF t

LEMMA Leaving ==
  ASSUME NEW V, NEW s \in Seq(V), s # <<>>
  PROVE  /\ Head(s) \in V /\ Tail(s) \in Seq(V)
         /\ Range(s) = {Head(s)} \cup Range(Tail(s))
         /\ IsInjective(s) => IsInjective(Tail(s)) /\ Head(s) \notin Range(Tail(s))
  <1> DEFINE n == Len(s)
             t == Tail(s)
             h == Head(s)
  <1>1. /\ n \in Nat \ {0} /\ h \in V /\ t \in Seq(V) /\ DOMAIN s = 1 .. n
        /\ DOMAIN t = 1 .. n - 1 /\ h = s[1]
        /\ \A i \in 1 .. n - 1 : t[i] = s[i + 1]
    OBVIOUS
  <1>2. /\ \A i \in 1 .. n - 1 : i + 1 \in 1 .. n /\ i + 1 # 1
        /\ \A i, j \in 1 .. n - 1 : i + 1 = j + 1 => i = j
        /\ \A i \in 1 .. n : i # 1 => \E j \in 1 .. n - 1 : j + 1 = i
        /\ 1 \in 1 .. n
    <2> HIDE DEF t, h
    <2>1. ASSUME NEW i \in 1 .. n, i # 1 PROVE \E j \in 1 .. n - 1 : j + 1 = i
      <3>1. i - 1 \in 1 .. n - 1 /\ (i - 1) + 1 = i
        BY <1>1, <2>1
      <3> QED BY <3>1
    <2> QED BY <1>1, <2>1
  <1> HIDE DEF n, t, h
  <1>3. Range(s) = {h} \cup Range(t)
    <2>1. ASSUME NEW i \in 1 .. n PROVE s[i] \in {h} \cup Range(t)
      <3>1. CASE i = 1
        BY <1>1, <3>1
      <3>2. CASE i # 1
        <4>1. PICK j \in 1 .. n - 1 : j + 1 = i
          BY <1>2, <3>2
        <4>2. t[j] = s[i]
          BY <1>1, <4>1
        <4> QED BY <1>1, <4>2 DEF Range
      <3> QED BY <3>1, <3>2
    <2>2. ASSUME NEW i \in 1 .. n - 1 PROVE t[i] \in Range(s)
      BY <1>1, <1>2 DEF Range
    <2>3. h \in Range(s)
      BY <1>1, <1>2 DEF Range
    <2> QED BY <1>1, <2>1, <2>2, <2>3 DEF Range
  <1>4. ASSUME IsInjective(s) PROVE IsInjective(t) /\ h \notin Range(t)
    <2>1. \A i, j \in 1 .. n : s[i] = s[j] => i = j
      BY <1>1, <1>4 DEF IsInjective
    <2>2. IsInjective(t)
      BY <1>1, <1>2, <2>1 DEF IsInjective
    <2>3. h \notin Range(t)
      BY <1>1, <1>2, <2>1 DEF Range
    <2> QED BY <2>2, <2>3
  <1> QED BY <1>1, <1>3, <1>4 DEF t, h

-----------------------------------------------------------------------------
PublisherType == [pc : {"idle", "lock", "put"}, message : Messages \cup {0},
                  rest : Seq(Subscribers)]
ConsumerType == [pc : {"absent", "subscribing", "lock", "get", "callback", "done"},
                 message : Messages \cup {0}]

LEMMA AllTasks ==
  /\ \A p \in Publishers : <<"publish", p>> \in Tasks
  /\ \A s \in Subscribers : /\ <<"subscribe", s>> \in Tasks
                            /\ <<"consume", s>> \in Tasks
                            /\ <<"close", s>> \in Tasks
  /\ \A p : <<"publish", p>> # None
  BY DEF Tasks, None

LEMMA FirstLockInv == BusInit => LockInv
  <1> SUFFICES ASSUME BusInit PROVE LockInv
    OBVIOUS
  <1>1. Range(waiters) = {} /\ Range(subscribers) = {}
        /\ IsInjective(waiters) /\ IsInjective(subscribers)
    BY DEF BusInit, Range, IsInjective
  <1>2. BusTypeOK
    <2>1. \A s \in Subscribers : Len(queue[s]) <= QueueSize
      BY QueueSizeAssumption DEF BusInit
    <2>2. holder \in Tasks \cup {None} /\ waiters \in Seq(Tasks)
          /\ subscribers \in Seq(Subscribers) /\ log \in Seq(SUBSET Subscribers)
      BY DEF BusInit
    <2>3. /\ publisher \in [Publishers -> PublisherType]
          /\ consumer \in [Subscribers -> ConsumerType]
      BY DEF BusInit, PublisherType, ConsumerType
    <2>4. /\ closing \in [Subscribers -> {"no", "lock", "cancel", "done"}]
          /\ queue \in [Subscribers -> Seq(Messages)]
          /\ handled \in [Subscribers -> Seq(Messages)]
      BY DEF BusInit
    <2> QED BY <1>1, <2>1, <2>2, <2>3, <2>4 DEF BusTypeOK, PublisherType, ConsumerType
  <1>3. Waiting
    BY <1>1 DEF Waiting
  <1>4. Locked
    BY AllTasks DEF BusInit, Locked
  <1>5. Subscribed
    BY <1>1 DEF BusInit, Subscribed
  <1>6. Room
    <2>1. Asking = {}
      BY DEF BusInit, Asking
    <2> QED BY <2>1, FS_EmptySet, PublishersAssumption DEF BusInit, Room
  <1>7. Calling
    BY DEF BusInit, Calling
  <1> QED BY <1>2, <1>3, <1>4, <1>5, <1>6, <1>7 DEF LockInv

LEMMA AskingType ==
  /\ IsFiniteSet(Asking) /\ Cardinality(Asking) \in Nat
  BY FS_Subset, FS_CardinalityType, PublishersAssumption DEF Asking

(* What a step of the lock leaves alone. *)
LEMMA SameAsking ==
  ASSUME \A p \in Publishers : publisher'[p].pc = "lock" <=> publisher[p].pc = "lock",
         UNCHANGED log, Room
  PROVE  Room'
  <1>1. Asking' = Asking
    BY DEF Asking
  <1> QED BY <1>1 DEF Room

LEMMA AskStep ==
  ASSUME BusTypeOK, NEW task \in Tasks, Ask(task), task \notin Range(waiters)
  PROVE  /\ waiters' \in Seq(Tasks) /\ IsInjective(waiters')
         /\ Range(waiters') = Range(waiters) \cup {task} /\ holder' = holder
  BY Appending DEF Ask, BusTypeOK

LEMMA GrantStep ==
  ASSUME BusTypeOK, NEW task, Granted(task)
  PROVE  /\ Tail(waiters) \in Seq(Tasks) /\ IsInjective(Tail(waiters))
         /\ task \notin Range(Tail(waiters)) /\ task \in Range(waiters)
         /\ Range(Tail(waiters)) \subseteq Range(waiters)
         /\ holder = None
  <1>1. waiters \in Seq(Tasks) /\ IsInjective(waiters) /\ waiters # <<>>
        /\ Head(waiters) = task /\ holder = None
    BY DEF BusTypeOK, Granted
  <1> QED BY <1>1, Leaving

LEMMA CallSubscribeLock ==
  ASSUME LockInv, NEW s \in Subscribers, CallSubscribe(s)
  PROVE  LockInv'
  <1> USE DEF LockInv
  <1>1. /\ consumer[s].pc = "absent" /\ <<"subscribe", s>> \in Tasks
        /\ consumer' = [consumer EXCEPT ![s].pc = "subscribing"]
        /\ UNCHANGED <<subscribers, publisher, closing, queue, handled, log>>
    BY AllTasks DEF CallSubscribe
  <1>2. <<"subscribe", s>> \notin Range(waiters)
    BY <1>1 DEF Waiting
  <1>3. /\ waiters' \in Seq(Tasks) /\ IsInjective(waiters') /\ holder' = holder
        /\ Range(waiters') = Range(waiters) \cup {<<"subscribe", s>>}
    BY <1>1, <1>2, AskStep DEF CallSubscribe
  <1>4. consumer' \in [Subscribers -> ConsumerType]
    BY <1>1 DEF BusTypeOK, ConsumerType
  <1>5. BusTypeOK'
    BY <1>1, <1>3, <1>4 DEF BusTypeOK, ConsumerType
  <1>6. \A t \in Subscribers : consumer'[t].pc =
           IF t = s THEN "subscribing" ELSE consumer[t].pc
    BY <1>1 DEF BusTypeOK
  <1>7. Waiting'
    BY <1>1, <1>3, <1>6 DEF Waiting
  <1>8. Locked'
    BY <1>1, <1>3 DEF Locked
  <1>9. Subscribed'
    BY <1>1, <1>6 DEF Subscribed
  <1>10. Room'
    BY <1>1, SameAsking
  <1>20. Calling'
    BY <1>1, <1>6 DEF Calling, BusTypeOK
  <1> QED BY <1>5, <1>7, <1>8, <1>9, <1>10, <1>20

LEMMA AddSubscriberLock ==
  ASSUME LockInv, NEW s \in Subscribers, AddSubscriber(s)
  PROVE  LockInv'
  <1> USE DEF LockInv
  <1>1. /\ consumer[s].pc = "subscribing" /\ Granted(<<"subscribe", s>>)
        /\ waiters' = Append(Tail(waiters), <<"consume", s>>)
        /\ subscribers' = Append(subscribers, s)
        /\ consumer' = [consumer EXCEPT ![s].pc = "lock"]
        /\ UNCHANGED <<holder, publisher, closing, queue, handled, log>>
    BY DEF AddSubscriber
  <1> DEFINE w == Tail(waiters)
  <1>2. /\ w \in Seq(Tasks) /\ IsInjective(w) /\ Range(w) \subseteq Range(waiters)
        /\ <<"subscribe", s>> \notin Range(w)
    BY <1>1, GrantStep
  <1> HIDE DEF w
  <1>3. <<"consume", s>> \notin Range(waiters) /\ <<"consume", s>> \in Tasks
    BY <1>1, AllTasks DEF Waiting
  <1>4. /\ waiters' \in Seq(Tasks) /\ IsInjective(waiters')
        /\ Range(waiters') = Range(w) \cup {<<"consume", s>>}
    BY <1>1, <1>2, <1>3, Appending DEF w
  <1>5. s \notin Range(subscribers) /\ closing[s] = "no"
    BY <1>1 DEF Subscribed
  <1>6. /\ subscribers' \in Seq(Subscribers) /\ IsInjective(subscribers')
        /\ Range(subscribers') = Range(subscribers) \cup {s}
    BY <1>1, <1>5, Appending DEF BusTypeOK
  <1>7. consumer' \in [Subscribers -> ConsumerType]
    BY <1>1 DEF BusTypeOK, ConsumerType
  <1>8. BusTypeOK'
    BY <1>1, <1>4, <1>6, <1>7 DEF BusTypeOK, ConsumerType
  <1>9. \A t \in Subscribers : consumer'[t].pc =
           IF t = s THEN "lock" ELSE consumer[t].pc
    BY <1>1 DEF BusTypeOK
  <1>10. Waiting'
    BY <1>1, <1>2, <1>4, <1>9 DEF Waiting
  <1>11. Locked'
    BY <1>1 DEF Locked
  <1>12. Subscribed'
    BY <1>1, <1>5, <1>6, <1>9 DEF Subscribed
  <1>13. Room'
    BY <1>1, SameAsking
  <1>20. Calling'
    BY <1>1, <1>9 DEF Calling, BusTypeOK
  <1> QED BY <1>8, <1>10, <1>11, <1>12, <1>13, <1>20

LEMMA CallPublishLock ==
  ASSUME LockInv, NEW p \in Publishers, CallPublish(p)
  PROVE  LockInv'
  <1> USE DEF LockInv
  <1>1. /\ publisher[p].pc = "idle" /\ <<"publish", p>> \in Tasks
        /\ Len(log) + Cardinality(Asking) < MaxMessages
        /\ publisher' = [publisher EXCEPT ![p].pc = "lock"]
        /\ UNCHANGED <<subscribers, consumer, closing, queue, handled, log>>
    BY AllTasks DEF CallPublish, Asking
  <1>2. <<"publish", p>> \notin Range(waiters)
    BY <1>1 DEF Waiting
  <1>3. /\ waiters' \in Seq(Tasks) /\ IsInjective(waiters') /\ holder' = holder
        /\ Range(waiters') = Range(waiters) \cup {<<"publish", p>>}
    BY <1>1, <1>2, AskStep DEF CallPublish
  <1>4. publisher' \in [Publishers -> PublisherType]
    BY <1>1 DEF BusTypeOK, PublisherType
  <1>5. BusTypeOK'
    BY <1>1, <1>3, <1>4 DEF BusTypeOK, PublisherType
  <1>6. \A q \in Publishers :
          /\ publisher'[q].pc = IF q = p THEN "lock" ELSE publisher[q].pc
          /\ publisher'[q].rest = publisher[q].rest
          /\ publisher'[q].message = publisher[q].message
    BY <1>1 DEF BusTypeOK
  <1>7. Waiting'
    BY <1>1, <1>3, <1>6 DEF Waiting
  <1>8. Locked'
    BY <1>1, <1>3, <1>6 DEF Locked
  <1>9. Subscribed'
    BY <1>1 DEF Subscribed
  <1>10. Room'
    <2>1. Asking' = Asking \cup {p} /\ p \notin Asking
      BY <1>1, <1>6 DEF Asking
    <2>2. Cardinality(Asking') = Cardinality(Asking) + 1
      BY <2>1, AskingType, FS_AddElement
    <2>3. Len(log) \in Nat /\ log' = log
      BY <1>1 DEF BusTypeOK
    <2> QED BY <1>1, <2>2, <2>3, AskingType, PublishersAssumption DEF Room
  <1>20. Calling'
    BY <1>1 DEF Calling
  <1> QED BY <1>5, <1>7, <1>8, <1>9, <1>10, <1>20

LEMMA EnterPublishLock ==
  ASSUME LockInv, NEW p \in Publishers, EnterPublish(p)
  PROVE  LockInv'
  <1> USE DEF LockInv
  <1> DEFINE S == {s \in Subscribers : Matches(p, s)}
             matching == Only(subscribers, S)
             w == Tail(waiters)
             n == Len(log)
  <1>1. /\ publisher[p].pc = "lock" /\ Granted(<<"publish", p>>)
        /\ holder' = <<"publish", p>> /\ waiters' = w
        /\ log' = Append(log, Range(matching))
        /\ publisher' = [publisher EXCEPT ![p] =
                           [pc |-> "put", message |-> n + 1, rest |-> matching]]
        /\ UNCHANGED <<subscribers, consumer, closing, queue, handled>>
    BY DEF EnterPublish, Take
  <1> HIDE DEF w
  <1>2. /\ w \in Seq(Tasks) /\ IsInjective(w) /\ Range(w) \subseteq Range(waiters)
        /\ <<"publish", p>> \notin Range(w) /\ holder = None
    BY <1>1, GrantStep DEF w
  <1>3. /\ matching \in Seq(Subscribers) /\ IsInjective(matching)
        /\ Range(matching) \in SUBSET Subscribers
    <2> DEFINE V == Subscribers
    <2>1. subscribers \in Seq(V) /\ IsInjective(subscribers)
      BY DEF BusTypeOK
    <2> HIDE DEF S, V
    <2>2. TakesHits(V, subscribers, S)
      BY <2>1, OnlyTakesHits
    <2>3. IsInjective(matching)
      BY <2>1, OnlyInjective
    <2>4. matching \in Seq(V)
      BY <2>2 DEF TakesHits
    <2> HIDE DEF matching
    <2>5. Range(matching) \in SUBSET V
      BY <2>4 DEF Range
    <2> QED BY <2>3, <2>4, <2>5 DEF V
  <1> HIDE DEF matching, S
  <1>4. /\ log' \in Seq(SUBSET Subscribers) /\ Len(log') = n + 1
        /\ n \in Nat
    <2>1. log \in Seq(SUBSET Subscribers)
      BY DEF BusTypeOK
    <2> QED BY <1>1, <1>3, <2>1
  <1>5. Asking' = Asking \ {p} /\ p \in Asking
    BY <1>1 DEF Asking, BusTypeOK
  <1>6. Cardinality(Asking') = Cardinality(Asking) - 1 /\ Cardinality(Asking) \in Nat
        /\ Cardinality(Asking) # 0
    BY <1>5, AskingType, FS_RemoveElement, FS_EmptySet
  <1>7. Room'
    BY <1>4, <1>6, PublishersAssumption DEF Room
  <1>8. n + 1 \in Messages
    BY <1>4, <1>6, PublishersAssumption DEF Room, Messages
  <1>9. publisher' \in [Publishers -> PublisherType]
    BY <1>1, <1>3, <1>8 DEF BusTypeOK, PublisherType
  <1>10. BusTypeOK'
    BY <1>1, <1>2, <1>4, <1>9, AllTasks DEF BusTypeOK, PublisherType
  <1>11. /\ \A q \in Publishers : q # p => publisher'[q] = publisher[q]
         /\ publisher'[p] = [pc |-> "put", message |-> n + 1, rest |-> matching]
    BY <1>1 DEF BusTypeOK
  <1>12. Waiting'
    BY <1>1, <1>2, <1>11 DEF Waiting
  <1>13. Locked'
    <2>1. \A q \in Publishers : publisher[q].pc # "put"
      BY <1>2, AllTasks DEF Locked
    <2> QED BY <1>1, <1>3, <1>4, <1>8, <1>11, <2>1 DEF Locked
  <1>14. Subscribed'
    BY <1>1 DEF Subscribed
  <1>20. Calling'
    BY <1>1 DEF Calling
  <1> QED BY <1>7, <1>10, <1>12, <1>13, <1>14, <1>20

LEMMA PutLock ==
  ASSUME LockInv, NEW p \in Publishers, Put(p)
  PROVE  LockInv'
  <1> USE DEF LockInv
  <1> DEFINE x == publisher[p]
             s == Head(x.rest)
  <1>1. /\ x.pc = "put" /\ x.rest # <<>> /\ Len(queue[s]) < QueueSize
        /\ queue' = [queue EXCEPT ![s] = Append(@, x.message)]
        /\ publisher' = [publisher EXCEPT ![p].rest = Tail(@)]
        /\ UNCHANGED <<holder, waiters, subscribers, consumer, closing, handled, log>>
    BY DEF Put
  <1>2. /\ x.rest \in Seq(Subscribers) /\ x.message = Len(log)
        /\ x.message \in Messages /\ IsInjective(x.rest)
    BY <1>1 DEF Locked, BusTypeOK
  <1>3. /\ s \in Subscribers /\ Tail(x.rest) \in Seq(Subscribers)
        /\ IsInjective(Tail(x.rest))
    BY <1>1, <1>2, Leaving
  <1>4. queue[s] \in Seq(Messages) /\ Append(queue[s], x.message) \in Seq(Messages)
        /\ Len(Append(queue[s], x.message)) <= QueueSize
    <2>1. queue[s] \in Seq(Messages)
      BY <1>3 DEF BusTypeOK
    <2>2. QueueSize \in Nat
      BY QueueSizeAssumption
    <2> HIDE DEF x, s
    <2> QED BY <1>1, <1>2, <2>1, <2>2
  <1>5. /\ \A q \in Publishers :
             /\ publisher'[q].pc = publisher[q].pc
             /\ publisher'[q].message = publisher[q].message
             /\ publisher'[q].rest = IF q = p THEN Tail(x.rest) ELSE publisher[q].rest
    BY <1>1 DEF BusTypeOK
  <1>6. BusTypeOK'
    <2>1. publisher' \in [Publishers -> PublisherType]
      <3> DEFINE y == [x EXCEPT !.rest = Tail(x.rest)]
      <3>1. x \in PublisherType /\ publisher \in [Publishers -> PublisherType]
        BY DEF BusTypeOK, PublisherType
      <3>2. y \in PublisherType
        BY <1>3, <3>1 DEF PublisherType
      <3>3. publisher' = [publisher EXCEPT ![p] = y]
        BY <1>1
      <3> HIDE DEF y
      <3> QED BY <3>1, <3>2, <3>3
    <2>2. queue' \in [Subscribers -> Seq(Messages)]
      <3> HIDE DEF x, s
      <3> QED BY <1>1, <1>4 DEF BusTypeOK
    <2>3. \A t \in Subscribers : Len(queue'[t]) <= QueueSize
      <3> HIDE DEF x, s
      <3> QED BY <1>1, <1>3, <1>4 DEF BusTypeOK
    <2> QED BY <1>1, <2>1, <2>2, <2>3 DEF BusTypeOK, PublisherType
  <1>7. Waiting'
    BY <1>1, <1>5 DEF Waiting
  <1>8. Locked'
    BY <1>1, <1>3, <1>5 DEF Locked
  <1>9. Subscribed'
    BY <1>1 DEF Subscribed
  <1>10. Room'
    BY <1>1, <1>5, SameAsking
  <1>20. Calling'
    BY <1>1 DEF Calling
  <1> QED BY <1>6, <1>7, <1>8, <1>9, <1>10, <1>20

LEMMA LeavePublishLock ==
  ASSUME LockInv, NEW p \in Publishers, LeavePublish(p)
  PROVE  LockInv'
  <1> USE DEF LockInv
  <1>1. /\ publisher[p].pc = "put" /\ publisher[p].rest = <<>> /\ holder' = None
        /\ publisher' = [publisher EXCEPT ![p] =
                           [pc |-> "idle", message |-> 0, rest |-> <<>>]]
        /\ UNCHANGED <<waiters, subscribers, consumer, closing, queue, handled, log>>
    BY DEF LeavePublish
  <1>2. publisher' \in [Publishers -> PublisherType]
    BY <1>1 DEF BusTypeOK, PublisherType
  <1>3. BusTypeOK'
    BY <1>1, <1>2 DEF BusTypeOK, PublisherType
  <1>4. /\ \A q \in Publishers : q # p => publisher'[q] = publisher[q]
        /\ publisher'[p].pc = "idle" /\ publisher'[p].rest = <<>>
    BY <1>1 DEF BusTypeOK
  <1>5. Waiting'
    BY <1>1, <1>4 DEF Waiting
  <1>6. Locked'
    BY <1>1, <1>4, AllTasks DEF Locked
  <1>7. Subscribed'
    BY <1>1 DEF Subscribed
  <1>8. Room'
    BY <1>1, <1>4, SameAsking
  <1>20. Calling'
    BY <1>1 DEF Calling
  <1> QED BY <1>3, <1>5, <1>6, <1>7, <1>8, <1>20

LEMMA LookUpLock ==
  ASSUME LockInv, NEW s \in Subscribers, LookUp(s)
  PROVE  LockInv'
  <1> USE DEF LockInv
  <1>1. PICK pc \in {"get", "done"} :
          consumer' = [consumer EXCEPT ![s].pc = pc]
    BY DEF LookUp
  <1> DEFINE w == Tail(waiters)
  <1>2. /\ consumer[s].pc = "lock" /\ Granted(<<"consume", s>>) /\ waiters' = w
        /\ UNCHANGED <<holder, subscribers, publisher, closing, queue, handled, log>>
    BY DEF LookUp, Pass
  <1> HIDE DEF w
  <1>3. /\ w \in Seq(Tasks) /\ IsInjective(w) /\ Range(w) \subseteq Range(waiters)
        /\ <<"consume", s>> \notin Range(w)
    BY <1>2, GrantStep DEF w
  <1>4. consumer' \in [Subscribers -> ConsumerType]
    BY <1>1 DEF BusTypeOK, ConsumerType
  <1>5. BusTypeOK'
    BY <1>2, <1>3, <1>4 DEF BusTypeOK, ConsumerType
  <1>6. \A t \in Subscribers : consumer'[t].pc = IF t = s THEN pc ELSE consumer[t].pc
    BY <1>1 DEF BusTypeOK
  <1>7. Waiting'
    BY <1>2, <1>3, <1>6 DEF Waiting
  <1>8. Locked'
    BY <1>2 DEF Locked
  <1>9. Subscribed'
    BY <1>2, <1>6 DEF Subscribed
  <1>10. Room'
    BY <1>2, SameAsking
  <1>20. Calling'
    BY <1>1, <1>6 DEF Calling, BusTypeOK
  <1> QED BY <1>5, <1>7, <1>8, <1>9, <1>10, <1>20

LEMMA GetLock ==
  ASSUME LockInv, NEW s \in Subscribers, Get(s)
  PROVE  LockInv'
  <1> USE DEF LockInv
  <1>1. /\ consumer[s].pc = "get" /\ queue[s] # <<>>
        /\ queue' = [queue EXCEPT ![s] = Tail(@)]
        /\ consumer' = [consumer EXCEPT ![s] = [pc |-> "callback",
                                                message |-> Head(queue[s])]]
        /\ UNCHANGED <<holder, waiters, subscribers, publisher, closing, handled, log>>
    BY DEF Get
  <1>2. queue[s] \in Seq(Messages) /\ Len(queue[s]) <= QueueSize
    BY DEF BusTypeOK
  <1>3. /\ Head(queue[s]) \in Messages /\ Tail(queue[s]) \in Seq(Messages)
        /\ Len(Tail(queue[s])) <= QueueSize
    BY <1>1, <1>2, QueueSizeAssumption
  <1>4. consumer' \in [Subscribers -> ConsumerType]
    BY <1>1, <1>3 DEF BusTypeOK, ConsumerType
  <1>5. BusTypeOK'
    <2>1. queue' \in [Subscribers -> Seq(Messages)]
      BY <1>1, <1>3 DEF BusTypeOK
    <2>2. \A t \in Subscribers : Len(queue'[t]) <= QueueSize
      BY <1>1, <1>3 DEF BusTypeOK
    <2> QED BY <1>1, <1>4, <2>1, <2>2 DEF BusTypeOK, ConsumerType
  <1>6. \A t \in Subscribers : consumer'[t].pc =
          IF t = s THEN "callback" ELSE consumer[t].pc
    BY <1>1 DEF BusTypeOK
  <1>7. Waiting'
    BY <1>1, <1>6 DEF Waiting
  <1>8. Locked'
    BY <1>1 DEF Locked
  <1>9. Subscribed'
    BY <1>1, <1>6 DEF Subscribed
  <1>10. Room'
    BY <1>1, SameAsking
  <1>20. Calling'
    BY <1>1, <1>3, <1>6 DEF Calling, BusTypeOK
  <1> QED BY <1>5, <1>7, <1>8, <1>9, <1>10, <1>20

LEMMA CallbackReturnsLock ==
  ASSUME LockInv, NEW s \in Subscribers, CallbackReturns(s)
  PROVE  LockInv'
  <1> USE DEF LockInv
  <1>1. /\ consumer[s].pc = "callback" /\ <<"consume", s>> \in Tasks
        /\ handled' = [handled EXCEPT ![s] = Append(@, consumer[s].message)]
        /\ consumer' = [consumer EXCEPT ![s] = [pc |-> "lock", message |-> 0]]
        /\ UNCHANGED <<subscribers, publisher, closing, queue, log>>
    BY AllTasks DEF CallbackReturns
  <1>2. <<"consume", s>> \notin Range(waiters)
    BY <1>1 DEF Waiting
  <1>3. /\ waiters' \in Seq(Tasks) /\ IsInjective(waiters') /\ holder' = holder
        /\ Range(waiters') = Range(waiters) \cup {<<"consume", s>>}
    BY <1>1, <1>2, AskStep DEF CallbackReturns
  <1>4. consumer' \in [Subscribers -> ConsumerType]
    BY <1>1 DEF BusTypeOK, ConsumerType
  <1>5. handled' \in [Subscribers -> Seq(Messages)]
    <2>1. consumer[s].message \in Messages
      BY <1>1 DEF Calling
    <2>2. handled[s] \in Seq(Messages)
      BY DEF BusTypeOK
    <2>3. Append(handled[s], consumer[s].message) \in Seq(Messages)
      BY <2>1, <2>2
    <2> QED BY <1>1, <2>3 DEF BusTypeOK
  <1>6. BusTypeOK'
    BY <1>1, <1>3, <1>4, <1>5 DEF BusTypeOK, ConsumerType
  <1>7. /\ \A t \in Subscribers : t # s => consumer'[t] = consumer[t]
        /\ consumer'[s].pc = "lock"
    BY <1>1 DEF BusTypeOK
  <1>8. Waiting'
    BY <1>1, <1>3, <1>7 DEF Waiting
  <1>9. Locked'
    BY <1>1, <1>3 DEF Locked
  <1>10. Subscribed'
    BY <1>1, <1>7 DEF Subscribed
  <1>11. Room'
    BY <1>1, SameAsking
  <1>12. Calling'
    BY <1>7 DEF Calling
  <1> QED BY <1>6, <1>8, <1>9, <1>10, <1>11, <1>12

LEMMA CallUnsubscribeLock ==
  ASSUME LockInv, NEW s \in Subscribers, CallUnsubscribe(s)
  PROVE  LockInv'
  <1> USE DEF LockInv
  <1>1. /\ consumer[s].pc \notin {"absent", "subscribing"} /\ closing[s] = "no"
        /\ closing' = [closing EXCEPT ![s] = "lock"] /\ <<"close", s>> \in Tasks
        /\ UNCHANGED <<subscribers, publisher, consumer, queue, handled, log>>
    BY AllTasks DEF CallUnsubscribe
  <1>2. <<"close", s>> \notin Range(waiters)
    BY <1>1 DEF Waiting
  <1>3. /\ waiters' \in Seq(Tasks) /\ IsInjective(waiters') /\ holder' = holder
        /\ Range(waiters') = Range(waiters) \cup {<<"close", s>>}
    BY <1>1, <1>2, AskStep DEF CallUnsubscribe
  <1>4. BusTypeOK'
    BY <1>1, <1>3 DEF BusTypeOK
  <1>5. \A t \in Subscribers : closing'[t] = IF t = s THEN "lock" ELSE closing[t]
    BY <1>1 DEF BusTypeOK
  <1>6. Waiting'
    BY <1>1, <1>3, <1>5 DEF Waiting
  <1>7. Locked'
    BY <1>1, <1>3 DEF Locked
  <1>8. Subscribed'
    BY <1>1, <1>5 DEF Subscribed
  <1>9. Room' /\ Calling'
    BY <1>1, SameAsking DEF Calling
  <1> QED BY <1>4, <1>6, <1>7, <1>8, <1>9

LEMMA RemoveSubscriberLock ==
  ASSUME LockInv, NEW s \in Subscribers, RemoveSubscriber(s)
  PROVE  LockInv'
  <1> USE DEF LockInv
  <1> DEFINE w == Tail(waiters)
             S == Subscribers \ {s}
  <1>1. /\ closing[s] = "lock" /\ Granted(<<"close", s>>) /\ waiters' = w
        /\ subscribers' = Only(subscribers, S)
        /\ closing' = [closing EXCEPT ![s] = "cancel"]
        /\ UNCHANGED <<holder, publisher, consumer, queue, handled, log>>
    BY DEF RemoveSubscriber, Pass
  <1> HIDE DEF w
  <1>2. /\ w \in Seq(Tasks) /\ IsInjective(w) /\ Range(w) \subseteq Range(waiters)
        /\ <<"close", s>> \notin Range(w)
    BY <1>1, GrantStep DEF w
  <1>3. /\ subscribers' \in Seq(Subscribers) /\ IsInjective(subscribers')
        /\ Range(subscribers') \subseteq Range(subscribers) \ {s}
    <2>1. subscribers \in Seq(Subscribers) /\ IsInjective(subscribers)
      BY DEF BusTypeOK
    <2> HIDE DEF S
    <2>2. TakesHits(Subscribers, subscribers, S)
      BY <2>1, OnlyTakesHits
    <2>3. IsInjective(Only(subscribers, S))
      BY <2>1, OnlyInjective
    <2>4. Range(Only(subscribers, S)) = Range(subscribers) \cap S
      BY <2>1, OnlyRange
    <2>5. Only(subscribers, S) \in Seq(Subscribers)
      BY <2>2 DEF TakesHits
    <2> QED BY <1>1, <2>3, <2>4, <2>5 DEF S
  <1>4. BusTypeOK'
    BY <1>1, <1>2, <1>3 DEF BusTypeOK
  <1>5. \A t \in Subscribers : closing'[t] = IF t = s THEN "cancel" ELSE closing[t]
    BY <1>1 DEF BusTypeOK
  <1>6. Waiting'
    BY <1>1, <1>2, <1>5 DEF Waiting
  <1>7. Locked'
    BY <1>1 DEF Locked
  <1>8. Subscribed'
    <2> HIDE DEF S
    <2>1. ASSUME NEW t \in Subscribers, t # s
          PROVE  /\ t \in Range(subscribers') => t \in Range(subscribers)
                 /\ closing'[t] = closing[t] /\ consumer'[t] = consumer[t]
      BY <1>1, <1>3, <1>5, <2>1
    <2>2. /\ s \notin Range(subscribers') /\ closing'[s] = "cancel"
          /\ consumer'[s] = consumer[s] /\ closing[s] # "no"
      BY <1>1, <1>3, <1>5
    <2> QED BY <2>1, <2>2 DEF Subscribed
  <1>9. Room' /\ Calling'
    BY <1>1, SameAsking DEF Calling
  <1> QED BY <1>4, <1>6, <1>7, <1>8, <1>9

LEMMA CancelConsumerLock ==
  ASSUME LockInv, NEW s \in Subscribers, CancelConsumer(s)
  PROVE  LockInv'
  <1> USE DEF LockInv
  <1> DEFINE S == Tasks \ {<<"consume", s>>}
  <1>1. /\ closing[s] = "cancel" /\ waiters' = Only(waiters, S)
        /\ closing' = [closing EXCEPT ![s] = "done"]
        /\ consumer' = [consumer EXCEPT ![s] = [pc |-> "done", message |-> 0]]
        /\ UNCHANGED <<holder, subscribers, publisher, queue, handled, log>>
    BY DEF CancelConsumer
  <1>2. /\ waiters' \in Seq(Tasks) /\ IsInjective(waiters')
        /\ Range(waiters') \subseteq Range(waiters) \ {<<"consume", s>>}
    <2>1. waiters \in Seq(Tasks) /\ IsInjective(waiters)
      BY DEF BusTypeOK
    <2> HIDE DEF S
    <2>2. TakesHits(Tasks, waiters, S)
      BY <2>1, OnlyTakesHits
    <2>3. IsInjective(Only(waiters, S))
      BY <2>1, OnlyInjective
    <2>4. Range(Only(waiters, S)) = Range(waiters) \cap S
      BY <2>1, OnlyRange
    <2>5. Only(waiters, S) \in Seq(Tasks)
      BY <2>2 DEF TakesHits
    <2> QED BY <1>1, <2>3, <2>4, <2>5 DEF S
  <1>3. consumer' \in [Subscribers -> ConsumerType]
    BY <1>1 DEF BusTypeOK, ConsumerType
  <1>4. BusTypeOK'
    BY <1>1, <1>2, <1>3 DEF BusTypeOK, ConsumerType
  <1>5. /\ \A t \in Subscribers : closing'[t] = IF t = s THEN "done" ELSE closing[t]
        /\ \A t \in Subscribers : t # s => consumer'[t] = consumer[t]
        /\ consumer'[s].pc = "done"
    BY <1>1 DEF BusTypeOK
  <1>6. Waiting'
    <2> HIDE DEF S
    <2>1. /\ <<"close", s>> \notin Range(waiters)
          /\ <<"subscribe", s>> \notin Range(waiters)
      BY <1>1 DEF Waiting, Subscribed
    <2>2. \A t \in Subscribers :
            /\ <<"consume", t>> \in Range(waiters') => t # s
            /\ <<"close", t>> \in Range(waiters') => t # s
            /\ <<"subscribe", t>> \in Range(waiters') => t # s
      BY <1>2, <2>1
    <2>3. Range(waiters') \subseteq Range(waiters)
      BY <1>2
    <2> QED BY <1>1, <1>5, <2>2, <2>3 DEF Waiting
  <1>7. Locked'
    BY <1>1 DEF Locked
  <1>8. Subscribed'
    BY <1>1, <1>5 DEF Subscribed
  <1>9. Room' /\ Calling'
    BY <1>1, <1>5, SameAsking DEF Calling
  <1> QED BY <1>4, <1>6, <1>7, <1>8, <1>9

LEMMA LockStep == LockInv /\ [BusNext]_busVars => LockInv'
  <1> SUFFICES ASSUME LockInv, [BusNext]_busVars PROVE LockInv'
    OBVIOUS
  <1>1. CASE UNCHANGED busVars
    BY <1>1 DEF LockInv, BusTypeOK, Waiting, Locked, Subscribed, Room, Asking,
                Calling, busVars
  <1>2. ASSUME NEW p \in Publishers, CallPublish(p) \/ PublisherStep(p)
        PROVE  LockInv'
    BY <1>2, CallPublishLock, EnterPublishLock, PutLock, LeavePublishLock
    DEF PublisherStep
  <1>3. ASSUME NEW s \in Subscribers,
               \/ CallSubscribe(s) \/ ConsumerStep(s)
               \/ CallUnsubscribe(s) \/ CloseStep(s)
        PROVE  LockInv'
    BY <1>3, CallSubscribeLock, AddSubscriberLock, LookUpLock, GetLock,
       CallbackReturnsLock, CallUnsubscribeLock, RemoveSubscriberLock,
       CancelConsumerLock
    DEF ConsumerStep, CloseStep
  <1> QED BY <1>1, <1>2, <1>3 DEF BusNext

(* Every state of the bus has its types: nobody waits twice for the lock   *)
(* and no queue holds more than its bound.                                 *)
THEOREM BusTypeCorrect == BusSpec => []BusTypeOK
  <1>1. LockInv => BusTypeOK
    BY DEF LockInv
  <1> QED BY <1>1, FirstLockInv, LockStep, PTL DEF BusSpec

(* Once unsubscribe has returned, no callback of the subscription runs and *)
(* none will: whatever it interrupted, its consumer is gone, the table has *)
(* forgotten it and nothing waits for the lock in its name (unsubscribe,   *)
(* _consumer).                                                             *)
THEOREM UnsubscribedStaysQuiet == BusSpec => []UnsubscribedIsQuiet
  <1>1. ASSUME LockInv PROVE UnsubscribedIsQuiet
    <2> SUFFICES ASSUME NEW s \in Subscribers, closing[s] = "done"
                 PROVE  /\ consumer[s].pc = "done"
                        /\ s \notin Range(subscribers)
                        /\ <<"consume", s>> \notin Range(waiters) \cup {holder}
      BY DEF UnsubscribedIsQuiet
    <2>1. consumer[s].pc = "done" /\ s \notin Range(subscribers)
      BY <1>1 DEF LockInv, Subscribed
    <2>2. <<"consume", s>> \notin Range(waiters)
      BY <1>1, <2>1 DEF LockInv, Waiting
    <2>3. holder # <<"consume", s>>
      BY <1>1 DEF LockInv, Locked, None
    <2> QED BY <2>1, <2>2, <2>3
  <1> QED BY <1>1, FirstLockInv, LockStep, PTL DEF BusSpec

-----------------------------------------------------------------------------
(* The order of the messages of one subscription. *)
Undelivered(s) == {p \in Publishers : s \in Range(publisher[p].rest)}
Pending(s) == IF Undelivered(s) = {} THEN <<>> ELSE <<Len(log)>>
Ordered(s) == AddressedTo(s) = Received(s) \o Pending(s)

(* A step, too, keeps a subscription in order. *)
KeepsOrder(s) == Ordered(s) => Ordered(s)'

OrderInv == LockInv /\ \A s \in Subscribers : closing[s] # "done" => Ordered(s)

(* Only the publisher in the lock has messages to put, those of the newest *)
(* publish.                                                                *)
LEMMA PendingIsNewest ==
  ASSUME LockInv, NEW s \in Subscribers
  PROVE  /\ \A p \in Undelivered(s) : /\ publisher[p].pc = "put"
                                  /\ publisher[p].message = Len(log)
         /\ \A p, q \in Undelivered(s) : p = q
         /\ Pending(s) \in Seq(Nat)
  <1>1. ASSUME NEW p \in Undelivered(s)
        PROVE  /\ publisher[p].pc = "put" /\ publisher[p].message = Len(log)
               /\ holder = <<"publish", p>>
    <2>1. s \in Range(publisher[p].rest) /\ p \in Publishers
      BY DEF Undelivered
    <2>2. publisher[p].rest # <<>>
      BY <2>1 DEF Range
    <2> QED BY <2>1, <2>2 DEF LockInv, Locked
  <1>2. \A p, q \in Undelivered(s) : p = q
    BY <1>1
  <1>3. Pending(s) \in Seq(Nat)
    <2>1. Len(log) \in Nat
      BY DEF LockInv, BusTypeOK
    <2> QED BY <2>1 DEF Pending
  <1> QED BY <1>1, <1>2, <1>3

LEMMA OrderMeans == OrderInv => InPublishOrder
  <1> SUFFICES ASSUME OrderInv, NEW s \in Subscribers, closing[s] # "done",
                      NEW missing,
                      missing = {p \in Publishers : s \in Range(publisher[p].rest)}
               PROVE  AddressedTo(s) = Received(s) \o
                        (IF missing = {} THEN <<>>
                         ELSE <<publisher[CHOOSE p \in missing : TRUE].message>>)
    BY DEF InPublishOrder
  <1>1. missing = Undelivered(s) /\ Ordered(s)
    BY DEF Undelivered, OrderInv
  <1>2. CASE missing = {}
    BY <1>1, <1>2 DEF Ordered, Pending
  <1>3. CASE missing # {}
    <2>1. publisher[CHOOSE p \in missing : TRUE].message = Len(log)
      BY <1>1, <1>3, PendingIsNewest DEF OrderInv
    <2> QED BY <1>1, <1>3, <2>1 DEF Ordered, Pending
  <1> QED BY <1>2, <1>3

(* The three ways in which a message moves along. *)
LEMMA MoveHead ==
  ASSUME NEW V, NEW h \in Seq(V), NEW q \in Seq(V), q # <<>>
  PROVE  (h \o <<>>) \o q = (h \o <<Head(q)>>) \o Tail(q)
  <1>1. Head(q) \in V /\ Tail(q) \in Seq(V)
    BY HeadTailProperties
  <1>2. <<Head(q)>> \in Seq(V)
    BY <1>1
  <1>3. q = <<Head(q)>> \o Tail(q)
    OBVIOUS
  <1>4. h \o <<>> = h
    BY ConcatEmptySeq
  <1>5. (h \o <<Head(q)>>) \o Tail(q) = h \o (<<Head(q)>> \o Tail(q))
    BY <1>1, <1>2, ConcatAssociative
  <1> QED BY <1>3, <1>4, <1>5

LEMMA MoveDone ==
  ASSUME NEW V, NEW h \in Seq(V), NEW m \in V
  PROVE  h \o <<m>> = Append(h, m) \o <<>>
  <1>1. Append(h, m) = h \o <<m>> /\ Append(h, m) \in Seq(V)
    BY AppendIsConcat, AppendProperties
  <1> QED BY <1>1, ConcatEmptySeq

LEMMA MovePut ==
  ASSUME NEW V, NEW r \in Seq(V), NEW q \in Seq(V), NEW m \in V
  PROVE  (r \o q) \o <<m>> = (r \o Append(q, m)) \o <<>>
  <1>1. Append(q, m) = q \o <<m>> /\ Append(q, m) \in Seq(V) /\ <<m>> \in Seq(V)
    BY AppendIsConcat, AppendProperties
  <1>2. (r \o q) \o <<m>> = r \o Append(q, m)
    BY <1>1, ConcatAssociative
  <1>3. r \o Append(q, m) \in Seq(V)
    BY <1>1, ConcatProperties
  <1> QED BY <1>2, <1>3, ConcatEmptySeq

LEMMA ReceivedType ==
  ASSUME LockInv, NEW s \in Subscribers
  PROVE  /\ handled[s] \in Seq(Nat) /\ queue[s] \in Seq(Nat)
         /\ Current(s) \in Seq(Nat) /\ handled[s] \o Current(s) \in Seq(Nat)
         /\ Received(s) \in Seq(Nat) /\ Len(log) \in Nat
  <1>1. /\ handled[s] \in Seq(Messages) /\ queue[s] \in Seq(Messages)
        /\ Len(log) \in Nat
    BY DEF LockInv, BusTypeOK
  <1>2. \A m \in Messages : m \in Nat
    BY PublishersAssumption DEF Messages
  <1> HIDE DEF Messages
  <1>3. handled[s] \in Seq(Nat) /\ queue[s] \in Seq(Nat)
    BY <1>1, <1>2
  <1>4. Current(s) \in Seq(Nat)
    <2>1. consumer[s].pc = "callback" => consumer[s].message \in Nat
      BY <1>2 DEF LockInv, Calling
    <2> QED BY <2>1 DEF Current
  <1>5. handled[s] \o Current(s) \in Seq(Nat)
    BY <1>3, <1>4, ConcatProperties
  <1>6. Received(s) \in Seq(Nat)
    BY <1>3, <1>5, ConcatProperties DEF Received
  <1> QED BY <1>1, <1>3, <1>4, <1>5, <1>6

LEMMA EnterPublishOrder ==
  ASSUME LockInv, LockInv', NEW p \in Publishers, EnterPublish(p),
         NEW s \in Subscribers
  PROVE  KeepsOrder(s)
  <1> SUFFICES ASSUME Ordered(s) PROVE Ordered(s)'
    BY DEF KeepsOrder
  <1> DEFINE matching == Only(subscribers, {t \in Subscribers : Matches(p, t)})
             R == Range(matching)
             n == Len(log)
             T == {m \in DOMAIN log : s \in log[m]}
             U == {m \in DOMAIN log' : s \in log'[m]}
  <1>1. /\ holder = None /\ log' = Append(log, R)
        /\ publisher' = [publisher EXCEPT ![p] =
                           [pc |-> "put", message |-> n + 1, rest |-> matching]]
        /\ UNCHANGED <<subscribers, consumer, closing, queue, handled>>
    BY DEF EnterPublish, Take, Granted
  <1>2. R \in SUBSET Subscribers
    <2>1. subscribers \in Seq(Subscribers)
      BY DEF LockInv, BusTypeOK
    <2>2. R = Range(subscribers) \cap {t \in Subscribers : Matches(p, t)}
      BY <2>1, OnlyRange
    <2> HIDE DEF R
    <2> QED BY <2>2
  <1> HIDE DEF matching
  <1>3. /\ n \in Nat /\ Len(log') = n + 1 /\ DOMAIN log = 1 .. n
        /\ DOMAIN log' = 1 .. n + 1 /\ log'[n + 1] = R
        /\ \A m \in 1 .. n : log'[m] = log[m]
    <2>1. log \in Seq(SUBSET Subscribers)
      BY DEF LockInv, BusTypeOK
    <2> HIDE DEF R
    <2> QED BY <1>1, <1>2, <2>1
  <1>4. \A q \in Publishers : publisher[q].rest = <<>>
    BY <1>1, AllTasks DEF LockInv, Locked
  <1>5. Undelivered(s) = {} /\ Pending(s) = <<>>
    BY <1>4 DEF Undelivered, Pending, Range
  <1>6. Pending(s)' = IF s \in R THEN <<n + 1>> ELSE <<>>
    <2>1. \A q \in Publishers : publisher'[q].rest = IF q = p THEN matching ELSE <<>>
      BY <1>1, <1>4 DEF LockInv, BusTypeOK
    <2>2. Undelivered(s)' = IF s \in R THEN {p} ELSE {}
      BY <2>1 DEF Undelivered, Range
    <2> HIDE DEF R
    <2> QED BY <1>3, <2>2 DEF Pending
  <1>7. Received(s)' = Received(s)
    <2>1. handled'[s] = handled[s] /\ queue'[s] = queue[s] /\ consumer'[s] = consumer[s]
      BY <1>1
    <2> QED BY <2>1 DEF Received, Current
  <1> HIDE DEF R, n
  <1>8. /\ Numbers(n) \in Seq(Nat)
        /\ Numbers(n + 1) = Append(Numbers(n), n + 1)
    <2>1. Numbers(n) \in Seq(Nat) /\ Len(Numbers(n)) = n
      BY <1>3 DEF Numbers
    <2>2. Numbers(n + 1) \in Seq(Nat) /\ Len(Numbers(n + 1)) = n + 1
      BY <1>3 DEF Numbers
    <2> DEFINE a == Append(Numbers(n), n + 1)
    <2>3. a \in Seq(Nat) /\ Len(a) = n + 1
      BY <1>3, <2>1
    <2>4. ASSUME NEW m \in 1 .. n + 1 PROVE a[m] = m /\ Numbers(n + 1)[m] = m
      <3>1. Numbers(n + 1)[m] = m
        BY DEF Numbers
      <3>2. CASE m = n + 1
        BY <1>3, <2>1, <3>1, <3>2
      <3>3. CASE m # n + 1
        <4>1. m \in 1 .. n
          BY <1>3, <3>3
        <4>2. a[m] = Numbers(n)[m]
          BY <1>3, <2>1, <4>1
        <4> QED BY <3>1, <4>1, <4>2 DEF Numbers
      <3> QED BY <3>2, <3>3
    <2> HIDE DEF a
    <2>5. Numbers(n + 1) = a
      BY <2>2, <2>3, <2>4
    <2> QED BY <2>1, <2>5 DEF a
  <1>9. Only(Numbers(n), U) = AddressedTo(s)
    <2>1. DOMAIN Numbers(n) = 1 .. n /\ \A m \in 1 .. n : Numbers(n)[m] = m
      BY DEF Numbers
    <2>2. \A m \in 1 .. n : m \in 1 .. n + 1
      BY <1>3
    <2>3. \A m \in 1 .. n : m \in U <=> m \in T
      BY <1>3, <2>2
    <2> HIDE DEF U, T
    <2>4. Only(Numbers(n), U) = Only(Numbers(n), T)
      BY <2>1, <2>3, OnlySame
    <2> QED BY <2>4 DEF AddressedTo, T, n
  <1>10. n + 1 \in U <=> s \in R
    BY <1>3
  <1>11. AddressedTo(s)' = Only(Numbers(n + 1), U)
    BY <1>3 DEF AddressedTo
  <1>12. n + 1 \in Nat
    BY <1>3
  <1> HIDE DEF U
  <1>13. AddressedTo(s)' = IF s \in R THEN Append(AddressedTo(s), n + 1)
                           ELSE AddressedTo(s)
    <2>1. Only(Append(Numbers(n), n + 1), U) =
            IF n + 1 \in U THEN Append(Only(Numbers(n), U), n + 1)
            ELSE Only(Numbers(n), U)
      <3>1. PICK x : x = Numbers(n)
        OBVIOUS
      <3>2. x \in Seq(Nat)
        BY <1>8, <3>1
      <3>3. Only(Append(x, n + 1), U) =
              IF n + 1 \in U THEN Append(Only(x, U), n + 1) ELSE Only(x, U)
        BY <1>12, <3>2, OnlyAppend
      <3> QED BY <3>1, <3>3
    <2> QED BY <1>8, <1>9, <1>10, <1>11, <2>1
  <1>14. AddressedTo(s) = Received(s) /\ Received(s) \in Seq(Nat)
    BY <1>5, ReceivedType, ConcatEmptySeq DEF Ordered
  <1>15. CASE s \in R
    BY <1>6, <1>7, <1>12, <1>13, <1>14, <1>15, AppendIsConcat DEF Ordered
  <1>16. CASE s \notin R
    BY <1>6, <1>7, <1>13, <1>14, <1>16, ConcatEmptySeq DEF Ordered
  <1> QED BY <1>15, <1>16

LEMMA PutOrder ==
  ASSUME LockInv, LockInv', NEW p \in Publishers, Put(p),
         NEW s \in Subscribers
  PROVE  KeepsOrder(s)
  <1> SUFFICES ASSUME Ordered(s) PROVE Ordered(s)'
    BY DEF KeepsOrder
  <1> DEFINE h == Head(publisher[p].rest)
             rest == publisher[p].rest
             n == Len(log)
  <1>1. /\ publisher[p].pc = "put" /\ rest # <<>>
        /\ queue' = [queue EXCEPT ![h] = Append(@, publisher[p].message)]
        /\ publisher' = [publisher EXCEPT ![p].rest = Tail(@)]
        /\ UNCHANGED <<consumer, handled, log>>
    BY DEF Put
  <1>2. publisher[p].message = n /\ rest \in Seq(Subscribers) /\ IsInjective(rest)
    BY <1>1 DEF LockInv, Locked, BusTypeOK
  <1>3. \A q \in Publishers : q # p => publisher[q].rest = <<>>
    BY <1>1 DEF LockInv, Locked
  <1>4. \A q \in Publishers :
          publisher'[q].rest = IF q = p THEN Tail(rest) ELSE publisher[q].rest
    BY <1>1 DEF LockInv, BusTypeOK
  <1>5. /\ h \in Subscribers /\ h \notin Range(Tail(rest))
        /\ Range(rest) = {h} \cup Range(Tail(rest))
    BY <1>1, <1>2, Leaving
  <1>6. queue'[s] = IF s = h THEN Append(queue[s], n) ELSE queue[s]
    BY <1>1, <1>2 DEF LockInv, BusTypeOK
  <1>7. AddressedTo(s)' = AddressedTo(s)
    BY <1>1 DEF AddressedTo
  <1>8. CASE s = h
    <2>1. Undelivered(s) # {} /\ Undelivered(s)' = {}
      <3>1. p \in Undelivered(s)
        BY <1>5, <1>8 DEF Undelivered
      <3>2. \A q \in Publishers : s \notin Range(publisher'[q].rest)
        <4>1. Range(<<>>) = {}
          BY DEF Range
        <4> QED BY <1>3, <1>4, <1>5, <1>8, <4>1
      <3> QED BY <3>1, <3>2 DEF Undelivered
    <2>2. Pending(s) = <<n>> /\ Pending(s)' = <<>>
      BY <2>1 DEF Pending
    <2> DEFINE r == handled[s] \o Current(s)
    <2>3. /\ r \in Seq(Nat) /\ queue[s] \in Seq(Nat) /\ n \in Nat
          /\ Received(s) = r \o queue[s]
      BY ReceivedType DEF Received
    <2>4. Received(s)' = r \o Append(queue[s], n)
      BY <1>1, <1>6, <1>8 DEF Received, Current
    <2> HIDE DEF r, n
    <2>5. (r \o queue[s]) \o <<n>> = (r \o Append(queue[s], n)) \o <<>>
      BY <2>3, MovePut
    <2> QED BY <1>7, <2>2, <2>3, <2>4, <2>5 DEF Ordered
  <1>9. CASE s # h
    <2>1. Undelivered(s)' = Undelivered(s)
      <3>1. \A q \in Publishers :
              s \in Range(publisher'[q].rest) <=> s \in Range(publisher[q].rest)
        BY <1>4, <1>5, <1>9
      <3> QED BY <3>1 DEF Undelivered
    <2>2. Received(s)' = Received(s)
      BY <1>1, <1>6, <1>9 DEF Received, Current
    <2>3. Pending(s)' = Pending(s)
      BY <1>1, <2>1 DEF Pending
    <2> QED BY <1>7, <2>2, <2>3 DEF Ordered
  <1> QED BY <1>8, <1>9

(* Nothing is published, nothing is put and nothing of s taken or handled. *)
Untouched(s) ==
  /\ log' = log
  /\ \A p \in Publishers : publisher'[p].rest = publisher[p].rest
  /\ handled'[s] = handled[s] /\ queue'[s] = queue[s]
  /\ \/ consumer'[s] = consumer[s]
     \/ consumer[s].pc # "callback" /\ consumer'[s].pc # "callback"

LEMMA OrderStays ==
  ASSUME NEW s \in Subscribers, Untouched(s)
  PROVE  KeepsOrder(s)
  <1> USE DEF Untouched
  <1> SUFFICES ASSUME Ordered(s) PROVE Ordered(s)'
    BY DEF KeepsOrder
  <1>1. AddressedTo(s)' = AddressedTo(s)
    BY DEF AddressedTo
  <1>2. Undelivered(s)' = Undelivered(s)
    BY DEF Undelivered
  <1>3. Pending(s)' = Pending(s)
    BY <1>2 DEF Pending
  <1>4. Current(s)' = Current(s)
    BY DEF Current
  <1>5. Received(s)' = Received(s)
    BY <1>4 DEF Received
  <1> QED BY <1>1, <1>3, <1>5 DEF Ordered

LEMMA GetOrder ==
  ASSUME LockInv, NEW t \in Subscribers, Get(t), NEW s \in Subscribers
  PROVE  KeepsOrder(s)
  <1> SUFFICES ASSUME Ordered(s) PROVE Ordered(s)'
    BY DEF KeepsOrder
  <1>1. /\ consumer[t].pc = "get" /\ queue[t] # <<>>
        /\ queue' = [queue EXCEPT ![t] = Tail(@)]
        /\ consumer' = [consumer EXCEPT ![t] = [pc |-> "callback",
                                                message |-> Head(queue[t])]]
        /\ UNCHANGED <<publisher, handled, log>>
    BY DEF Get
  <1>2. CASE s # t
    <2>1. /\ queue'[s] = queue[s] /\ consumer'[s] = consumer[s]
          /\ handled'[s] = handled[s] /\ log' = log
          /\ \A p \in Publishers : publisher'[p].rest = publisher[p].rest
      BY <1>1, <1>2 DEF LockInv, BusTypeOK
    <2>2. Untouched(s)
      BY <2>1 DEF Untouched
    <2>3. KeepsOrder(s)
      BY <2>2, OrderStays
    <2> QED BY <2>3 DEF KeepsOrder
  <1>3. CASE s = t
    <2>1. AddressedTo(s)' = AddressedTo(s)
      BY <1>1 DEF AddressedTo
    <2>2. Undelivered(s)' = Undelivered(s)
      BY <1>1 DEF Undelivered
    <2>3. Pending(s)' = Pending(s)
      BY <1>1, <2>2 DEF Pending
    <2>4. /\ queue'[s] = Tail(queue[s]) /\ handled'[s] = handled[s]
          /\ consumer'[s].pc = "callback" /\ consumer'[s].message = Head(queue[s])
      BY <1>1, <1>3 DEF LockInv, BusTypeOK
    <2>5. Received(s)' = (handled[s] \o <<Head(queue[s])>>) \o Tail(queue[s])
      BY <2>4 DEF Received, Current
    <2>6. Received(s) = (handled[s] \o <<>>) \o queue[s]
      BY <1>1, <1>3 DEF Received, Current
    <2>7. handled[s] \in Seq(Nat) /\ queue[s] \in Seq(Nat) /\ queue[s] # <<>>
      BY <1>1, <1>3, ReceivedType
    <2>8. Received(s)' = Received(s)
      BY <2>5, <2>6, <2>7, MoveHead
    <2> QED BY <2>1, <2>3, <2>8 DEF Ordered
  <1> QED BY <1>2, <1>3

LEMMA CallbackReturnsOrder ==
  ASSUME LockInv, NEW t \in Subscribers, CallbackReturns(t),
         NEW s \in Subscribers
  PROVE  KeepsOrder(s)
  <1> SUFFICES ASSUME Ordered(s) PROVE Ordered(s)'
    BY DEF KeepsOrder
  <1>1. /\ consumer[t].pc = "callback"
        /\ handled' = [handled EXCEPT ![t] = Append(@, consumer[t].message)]
        /\ consumer' = [consumer EXCEPT ![t] = [pc |-> "lock", message |-> 0]]
        /\ UNCHANGED <<publisher, queue, log>>
    BY DEF CallbackReturns
  <1>2. CASE s # t
    <2>1. /\ queue'[s] = queue[s] /\ consumer'[s] = consumer[s]
          /\ handled'[s] = handled[s] /\ log' = log
          /\ \A p \in Publishers : publisher'[p].rest = publisher[p].rest
      BY <1>1, <1>2 DEF LockInv, BusTypeOK
    <2>2. Untouched(s)
      BY <2>1 DEF Untouched
    <2>3. KeepsOrder(s)
      BY <2>2, OrderStays
    <2> QED BY <2>3 DEF KeepsOrder
  <1>3. CASE s = t
    <2>1. AddressedTo(s)' = AddressedTo(s)
      BY <1>1 DEF AddressedTo
    <2>2. Undelivered(s)' = Undelivered(s)
      BY <1>1 DEF Undelivered
    <2>3. Pending(s)' = Pending(s)
      BY <1>1, <2>2 DEF Pending
    <2> DEFINE m == consumer[s].message
    <2>4. /\ queue'[s] = queue[s] /\ handled'[s] = Append(handled[s], m)
          /\ consumer'[s].pc = "lock"
      BY <1>1, <1>3 DEF LockInv, BusTypeOK
    <2>5. Received(s)' = (Append(handled[s], m) \o <<>>) \o queue[s]
      BY <2>4 DEF Received, Current
    <2>6. Received(s) = (handled[s] \o <<m>>) \o queue[s]
      BY <1>1, <1>3 DEF Received, Current
    <2>7. handled[s] \in Seq(Nat)
      BY ReceivedType
    <2>8. m \in Nat
      <3>1. m \in Messages
        BY <1>1, <1>3 DEF LockInv, Calling
      <3> QED BY <3>1, PublishersAssumption DEF Messages
    <2>9. Received(s)' = Received(s)
      BY <2>5, <2>6, <2>7, <2>8, MoveDone
    <2> QED BY <2>1, <2>3, <2>9 DEF Ordered
  <1> QED BY <1>2, <1>3

(* The other steps leave alone what publishers have to put and what has    *)
(* been received.                                                          *)
LEMMA QuietOrder ==
  ASSUME LockInv, NEW s \in Subscribers, closing'[s] # "done",
         \/ \E p \in Publishers : CallPublish(p) \/ LeavePublish(p)
         \/ \E t \in Subscribers :
              \/ CallSubscribe(t) \/ AddSubscriber(t) \/ LookUp(t)
              \/ CallUnsubscribe(t) \/ RemoveSubscriber(t) \/ CancelConsumer(t)
         \/ UNCHANGED busVars
  PROVE  KeepsOrder(s)
  <1>1. ASSUME NEW p \in Publishers, CallPublish(p) \/ LeavePublish(p)
        PROVE  KeepsOrder(s)
    <2>1. UNCHANGED <<consumer, queue, handled, log>>
      BY <1>1 DEF CallPublish, LeavePublish
    <2>2. \A q \in Publishers : publisher'[q].rest = publisher[q].rest
      <3>1. publisher \in [Publishers -> PublisherType]
        BY DEF LockInv, BusTypeOK, PublisherType
      <3>2. CASE CallPublish(p)
        <4>1. publisher' = [publisher EXCEPT ![p].pc = "lock"]
          BY <3>2 DEF CallPublish
        <4> QED BY <3>1, <4>1 DEF PublisherType
      <3>3. CASE LeavePublish(p)
        <4>1. /\ publisher[p].rest = <<>>
              /\ publisher' = [publisher EXCEPT ![p] =
                                [pc |-> "idle", message |-> 0, rest |-> <<>>]]
          BY <3>3 DEF LeavePublish
        <4> QED BY <3>1, <4>1
      <3> QED BY <1>1, <3>2, <3>3
    <2>3. Untouched(s)
      BY <2>1, <2>2 DEF Untouched
    <2> QED BY <2>3, OrderStays
  <1>2. ASSUME NEW t \in Subscribers,
               \/ CallSubscribe(t) \/ AddSubscriber(t) \/ LookUp(t)
               \/ CallUnsubscribe(t) \/ RemoveSubscriber(t) \/ CancelConsumer(t)
        PROVE  KeepsOrder(s)
    <2>1. UNCHANGED <<publisher, queue, handled, log>>
      BY <1>2 DEF CallSubscribe, AddSubscriber, LookUp, CallUnsubscribe,
                  RemoveSubscriber, CancelConsumer
    <2>2. \/ consumer'[s] = consumer[s]
          \/ consumer[s].pc # "callback" /\ consumer'[s].pc # "callback"
      <3>1. CASE CallSubscribe(t) \/ AddSubscriber(t) \/ LookUp(t)
        BY <3>1 DEF CallSubscribe, AddSubscriber, LookUp, LockInv, BusTypeOK
      <3>2. CASE CallUnsubscribe(t) \/ RemoveSubscriber(t)
        BY <3>2 DEF CallUnsubscribe, RemoveSubscriber
      <3>3. CASE CancelConsumer(t)
        BY <3>3 DEF CancelConsumer, LockInv, BusTypeOK
      <3> QED BY <1>2, <3>1, <3>2, <3>3
    <2>3. /\ log' = log /\ handled'[s] = handled[s] /\ queue'[s] = queue[s]
          /\ \A p \in Publishers : publisher'[p].rest = publisher[p].rest
      BY <2>1
    <2>4. Untouched(s)
      BY <2>2, <2>3 DEF Untouched
    <2> QED BY <2>4, OrderStays
  <1>3. CASE UNCHANGED busVars
    <2>1. UNCHANGED <<publisher, consumer, queue, handled, log>>
      BY <1>3 DEF busVars
    <2>2. /\ log' = log /\ handled'[s] = handled[s] /\ queue'[s] = queue[s]
          /\ consumer'[s] = consumer[s]
          /\ \A p \in Publishers : publisher'[p].rest = publisher[p].rest
      BY <2>1
    <2>3. Untouched(s)
      BY <2>2 DEF Untouched
    <2> QED BY <2>3, OrderStays
  <1> QED BY <1>1, <1>2, <1>3

LEMMA FirstOrderInv == BusInit => OrderInv
  <1> SUFFICES ASSUME BusInit, NEW s \in Subscribers PROVE Ordered(s)
    BY FirstLockInv DEF OrderInv
  <1>1. AddressedTo(s) = <<>>
    <2>1. Numbers(0) \in Seq(Nat) /\ Len(Numbers(0)) = 0
      BY DEF Numbers
    <2> DEFINE S == {m \in DOMAIN log : s \in log[m]}
    <2>2. AddressedTo(s) = Only(Numbers(0), S)
      BY DEF BusInit, AddressedTo
    <2> HIDE DEF S
    <2>3. TakesHits(Nat, Numbers(0), S)
      BY <2>1, OnlyTakesHits
    <2>4. Len(AddressedTo(s)) \in Nat /\ Len(AddressedTo(s)) <= 0
          /\ AddressedTo(s) \in Seq(Nat)
      BY <2>1, <2>2, <2>3 DEF TakesHits
    <2> QED BY <2>4, EmptySeq
  <1>2. Undelivered(s) = {}
    BY DEF BusInit, Undelivered, Range
  <1>3. Received(s) = <<>> \o <<>> \o <<>> /\ Pending(s) = <<>>
    BY <1>2 DEF BusInit, Received, Current, Pending
  <1>4. <<>> \o <<>> = <<>>
    <2>1. <<>> \in Seq(Nat)
      OBVIOUS
    <2> QED BY <2>1, ConcatEmptySeq
  <1> QED BY <1>1, <1>3, <1>4 DEF Ordered

LEMMA OrderStep == OrderInv /\ [BusNext]_busVars => OrderInv'
  <1> SUFFICES ASSUME OrderInv, [BusNext]_busVars PROVE OrderInv'
    OBVIOUS
  <1>1. LockInv /\ LockInv'
    BY LockStep DEF OrderInv
  <1>2. ASSUME NEW s \in Subscribers, closing'[s] # "done" PROVE Ordered(s)'
    <2>1. closing[s] # "done" => Ordered(s)
      BY DEF OrderInv
    <2>2. closing[s] # "done"
      <3>1. closing \in [Subscribers -> {"no", "lock", "cancel", "done"}]
        BY <1>1 DEF LockInv, BusTypeOK
      <3>2. ASSUME NEW t \in Subscribers,
                   CallUnsubscribe(t) \/ RemoveSubscriber(t) \/ CancelConsumer(t)
            PROVE  closing[s] # "done"
        BY <1>2, <3>1, <3>2 DEF CallUnsubscribe, RemoveSubscriber, CancelConsumer
      <3>3. \/ UNCHANGED closing
            \/ \E t \in Subscribers :
                 CallUnsubscribe(t) \/ RemoveSubscriber(t) \/ CancelConsumer(t)
        BY DEF BusNext, PublisherStep, ConsumerStep, CloseStep, CallPublish,
               EnterPublish, Put, LeavePublish, CallSubscribe, AddSubscriber,
               LookUp, Get, CallbackReturns, busVars
      <3> QED BY <1>2, <3>2, <3>3
    <2>3. KeepsOrder(s)
      <3>1. ASSUME NEW p \in Publishers, EnterPublish(p) \/ Put(p)
            PROVE  KeepsOrder(s)
        BY <1>1, <3>1, EnterPublishOrder, PutOrder
      <3>2. ASSUME NEW t \in Subscribers, Get(t) \/ CallbackReturns(t)
            PROVE  KeepsOrder(s)
        BY <1>1, <3>2, GetOrder, CallbackReturnsOrder
      <3>3. ASSUME \/ \E p \in Publishers : CallPublish(p) \/ LeavePublish(p)
                   \/ \E t \in Subscribers :
                        \/ CallSubscribe(t) \/ AddSubscriber(t) \/ LookUp(t)
                        \/ CallUnsubscribe(t) \/ RemoveSubscriber(t)
                        \/ CancelConsumer(t)
                   \/ UNCHANGED busVars
            PROVE  KeepsOrder(s)
        BY <1>1, <1>2, <3>3, QuietOrder
      <3>4. \/ \E p \in Publishers : EnterPublish(p) \/ Put(p)
            \/ \E t \in Subscribers : Get(t) \/ CallbackReturns(t)
            \/ \E p \in Publishers : CallPublish(p) \/ LeavePublish(p)
            \/ \E t \in Subscribers :
                 \/ CallSubscribe(t) \/ AddSubscriber(t) \/ LookUp(t)
                 \/ CallUnsubscribe(t) \/ RemoveSubscriber(t) \/ CancelConsumer(t)
            \/ UNCHANGED busVars
        BY DEF BusNext, PublisherStep, ConsumerStep, CloseStep
      <3> QED BY <3>1, <3>2, <3>3, <3>4
    <2> QED BY <2>1, <2>2, <2>3 DEF KeepsOrder
  <1> QED BY <1>1, <1>2 DEF OrderInv

(* Every subscriber gets exactly the messages published while it was       *)
(* subscribed, each once and in the order in which the publishers got the  *)
(* lock, with any number of publishers, subscribers and messages and any   *)
(* size of the queues (publish, _consumer, subscribe, unsubscribe).        *)
THEOREM PublishOrderKept == BusSpec => []InPublishOrder
  <1> QED BY OrderMeans, FirstOrderInv, OrderStep, PTL DEF BusSpec

-----------------------------------------------------------------------------
(* THE PROVIDER ROUTER                                                     *)
USE RouterAssumption, ConfigurationAssumption

(* Some route is the costliest: otherwise the sets of the routes that cost *)
(* more than a given one would get smaller without end.                    *)
LEMMA Costliest == \E r \in Routes : \A q \in Routes : CostOf(q) <= CostOf(r)
  <1> DEFINE Above(r) == {q \in Routes : CostOf(q) > CostOf(r)}
             Aboves == {Above(r) : r \in Routes}
  <1>1. IsWellFoundedOn(StrictSubsetOrdering(Routes), SUBSET Routes)
    BY FS_StrictSubsetOrderingWellFounded, FS_FiniteSubsetsOfFinite
  <1>2. Aboves \subseteq SUBSET Routes /\ Aboves # {}
    OBVIOUS
  <1>3. PICK A \in Aboves :
          \A B \in Aboves : <<B, A>> \notin StrictSubsetOrdering(Routes)
    BY <1>1, <1>2, WFMin
  <1>4. PICK r \in Routes : A = Above(r)
    OBVIOUS
  <1>5. ASSUME NEW q \in Routes PROVE CostOf(q) <= CostOf(r)
    <2>1. SUFFICES ASSUME CostOf(q) > CostOf(r) PROVE FALSE
      OBVIOUS
    <2>2. Above(q) \subseteq Above(r)
      BY <2>1
    <2>3. q \in Above(r) /\ q \notin Above(q)
      BY <2>1
    <2>4. Above(q) \in Aboves /\ Above(q) # Above(r)
      BY <2>3
    <2>5. <<Above(q), A>> \in StrictSubsetOrdering(Routes)
      BY <1>2, <1>4, <2>2, <2>4 DEF StrictSubsetOrdering
    <2> QED BY <1>3, <2>4, <2>5
  <1> QED BY <1>5

LEMMA MaxCostBounds ==
  MaxCost \in Nat /\ \A r \in Routes : CostOf(r) <= MaxCost
  <1>1. \E n \in {CostOf(r) : r \in Routes} : \A r \in Routes : CostOf(r) <= n
    BY Costliest
  <1>2. /\ MaxCost \in {CostOf(r) : r \in Routes}
        /\ \A r \in Routes : CostOf(r) <= MaxCost
    BY <1>1 DEF MaxCost
  <1> QED BY <1>2

(* A set of positions has a first one, for the sets of those before a      *)
(* position are finite.                                                    *)
LEMMA Smallest ==
  ASSUME NEW S \in SUBSET Nat, S # {}
  PROVE  \E i \in S : \A j \in S : i <= j
  <1> DEFINE Before(i) == {j \in S : j < i}
             Befores == {Before(i) : i \in S}
  <1>0. \A k \in S : k \in Nat
    OBVIOUS
  <1>1. ASSUME NEW i \in S PROVE Before(i) \in FiniteSubsetsOf(S)
    <2>1. IsFiniteSet(Before(i))
      <3>1. Before(i) \in SUBSET Nat /\ i \in Nat
        BY <1>0
      <3>2. \A j \in Before(i) : j <= i
        BY <1>0
      <3> HIDE DEF Before
      <3> QED BY <3>1, <3>2, FS_BoundedSetOfNaturals
    <2> QED BY <2>1 DEF FiniteSubsetsOf
  <1>2. IsWellFoundedOn(StrictSubsetOrdering(S), FiniteSubsetsOf(S))
    BY FS_StrictSubsetOrderingWellFounded
  <1>3. Befores \subseteq FiniteSubsetsOf(S) /\ Befores # {}
    <2>1. ASSUME NEW C \in Befores PROVE C \in FiniteSubsetsOf(S)
      <3>1. PICK i \in S : C = Before(i)
        OBVIOUS
      <3> HIDE DEF Before
      <3> QED BY <1>1, <3>1
    <2>2. Befores # {}
      <3>1. PICK i \in S : TRUE
        OBVIOUS
      <3> HIDE DEF Before
      <3> QED BY <3>1
    <2> QED BY <2>1, <2>2
  <1>4. PICK B \in Befores :
          \A C \in Befores : <<C, B>> \notin StrictSubsetOrdering(S)
    BY <1>2, <1>3, WFMin
  <1>5. PICK i \in S : B = Before(i)
    OBVIOUS
  <1>6. \A j \in S : i <= j
    <2>1. SUFFICES ASSUME NEW j \in S, j < i PROVE FALSE
      OBVIOUS
    <2>2. Before(j) \subseteq Before(i)
      <3>1. ASSUME NEW k \in S, k < j PROVE k < i
        <4>1. i \in Nat /\ j \in Nat /\ k \in Nat
          BY <1>0
        <4> QED BY <2>1, <3>1, <4>1
      <3> QED BY <3>1
    <2>3. j \in Before(i) /\ j \notin Before(j)
      BY <1>0, <2>1
    <2>4. Before(j) \in Befores /\ Before(j) # Before(i)
      BY <2>3
    <2>5. <<Before(j), B>> \in StrictSubsetOrdering(S)
      BY <1>5, <2>2, <2>4 DEF StrictSubsetOrdering
    <2> QED BY <1>4, <2>4, <2>5
  <1> HIDE DEF Before, Befores
  <1> QED BY <1>6

(* Where a route hands a call on is a route again, or nothing. *)
LEMMA FallbackIsRoute ==
  ASSUME NEW r \in Routes
  PROVE  GetFallbackRoute(r) \in Routes \cup {NoRoute}
  <1> DEFINE known == {i \in DOMAIN FallbacksOf(r) : FallbacksOf(r)[i] \in Routes}
  <1>1. CASE known = {}
    BY <1>1 DEF GetFallbackRoute
  <1>2. CASE known # {}
    <2>1. known \in SUBSET Nat
      OBVIOUS
    <2>2. \E i \in known : \A j \in known : i <= j
      BY <1>2, <2>1, Smallest
    <2>3. (CHOOSE i \in known : \A j \in known : i <= j) \in known
      BY <2>2
    <2> QED BY <1>2, <2>3 DEF GetFallbackRoute
  <1> QED BY <1>1, <1>2

-----------------------------------------------------------------------------
(* A call as far as its spending goes: it runs or not, and what answers it *)
(* is a route.                                                             *)
Fields == {"pc", "start", "route", "left", "fallback", "tried", "answer"}
WellFormed(x) ==
  /\ DOMAIN x = Fields
  /\ x.pc \in {"idle", "route", "call"}
  /\ x.route \in Routes \cup {NoRoute}
  /\ x.pc = "call" => x.route \in Routes

RouterInv ==
  /\ DOMAIN caller = Callers
  /\ caller = [c \in Callers |-> caller[c]]
  /\ \A c \in Callers : WellFormed(caller[c])
  /\ spent \in Nat
  /\ SpendBound

RunningNow == {c \in Callers : Running(c)}

(* What the budget leaves to a number of running calls. *)
Within(total, running) ==
  Budget > 0 => total + running * MaxCost
                  <= Budget + Cardinality(Callers) * MaxCost

LEMMA RunningCount ==
  ASSUME NEW R \in SUBSET Callers
  PROVE  /\ IsFiniteSet(R) /\ Cardinality(R) \in Nat
         /\ Cardinality(Callers) \in Nat
         /\ Cardinality(R) <= Cardinality(Callers)
  BY FS_Subset, FS_CardinalityType

LEMMA LessTimes ==
  ASSUME NEW m \in Nat, NEW n \in Nat, NEW k \in Nat, m <= n
  PROVE  m * k <= n * k
  OBVIOUS

LEMMA OneTimesLess ==
  ASSUME NEW n \in Nat, n > 0, NEW k \in Nat
  PROVE  (n - 1) * k + k = n * k
  OBVIOUS

(* A call that begins finds the budget unspent, and there are no more      *)
(* calls than callers.                                                     *)
LEMMA BeginningWithin ==
  ASSUME NEW R \in SUBSET Callers, NEW total \in Nat,
         Budget > 0 => total <= Budget
  PROVE  Within(total, Cardinality(R))
  <1>1. Cardinality(R) * MaxCost <= Cardinality(Callers) * MaxCost
    BY RunningCount, LessTimes, MaxCostBounds
  <1>2. /\ Cardinality(R) * MaxCost \in Nat
        /\ Cardinality(Callers) * MaxCost \in Nat
    BY RunningCount, MaxCostBounds
  <1> DEFINE a == Cardinality(R) * MaxCost
             b == Cardinality(Callers) * MaxCost
  <1>3. a \in Nat /\ b \in Nat /\ a <= b
    BY <1>1, <1>2
  <1> HIDE DEF a, b
  <1>4. Budget > 0 => total + a <= Budget + b
    BY <1>3
  <1> QED BY <1>4 DEF Within, a, b

(* A call that ends has spent at most what was left to it. *)
LEMMA EndingWithin ==
  ASSUME NEW R \in SUBSET Callers, NEW c \in R, NEW total \in Nat,
         NEW cost \in Nat, cost <= MaxCost, Within(total, Cardinality(R))
  PROVE  Within(total + cost, Cardinality(R \ {c}))
  <1>1. /\ Cardinality(R \ {c}) = Cardinality(R) - 1
        /\ Cardinality(R \ {c}) \in Nat /\ Cardinality(R) \in Nat
    BY RunningCount, FS_RemoveElement
  <1>2. (Cardinality(R) - 1) * MaxCost + MaxCost = Cardinality(R) * MaxCost
    BY <1>1, OneTimesLess, MaxCostBounds
  <1> DEFINE a == Cardinality(R) * MaxCost
             b == Cardinality(R \ {c}) * MaxCost
             d == Cardinality(Callers) * MaxCost
  <1>3. a \in Nat /\ b \in Nat /\ d \in Nat /\ b + MaxCost = a
    BY <1>1, <1>2, RunningCount, MaxCostBounds
  <1>4. Budget > 0 => total + a <= Budget + d
    BY DEF Within
  <1> HIDE DEF a, b, d
  <1>5. Budget > 0 => total + cost + b <= Budget + d
    BY <1>3, <1>4, MaxCostBounds
  <1> QED BY <1>5 DEF Within, a, b, d

-----------------------------------------------------------------------------
LEMMA InitInv == Init => RouterInv
  <1> SUFFICES ASSUME Init PROVE RouterInv
    OBVIOUS
  <1>1. \A c \in Callers : WellFormed(caller[c]) /\ ~Running(c)
    BY DEF Init, WellFormed, Fields, Running
  <1>2. SpendBound
    <2>1. Within(spent, Cardinality({}))
      BY BeginningWithin DEF Init
    <2>2. {c \in Callers : Running(c)} = {}
      BY <1>1
    <2> QED BY <2>1, <2>2 DEF SpendBound, Within
  <1> QED BY <1>1, <1>2 DEF Init, RouterInv

(* A step of one call moves it in or out of the running ones. *)
LEMMA RunningChanges ==
  ASSUME RouterInv, NEW c \in Callers, NEW x,
         caller' = [caller EXCEPT ![c] = x]
  PROVE  RunningNow' = IF x.pc = "idle" THEN RunningNow \ {c}
                                        ELSE RunningNow \cup {c}
  BY DEF RouterInv, RunningNow, Running

LEMMA OneCallMoves ==
  ASSUME RouterInv, NEW c \in Callers, NEW x, WellFormed(x),
         caller' = [caller EXCEPT ![c] = x], spent' \in Nat,
         Within(spent', Cardinality(RunningNow'))
  PROVE  RouterInv'
  <1>1. SpendBound'
    BY DEF SpendBound, Within, RunningNow, MaxCost
  <1>2. \A b \in Callers : WellFormed(caller'[b])
    BY DEF RouterInv
  <1>3. /\ DOMAIN caller' = Callers
        /\ caller' = [b \in Callers |-> caller'[b]]
    BY DEF RouterInv
  <1>4. \A b \in Callers : WellFormed(caller[b])'
    BY <1>2 DEF WellFormed
  <1> QED BY <1>1, <1>3, <1>4 DEF RouterInv

(* A call that goes on does not spend. *)
LEMMA GoesOn ==
  ASSUME RouterInv, NEW c \in Callers, NEW x, WellFormed(x),
         caller' = [caller EXCEPT ![c] = x], spent' = spent,
         Running(c), x.pc # "idle"
  PROVE  RouterInv'
  <1>1. RunningNow' = RunningNow
    BY RunningChanges DEF RunningNow
  <1>2. Within(spent, Cardinality(RunningNow))
    BY DEF RouterInv, SpendBound, Within, RunningNow
  <1>3. spent' \in Nat /\ Within(spent', Cardinality(RunningNow'))
    BY <1>1, <1>2 DEF RouterInv
  <1> QED BY <1>3, OneCallMoves

(* A call that ends has spent no more than the costliest route takes. *)
LEMMA Ends ==
  ASSUME RouterInv, NEW c \in Callers, NEW x, WellFormed(x),
         NEW cost \in Nat, cost <= MaxCost,
         caller' = [caller EXCEPT ![c] = x], spent' = spent + cost,
         Running(c), x.pc = "idle"
  PROVE  RouterInv'
  <1>1. RunningNow' = RunningNow \ {c}
    BY RunningChanges
  <1>2. Within(spent, Cardinality(RunningNow))
    BY DEF RouterInv, SpendBound, Within, RunningNow
  <1>3. RunningNow \in SUBSET Callers /\ c \in RunningNow
    BY DEF RunningNow
  <1>4. spent \in Nat
    BY DEF RouterInv
  <1>5. Within(spent + cost, Cardinality(RunningNow \ {c}))
    BY <1>2, <1>3, <1>4, EndingWithin
  <1>6. spent' \in Nat /\ Within(spent', Cardinality(RunningNow'))
    BY <1>1, <1>4, <1>5
  <1> QED BY <1>6, OneCallMoves

-----------------------------------------------------------------------------
LEMMA BeginInv ==
  ASSUME RouterInv, NEW c \in Callers, Begin(c)
  PROVE  RouterInv'
  <1>1. PICK r \in Routes : caller' = [caller EXCEPT ![c] =
          [pc |-> IF IsOverBudget THEN "idle" ELSE "route",
           start |-> r, route |-> r, left |-> <<>>, fallback |-> FALSE,
           tried |-> {},
           answer |-> IF IsOverBudget THEN "over budget" ELSE "none"]]
    BY DEF Begin
  <1> DEFINE x == [pc |-> IF IsOverBudget THEN "idle" ELSE "route",
                   start |-> r, route |-> r, left |-> <<>>, fallback |-> FALSE,
                   tried |-> {},
                   answer |-> IF IsOverBudget THEN "over budget" ELSE "none"]
  <1>2. WellFormed(x) /\ spent' = spent /\ spent \in Nat /\ ~Running(c)
    BY DEF WellFormed, Fields, Begin, Running, RouterInv
  <1>3. CASE IsOverBudget
    <2>1. x.pc = "idle"
      BY <1>3
    <2> HIDE DEF x
    <2>2. RunningNow' = RunningNow
      <3>1. caller' = [caller EXCEPT ![c] = x]
        BY <1>1 DEF x
      <3>2. RunningNow' = RunningNow \ {c}
        BY <2>1, <3>1, RunningChanges
      <3>3. c \notin RunningNow
        BY <1>2 DEF RunningNow
      <3> QED BY <3>2, <3>3
    <2>3. Within(spent', Cardinality(RunningNow'))
      BY <1>2, <2>2 DEF RouterInv, SpendBound, Within, RunningNow
    <2> QED BY <1>1, <1>2, <2>3, OneCallMoves DEF x
  <1>4. CASE ~IsOverBudget
    <2>1. Budget > 0 => spent <= Budget
      <3>1. spent \in Nat /\ Budget \in Nat
        BY <1>2
      <3>2. ~(Budget > 0 /\ spent > Budget)
        BY <1>4 DEF IsOverBudget
      <3> QED BY <3>1, <3>2
    <2>2. RunningNow' \in SUBSET Callers
      BY DEF RunningNow
    <2>3. Within(spent', Cardinality(RunningNow'))
      BY <1>2, <2>1, <2>2, BeginningWithin
    <2> HIDE DEF x
    <2> QED BY <1>1, <1>2, <2>3, OneCallMoves DEF x
  <1> QED BY <1>3, <1>4

LEMMA SkipRouteInv ==
  ASSUME RouterInv, NEW c \in Callers, SkipRoute(c)
  PROVE  RouterInv'
  <1> DEFINE x == [caller[c] EXCEPT !.route = GetFallbackRoute(caller[c].route),
                                    !.fallback = TRUE]
  <1>1. /\ WellFormed(caller[c]) /\ caller[c].pc = "route"
        /\ caller[c].route \in Routes /\ c \in DOMAIN caller
    BY DEF RouterInv, WellFormed, SkipRoute
  <1>2. WellFormed(x) /\ x.pc = "route"
    BY <1>1, FallbackIsRoute DEF WellFormed, Fields
  <1>3. caller' = [caller EXCEPT ![c] = x] /\ spent' = spent
    BY <1>1 DEF SkipRoute
  <1> HIDE DEF x
  <1> QED BY <1>1, <1>2, <1>3, GoesOn DEF Running

LEMMA EnterRouteInv ==
  ASSUME RouterInv, NEW c \in Callers, EnterRoute(c)
  PROVE  RouterInv'
  <1> DEFINE x == [caller[c] EXCEPT !.pc = "call",
                                    !.left = Rotated(caller[c].route)]
  <1>1. /\ WellFormed(caller[c]) /\ caller[c].pc = "route"
        /\ caller[c].route \in Routes /\ c \in DOMAIN caller
    BY DEF RouterInv, WellFormed, EnterRoute
  <1>2. WellFormed(x) /\ x.pc = "call"
    BY <1>1 DEF WellFormed, Fields
  <1>3. caller' = [caller EXCEPT ![c] = x] /\ spent' = spent
    BY <1>1 DEF EnterRoute
  <1> HIDE DEF x
  <1> QED BY <1>1, <1>2, <1>3, GoesOn DEF Running

LEMMA AnsweredInv ==
  ASSUME RouterInv, NEW c \in Callers, Answered(c)
  PROVE  RouterInv'
  <1> DEFINE x == [caller[c] EXCEPT !.pc = "idle", !.left = <<>>,
                                    !.answer = "content"]
  <1>1. /\ WellFormed(caller[c]) /\ caller[c].pc = "call"
        /\ caller[c].route \in Routes /\ c \in DOMAIN caller
    BY DEF RouterInv, WellFormed, Answered
  <1>2. WellFormed(x) /\ x.pc = "idle"
    BY <1>1 DEF WellFormed, Fields
  <1>3. /\ caller' = [caller EXCEPT ![c] = x]
        /\ spent' = spent + CostOf(caller[c].route)
    BY <1>1 DEF Answered
  <1>4. CostOf(caller[c].route) \in Nat /\ CostOf(caller[c].route) <= MaxCost
    BY <1>1, MaxCostBounds
  <1> HIDE DEF x
  <1> QED BY <1>1, <1>2, <1>3, <1>4, Ends DEF Running

LEMMA FailedInv ==
  ASSUME RouterInv, NEW c \in Callers, Failed(c)
  PROVE  RouterInv'
  <1> DEFINE r == caller[c].route
             x == AfterFailure(caller[c], r)
  <1>1. /\ WellFormed(caller[c]) /\ caller[c].pc = "call"
        /\ r \in Routes /\ c \in DOMAIN caller
    BY DEF RouterInv, WellFormed, Failed
  <1>2. WellFormed(x) /\ x.pc # "idle"
    <2>1. GetFallbackRoute(r) \in Routes \cup {NoRoute}
      BY <1>1, FallbackIsRoute
    <2> QED BY <1>1, <2>1 DEF WellFormed, Fields, AfterFailure
  <1>3. caller' = [caller EXCEPT ![c] = x] /\ spent' = spent
    BY <1>1 DEF Failed
  <1> HIDE DEF x
  <1> QED BY <1>1, <1>2, <1>3, GoesOn DEF Running

LEMMA GiveUpInv ==
  ASSUME RouterInv, NEW c \in Callers, GiveUp(c)
  PROVE  RouterInv'
  <1> DEFINE x == [caller[c] EXCEPT !.pc = "idle", !.answer = "failed",
                                    !.fallback = TRUE]
  <1>1. WellFormed(caller[c]) /\ caller[c].pc = "route" /\ c \in DOMAIN caller
    BY DEF RouterInv, GiveUp
  <1>2. WellFormed(x) /\ x.pc = "idle"
    BY <1>1 DEF WellFormed, Fields
  <1>3. caller' = [caller EXCEPT ![c] = x] /\ spent' = spent + 0
    <2>1. caller' = [caller EXCEPT ![c] = x] /\ spent' = spent
      BY <1>1 DEF GiveUp
    <2>2. spent \in Nat
      BY DEF RouterInv
    <2> QED BY <2>1, <2>2
  <1>4. 0 \in Nat /\ 0 <= MaxCost
    BY MaxCostBounds
  <1> HIDE DEF x
  <1> QED BY <1>1, <1>2, <1>3, <1>4, Ends DEF Running

LEMMA Unspent ==
  ASSUME RouterInv, UNCHANGED <<caller, spent>>
  PROVE  RouterInv'
  BY DEF RouterInv, WellFormed, SpendBound, Running, MaxCost

(* Every reachable state is within the budget and one call of the          *)
(* costliest route per caller, for any number of concurrent callers, any   *)
(* configuration of routes and any order of answers, failures and          *)
(* cooldowns (route_async reads the budget before it waits for a provider  *)
(* and spends after).                                                      *)
THEOREM SpendingBounded == Spec => []SpendBound
  <1>1. Init => RouterInv
    BY InitInv
  <1>2. RouterInv /\ [Next]_vars => RouterInv'
    <2> SUFFICES ASSUME RouterInv, [Next]_vars PROVE RouterInv'
      OBVIOUS
    <2>1. CASE UNCHANGED vars
      BY <2>1, Unspent DEF vars
    <2>2. CASE CooldownEnds
      BY <2>2, Unspent DEF CooldownEnds
    <2>3. ASSUME NEW c \in Callers, Begin(c) PROVE RouterInv'
      BY <2>3, BeginInv
    <2>4. ASSUME NEW c \in Callers, CallStep(c) PROVE RouterInv'
      BY <2>4, SkipRouteInv, EnterRouteInv, AnsweredInv, FailedInv, GiveUpInv
         DEF CallStep
    <2>5. Next => CooldownEnds \/ \E c \in Callers : Begin(c) \/ CallStep(c)
      BY DEF Next
    <2> QED BY <2>1, <2>2, <2>3, <2>4, <2>5
  <1>3. RouterInv => SpendBound
    BY DEF RouterInv
  <1> QED BY <1>1, <1>2, <1>3, PTL DEF Spec

-----------------------------------------------------------------------------
(* What a call is offered of a route: some of its models, and every one    *)
(* that does not cool down.                                                *)
LEMMA RouteTypes ==
  ASSUME NEW r \in Routes
  PROVE  /\ PoolOf(r) \in Seq(Models) /\ PoolOf(r) # <<>>
         /\ Len(PoolOf(r)) \in Nat \ {0}
         /\ ProviderOf(r) \in Providers
  <1>1. PoolOf(r) \in Seq(Models) /\ PoolOf(r) # <<>> /\ ProviderOf(r) \in Providers
    OBVIOUS
  <1>2. \A s \in Seq(Models) : s # <<>> => Len(s) \in Nat \ {0}
    OBVIOUS
  <1> QED BY ONLY <1>1, <1>2

LEMMA CandidatesCover ==
  ASSUME NEW r \in Routes
  PROVE  /\ Candidates(r) \in Seq(Models) /\ Candidates(r) # <<>>
         /\ Len(Candidates(r)) \in 1 .. Len(PoolOf(r))
         /\ \A m \in Range(PoolOf(r)) :
              m \in Range(Candidates(r)) \/ <<ProviderOf(r), m>> \in cooling
  <1> DEFINE warm == {m \in Models : <<ProviderOf(r), m>> \notin cooling}
             pool == PoolOf(r)
  <1>1. /\ pool \in Seq(Models) /\ pool # <<>> /\ Len(pool) \in Nat \ {0}
    BY RouteTypes
  <1> HIDE DEF pool
  <1>2. TakesHits(Models, pool, warm) /\ Range(Only(pool, warm)) = Range(pool) \cap warm
    <2> HIDE DEF warm
    <2> QED BY <1>1, OnlyTakesHits, OnlyRange
  <1>3. /\ Only(pool, warm) \in Seq(Models)
        /\ Len(Only(pool, warm)) \in Nat /\ Len(Only(pool, warm)) <= Len(pool)
    BY <1>2 DEF TakesHits
  <1>4. Active(r) = Only(pool, warm)
    BY DEF Active, pool
  <1>5. Range(pool) \subseteq Models
    BY <1>1 DEF Range
  <1> DEFINE got == Only(pool, warm)
  <1>6. Candidates(r) = IF got # <<>> THEN got ELSE pool
    BY <1>4 DEF Candidates, pool
  <1>7. /\ got \in Seq(Models) /\ Len(got) \in Nat /\ Len(got) <= Len(pool)
        /\ Range(got) = Range(pool) \cap warm
    BY <1>2, <1>3
  <1>8. \A m \in Range(pool) : m \in warm \/ <<ProviderOf(r), m>> \in cooling
    BY <1>5
  <1> HIDE DEF got, warm
  <1>9. CASE got # <<>>
    <2>1. Len(got) # 0
      BY <1>7, <1>9
    <2>2. Len(got) \in 1 .. Len(pool)
      BY <1>1, <1>7, <2>1
    <2> QED BY <1>6, <1>7, <1>8, <1>9, <2>2 DEF pool
  <1>10. CASE got = <<>>
    <2>1. Len(pool) \in 1 .. Len(pool)
      BY <1>1
    <2> QED BY <1>1, <1>6, <1>10, <2>1 DEF pool
  <1> QED BY <1>9, <1>10

LEMMA TurnType ==
  ASSUME NEW n \in Nat \ {0}, NEW k \in Nat
  PROVE  k % n \in 0 .. n - 1
  OBVIOUS

(* A turned sequence has the same elements. *)
LEMMA TurnedRange ==
  ASSUME NEW V, NEW s \in Seq(V), NEW k \in 0 .. Len(s), s # <<>>
  PROVE  LET t == SubSeq(s, k + 1, Len(s)) \o SubSeq(s, 1, k)
         IN  t \in Seq(V) /\ t # <<>> /\ Range(t) = Range(s)
  <1> DEFINE n == Len(s)
             a == SubSeq(s, k + 1, n)
             b == SubSeq(s, 1, k)
             t == a \o b
  <1>1. n \in Nat \ {0} /\ k \in Nat /\ k <= n /\ DOMAIN s = 1 .. n
    OBVIOUS
  <1>2. /\ a \in Seq(V) /\ Len(a) = n - k
        /\ \A i \in 1 .. (n - k) : a[i] = s[i + k]
    <2>1. a = [i \in 1 .. n - (k + 1) + 1 |-> s[(k + 1) + i - 1]]
      OBVIOUS
    <2>2. n - (k + 1) + 1 = n - k /\ n - k \in Nat
      BY <1>1
    <2>3. \A i \in 1 .. n - k : (k + 1) + i - 1 = i + k /\ i + k \in 1 .. n
      BY <1>1
    <2> HIDE DEF a, n
    <2>4. a = [i \in 1 .. n - k |-> s[i + k]]
      BY <2>1, <2>2, <2>3
    <2>5. \A i \in 1 .. n - k : s[i + k] \in V
      BY <1>1, <2>3 DEF n
    <2> QED BY <2>2, <2>4, <2>5
  <1>3. /\ b \in Seq(V) /\ Len(b) = k /\ \A i \in 1 .. k : b[i] = s[i]
    BY <1>1
  <1> HIDE DEF a, b
  <1>4. /\ t \in Seq(V) /\ Len(t) = n /\ DOMAIN t = 1 .. n
        /\ \A i \in 1 .. n : t[i] = IF i <= n - k THEN a[i] ELSE b[i - (n - k)]
    <2>1. /\ t \in Seq(V) /\ Len(t) = Len(a) + Len(b)
          /\ \A i \in 1 .. Len(a) + Len(b) :
               t[i] = IF i <= Len(a) THEN a[i] ELSE b[i - Len(a)]
      BY <1>2, <1>3, ConcatProperties
    <2>2. Len(a) + Len(b) = n
      BY <1>1, <1>2, <1>3
    <2>3. \A i \in 1 .. n : t[i] = IF i <= n - k THEN a[i] ELSE b[i - (n - k)]
      BY <1>2, <2>1, <2>2
    <2>4. t \in Seq(V) /\ Len(t) = n
      BY <2>1, <2>2
    <2> HIDE DEF t, n
    <2> QED BY <2>3, <2>4
  <1> HIDE DEF t, n
  <1>5. ASSUME NEW i \in 1 .. n PROVE t[i] \in Range(s)
    <2>1. CASE i <= n - k
      <3>1. i + k \in 1 .. n /\ i \in 1 .. (n - k)
        BY <1>1, <2>1
      <3> QED BY <1>1, <1>2, <1>4, <2>1, <3>1 DEF Range
    <2>2. CASE ~(i <= n - k)
      <3>1. i - (n - k) \in 1 .. k /\ i - (n - k) \in 1 .. n
        BY <1>1, <2>2
      <3> QED BY <1>1, <1>3, <1>4, <2>2, <3>1 DEF Range
    <2> QED BY <2>1, <2>2
  <1>6. ASSUME NEW i \in 1 .. n PROVE s[i] \in Range(t)
    <2>1. CASE i > k
      <3>1. i - k \in 1 .. (n - k) /\ i - k \in 1 .. n /\ (i - k) + k = i
            /\ i - k <= n - k
        BY <1>1, <2>1
      <3> QED BY <1>1, <1>2, <1>4, <3>1 DEF Range
    <2>2. CASE i <= k
      <3>1. /\ i + (n - k) \in 1 .. n /\ ~(i + (n - k) <= n - k)
            /\ i + (n - k) - (n - k) = i /\ i \in 1 .. k
        BY <1>1, <2>2
      <3>2. PICK j \in 1 .. n : ~(j <= n - k) /\ j - (n - k) = i
        <4> DEFINE w == i + (n - k)
        <4>1. w \in 1 .. n /\ ~(w <= n - k) /\ w - (n - k) = i
          BY <1>1, <2>2
        <4> HIDE DEF w
        <4> QED BY <4>1
      <3>3. t[j] = s[i]
        BY <1>3, <1>4, <3>1, <3>2
      <3> QED BY <1>4, <3>3 DEF Range
    <2> QED BY <1>1, <2>1, <2>2
  <1>7. Range(t) = Range(s)
    BY <1>1, <1>4, <1>5, <1>6 DEF Range
  <1>8. t # <<>>
    BY <1>1, <1>4
  <1> QED BY <1>4, <1>7, <1>8 DEF t, a, b, n

LEMMA RotatedCovers ==
  ASSUME NEW r \in Routes, cursor[r] \in Nat
  PROVE  /\ Rotated(r) \in Seq(Models) /\ Rotated(r) # <<>>
         /\ Range(Rotated(r)) = Range(Candidates(r))
         /\ Advanced(r) \in Nat /\ Advanced(r) < Len(PoolOf(r))
  <1>1. /\ Candidates(r) \in Seq(Models) /\ Candidates(r) # <<>>
        /\ Len(Candidates(r)) \in Nat \ {0}
        /\ Len(Candidates(r)) <= Len(PoolOf(r)) /\ Len(PoolOf(r)) \in Nat
    <2>1. Len(PoolOf(r)) \in Nat
      BY RouteTypes
    <2>2. Len(Candidates(r)) \in 1 .. Len(PoolOf(r))
      BY CandidatesCover
    <2> QED BY <2>1, <2>2, CandidatesCover
  <1>2. Turn(r) \in 0 .. Len(Candidates(r)) - 1
    BY <1>1, TurnType DEF Turn
  <1>3. Advanced(r) \in 0 .. Len(Candidates(r)) - 1
    <2>1. Turn(r) + 1 \in Nat
      BY <1>1, <1>2
    <2> QED BY <1>1, <2>1, TurnType DEF Advanced
  <1>4. Turn(r) \in 0 .. Len(Candidates(r))
    BY <1>1, <1>2
  <1>5. Advanced(r) \in Nat /\ Advanced(r) < Len(PoolOf(r))
    BY <1>1, <1>3
  <1> QED BY <1>1, <1>4, <1>5, TurnedRange DEF Rotated

-----------------------------------------------------------------------------
CallType ==
  [pc : {"idle", "route", "call"}, start : Routes \cup {NoRoute},
   route : Routes \cup {NoRoute}, left : Seq(Models), fallback : BOOLEAN,
   tried : SUBSET (Routes \X Models), answer : Answers]

(* What a call still owes its chain: of the routes it has left behind all  *)
(* that it started with has been tried, and they lead to nothing but each  *)
(* other and the route it is at.                                           *)
Tried(x, r, m) == <<r, m>> \in x.tried \/ <<ProviderOf(r), m>> \in limited
Exhausted(x, r) ==
  ProviderOf(r) \notin Missing => \A m \in Range(PoolOf(r)) : Tried(x, r, m)

Behind(x, V) ==
  /\ x.start \in V \cup {x.route}
  /\ \A q \in V : /\ Exhausted(x, q)
                  /\ GetFallbackRoute(q) \in V \cup {x.route, NoRoute}

Underway(x) ==
  /\ x.start \in Routes /\ x.answer = "none"
  /\ \E V \in SUBSET Routes : Behind(x, V)
  /\ x.pc = "call" =>
       /\ x.route \in Routes
       /\ \A m \in Range(PoolOf(x.route)) :
            m \in Range(x.left) \/ Tried(x, x.route, m)

CallInv(x) ==
  /\ x \in CallType
  /\ x.pc = "call" => x.left # <<>>
  /\ x.pc # "idle" => Underway(x)
  /\ x.answer = "failed" => \A r \in Chain(x.start) : Exhausted(x, r)

ChainInv ==
  /\ DOMAIN caller = Callers
  /\ caller = [c \in Callers |-> caller[c]]
  /\ \A c \in Callers : CallInv(caller[c])
  /\ cursor \in [Routes -> Nat]
  /\ \A r \in Routes : cursor[r] < Len(PoolOf(r))
  /\ cooling \in SUBSET Pairs /\ cooling \subseteq limited
  /\ spent \in Nat /\ calls \in 0 .. MaxCalls

LEMMA InitChainInv == Init => ChainInv
  <1> SUFFICES ASSUME Init PROVE ChainInv
    OBVIOUS
  <1>1. \A c \in Callers : CallInv(caller[c])
    <2>1. \A c \in Callers : caller[c] \in CallType
      BY DEF Init, CallType, Answers
    <2> QED BY <2>1 DEF Init, CallInv
  <1>2. \A r \in Routes : 0 < Len(PoolOf(r))
    BY RouteTypes
  <1>3. DOMAIN caller = Callers /\ caller = [c \in Callers |-> caller[c]]
    BY DEF Init
  <1>4. cursor \in [Routes -> Nat] /\ \A r \in Routes : cursor[r] < Len(PoolOf(r))
    BY <1>2 DEF Init
  <1>5. /\ cooling \in SUBSET Pairs /\ cooling \subseteq limited
        /\ spent \in Nat /\ calls \in 0 .. MaxCalls
    BY DEF Init
  <1> QED BY <1>1, <1>3, <1>4, <1>5 DEF ChainInv

(* What one call has tried stays tried, whatever the others do. *)
LEMMA CallInvLasts ==
  ASSUME NEW x, CallInv(x), limited \subseteq limited'
  PROVE  CallInv(x)'
  <1>1. \A r, m : Tried(x, r, m) => Tried(x, r, m)'
    BY DEF Tried
  <1>2. \A r : Exhausted(x, r) => Exhausted(x, r)'
    BY <1>1 DEF Exhausted
  <1>3. \A V : Behind(x, V) => Behind(x, V)'
    BY <1>2 DEF Behind
  <1>4. Underway(x) => Underway(x)'
    BY <1>1, <1>3 DEF Underway
  <1> QED BY <1>2, <1>4 DEF CallInv

LEMMA OneCallSteps ==
  ASSUME ChainInv, NEW c \in Callers, NEW x,
         caller' = [caller EXCEPT ![c] = x], CallInv(x)',
         limited \subseteq limited'
  PROVE  /\ DOMAIN caller' = Callers
         /\ caller' = [b \in Callers |-> caller'[b]]
         /\ \A b \in Callers : CallInv(caller[b])'
  <1>1. /\ DOMAIN caller' = Callers
        /\ caller' = [b \in Callers |-> caller'[b]]
        /\ \A b \in Callers : caller'[b] = IF b = c THEN x ELSE caller[b]
    BY DEF ChainInv
  <1>2. ASSUME NEW b \in Callers, b # c PROVE CallInv(caller[b])'
    <2> DEFINE y == caller[b]
    <2>1. CallInv(y) /\ caller'[b] = y
      BY <1>1, <1>2 DEF ChainInv
    <2> QED BY <1>1, <1>2, <2>1, CallInvLasts
  <1> QED BY <1>1, <1>2

(* A route that is exhausted falls behind when the call goes on to its     *)
(* fallback.                                                               *)
LEMMA FallsBehind ==
  ASSUME NEW x, NEW y, NEW V \in SUBSET Routes, NEW r \in Routes,
         Behind(x, V), x.route = r, Exhausted(y, r),
         y.start = x.start, y.route = GetFallbackRoute(r),
         x.tried \subseteq y.tried
  PROVE  Behind(y, V \cup {r})
  <1>1. \A q \in V : Exhausted(y, q)
    BY DEF Behind, Exhausted, Tried
  <1> QED BY <1>1 DEF Behind

(* A call that has left everything behind has exhausted its chain. *)
LEMMA ChainIsBehind ==
  ASSUME NEW x, NEW V \in SUBSET Routes, Behind(x, V), x.route = NoRoute,
         x.start \in Routes
  PROVE  \A r \in Chain(x.start) : Exhausted(x, r)
  <1>1. x.start \in V
    BY DEF Behind
  <1>2. LeadsOn(V)
    BY DEF Behind, LeadsOn
  <1>3. Chain(x.start) \subseteq V
    BY <1>1, <1>2 DEF Chain
  <1> QED BY <1>3 DEF Behind

LEMMA BeginChain ==
  ASSUME ChainInv, NEW c \in Callers, Begin(c)
  PROVE  ChainInv'
  <1>1. PICK r \in Routes : caller' = [caller EXCEPT ![c] =
          [pc |-> IF IsOverBudget THEN "idle" ELSE "route",
           start |-> r, route |-> r, left |-> <<>>, fallback |-> FALSE,
           tried |-> {},
           answer |-> IF IsOverBudget THEN "over budget" ELSE "none"]]
    BY DEF Begin
  <1>2. PICK x : x =
          [pc |-> IF IsOverBudget THEN "idle" ELSE "route",
           start |-> r, route |-> r, left |-> <<>>, fallback |-> FALSE,
           tried |-> {},
           answer |-> IF IsOverBudget THEN "over budget" ELSE "none"]
    OBVIOUS
  <1>3. /\ x \in CallType /\ x.pc # "call" /\ x.answer # "failed"
        /\ x.start = r /\ x.route = r
        /\ x.pc # "idle" => x.answer = "none"
    <2>1. CASE IsOverBudget
      <3>1. x = [pc |-> "idle", start |-> r, route |-> r, left |-> <<>>,
                 fallback |-> FALSE, tried |-> {}, answer |-> "over budget"]
        BY <1>2, <2>1
      <3>2. x \in CallType
        <4>1. /\ "over budget" \in Answers /\ <<>> \in Seq(Models)
              /\ {} \in SUBSET (Routes \X Models)
          BY DEF Answers
        <4> QED BY <3>1, <4>1 DEF CallType
      <3> QED BY <3>1, <3>2
    <2>2. CASE ~IsOverBudget
      BY <1>2, <2>2 DEF CallType, Answers
    <2> QED BY <2>1, <2>2
  <1>4. Behind(x, {})
    BY <1>3 DEF Behind
  <1>5. x.pc # "idle" => Underway(x)
    BY <1>3, <1>4 DEF Underway
  <1>6. CallInv(x)
    BY <1>3, <1>5 DEF CallInv
  <1>7. limited \subseteq limited' /\ UNCHANGED <<cursor, cooling, spent, limited>>
        /\ calls' \in 0 .. MaxCalls
    <2>1. calls \in 0 .. MaxCalls /\ calls < MaxCalls /\ calls' = calls + 1
      BY DEF Begin, ChainInv
    <2>2. MaxCalls \in Nat
      OBVIOUS
    <2>3. calls' \in 0 .. MaxCalls
      BY ONLY <2>1, <2>2
    <2> QED BY <2>3 DEF Begin
  <1>8. CallInv(x)'
    BY <1>6, <1>7, CallInvLasts
  <1>9. caller' = [caller EXCEPT ![c] = x]
    BY <1>1, <1>2
  <1> QED BY <1>7, <1>8, <1>9, OneCallSteps DEF ChainInv

LEMMA SkipRouteChain ==
  ASSUME ChainInv, NEW c \in Callers, SkipRoute(c)
  PROVE  ChainInv'
  <1>1. PICK x : x = caller[c]
    OBVIOUS
  <1>2. PICK r : r = x.route
    OBVIOUS
  <1>3. PICK y : y = [x EXCEPT !.route = GetFallbackRoute(r), !.fallback = TRUE]
    OBVIOUS
  <1>4. /\ CallInv(x) /\ x.pc = "route" /\ r \in Routes
        /\ ProviderOf(r) \in Missing /\ x \in CallType
    BY <1>1, <1>2 DEF ChainInv, SkipRoute, CallInv, CallType
  <1>5. /\ y \in CallType /\ y.pc = "route" /\ y.start = x.start
        /\ y.answer = x.answer /\ y.route = GetFallbackRoute(r)
        /\ y.tried = x.tried
    BY <1>3, <1>4, FallbackIsRoute DEF CallType
  <1>6. Underway(x)
    BY <1>4 DEF CallInv
  <1>7. PICK V \in SUBSET Routes : Behind(x, V)
    BY <1>6 DEF Underway
  <1>8. Exhausted(y, r)
    BY <1>4 DEF Exhausted
  <1>9. Behind(y, V \cup {r})
    BY <1>2, <1>4, <1>5, <1>7, <1>8, FallsBehind
  <1>10. Underway(y)
    BY <1>4, <1>5, <1>6, <1>9 DEF Underway
  <1>11. CallInv(y)
    BY <1>5, <1>6, <1>10 DEF CallInv, Underway
  <1>12. limited \subseteq limited' /\ UNCHANGED <<cursor, cooling, spent, calls, limited>>
    BY DEF SkipRoute
  <1>13. CallInv(y)'
    BY <1>11, <1>12, CallInvLasts
  <1>14. caller' = [caller EXCEPT ![c] = y]
    BY <1>1, <1>2, <1>3 DEF SkipRoute, ChainInv
  <1> QED BY <1>12, <1>13, <1>14, OneCallSteps DEF ChainInv

LEMMA EnterRouteChain ==
  ASSUME ChainInv, NEW c \in Callers, EnterRoute(c)
  PROVE  ChainInv'
  <1>1. PICK x : x = caller[c]
    OBVIOUS
  <1>2. PICK r : r = x.route
    OBVIOUS
  <1>3. PICK y : y = [x EXCEPT !.pc = "call", !.left = Rotated(r)]
    OBVIOUS
  <1>4. /\ CallInv(x) /\ x.pc = "route" /\ r \in Routes /\ x \in CallType
        /\ cursor[r] \in Nat /\ cooling \subseteq limited
    BY <1>1, <1>2 DEF ChainInv, EnterRoute, CallInv, CallType
  <1>5. /\ Rotated(r) \in Seq(Models) /\ Rotated(r) # <<>>
        /\ Range(Rotated(r)) = Range(Candidates(r))
        /\ Advanced(r) \in Nat /\ Advanced(r) < Len(PoolOf(r))
    BY <1>4, RotatedCovers
  <1>6. /\ y \in CallType /\ y.pc = "call" /\ y.start = x.start /\ y.route = r
        /\ y.answer = x.answer /\ y.tried = x.tried /\ y.left = Rotated(r)
    BY <1>2, <1>3, <1>4, <1>5 DEF CallType
  <1>7. Underway(x)
    BY <1>4 DEF CallInv
  <1>8. PICK V \in SUBSET Routes : Behind(x, V)
    BY <1>7 DEF Underway
  <1>9. Behind(y, V)
    BY <1>2, <1>6, <1>8 DEF Behind, Exhausted, Tried
  <1>10. ASSUME NEW m \in Range(PoolOf(r))
         PROVE  m \in Range(y.left) \/ Tried(y, r, m)
    BY <1>4, <1>5, <1>6, CandidatesCover DEF Tried
  <1>11. Underway(y)
    BY <1>4, <1>6, <1>7, <1>9, <1>10 DEF Underway
  <1>12. CallInv(y)
    BY <1>5, <1>6, <1>7, <1>11 DEF CallInv, Underway
  <1>13. /\ limited \subseteq limited'
         /\ UNCHANGED <<cooling, spent, calls, limited>>
         /\ cursor' = [cursor EXCEPT ![r] = Advanced(r)]
    BY <1>1, <1>2 DEF EnterRoute
  <1>14. /\ cursor' \in [Routes -> Nat]
         /\ \A q \in Routes : cursor'[q] < Len(PoolOf(q))
    BY <1>4, <1>5, <1>13 DEF ChainInv
  <1>15. CallInv(y)'
    BY <1>12, <1>13, CallInvLasts
  <1>16. caller' = [caller EXCEPT ![c] = y]
    BY <1>1, <1>2, <1>3 DEF EnterRoute, ChainInv
  <1> QED BY <1>13, <1>14, <1>15, <1>16, OneCallSteps DEF ChainInv

LEMMA AnsweredChain ==
  ASSUME ChainInv, NEW c \in Callers, Answered(c)
  PROVE  ChainInv'
  <1>1. PICK x : x = caller[c]
    OBVIOUS
  <1>2. PICK y : y = [x EXCEPT !.pc = "idle", !.left = <<>>, !.answer = "content"]
    OBVIOUS
  <1>3. CallInv(x) /\ x \in CallType /\ x.pc = "call"
    BY <1>1 DEF ChainInv, Answered, CallInv
  <1>4. y \in CallType /\ y.pc = "idle" /\ y.answer = "content"
    <2>1. "content" \in Answers /\ <<>> \in Seq(Models)
      BY DEF Answers
    <2> QED BY <1>2, <1>3, <2>1 DEF CallType
  <1>5. CallInv(y)
    BY <1>4 DEF CallInv
  <1>6. /\ limited \subseteq limited' /\ UNCHANGED <<cursor, cooling, calls, limited>>
        /\ spent' = spent + CostOf(x.route) /\ x.route \in Routes
    BY <1>1, <1>3 DEF Answered, CallInv, Underway
  <1>7. spent' \in Nat
    <2>1. CostOf(x.route) \in Nat /\ spent \in Nat
      BY <1>6 DEF ChainInv
    <2> QED BY <1>6, <2>1
  <1>8. CallInv(y)'
    BY <1>5, <1>6, CallInvLasts
  <1>9. caller' = [caller EXCEPT ![c] = y]
    BY <1>1, <1>2 DEF Answered, ChainInv
  <1> QED BY <1>6, <1>7, <1>8, <1>9, OneCallSteps DEF ChainInv

LEMMA GiveUpChain ==
  ASSUME ChainInv, NEW c \in Callers, GiveUp(c)
  PROVE  ChainInv'
  <1>1. PICK x : x = caller[c]
    OBVIOUS
  <1>2. PICK y : y = [x EXCEPT !.pc = "idle", !.answer = "failed", !.fallback = TRUE]
    OBVIOUS
  <1>3. CallInv(x) /\ x \in CallType /\ x.pc = "route" /\ x.route = NoRoute
    BY <1>1 DEF ChainInv, GiveUp, CallInv
  <1>4. /\ y \in CallType /\ y.pc = "idle" /\ y.start = x.start
        /\ y.tried = x.tried
    <2>1. "failed" \in Answers /\ "idle" \in {"idle", "route", "call"}
      BY DEF Answers
    <2> QED BY <1>2, <1>3, <2>1 DEF CallType
  <1>5. Underway(x)
    BY <1>3 DEF CallInv
  <1>6. PICK V \in SUBSET Routes : Behind(x, V)
    BY <1>5 DEF Underway
  <1>7. \A r \in Chain(x.start) : Exhausted(x, r)
    BY <1>3, <1>5, <1>6, ChainIsBehind DEF Underway
  <1>8. \A r \in Chain(y.start) : Exhausted(y, r)
    BY <1>4, <1>7 DEF Exhausted, Tried
  <1>9. CallInv(y)
    BY <1>4, <1>8 DEF CallInv
  <1>10. limited \subseteq limited' /\ UNCHANGED <<cursor, cooling, spent, calls, limited>>
    BY DEF GiveUp
  <1>11. CallInv(y)'
    BY <1>9, <1>10, CallInvLasts
  <1>12. caller' = [caller EXCEPT ![c] = y]
    BY <1>1, <1>2 DEF GiveUp, ChainInv
  <1> QED BY <1>10, <1>11, <1>12, OneCallSteps DEF ChainInv

(* The first of what is left has been tried and failed, or is put on       *)
(* cooldown; with the last one the route is exhausted.                     *)
LEMMA FailedChain ==
  ASSUME ChainInv, NEW c \in Callers, Failed(c)
  PROVE  ChainInv'
  <1>1. PICK x : x = caller[c]
    OBVIOUS
  <1>2. PICK r : r = x.route
    OBVIOUS
  <1>3. PICK y : y = AfterFailure(x, r)
    OBVIOUS
  <1>4. PICK h : h = Head(x.left)
    OBVIOUS
  <1>5. /\ CallInv(x) /\ x.pc = "call" /\ x \in CallType /\ x.left # <<>>
        /\ Underway(x)
    BY <1>1 DEF ChainInv, Failed, CallInv
  <1>6. /\ r \in Routes /\ x.start \in Routes /\ x.answer = "none"
        /\ \A m \in Range(PoolOf(r)) : m \in Range(x.left) \/ Tried(x, r, m)
    BY <1>2, <1>5 DEF Underway
  <1>7. PICK V \in SUBSET Routes : Behind(x, V)
    BY <1>5 DEF Underway
  <1>8. /\ x.left \in Seq(Models) /\ h \in Models /\ Tail(x.left) \in Seq(Models)
        /\ Range(x.left) \subseteq {h} \cup Range(Tail(x.left))
        /\ Len(x.left) > 1 => Tail(x.left) # <<>>
        /\ ~(Len(x.left) > 1) => Range(x.left) \subseteq {h}
    <2>1. x.left \in Seq(Models)
      BY <1>5 DEF CallType
    <2>2. \A s \in Seq(Models) : s # <<>> =>
            /\ Head(s) \in Models /\ Tail(s) \in Seq(Models)
            /\ Range(s) \subseteq {Head(s)} \cup Range(Tail(s))
            /\ Len(s) > 1 => Tail(s) # <<>>
            /\ ~(Len(s) > 1) => Range(s) \subseteq {Head(s)}
      <3> SUFFICES ASSUME NEW s \in Seq(Models), s # <<>>
                   PROVE  /\ Head(s) \in Models /\ Tail(s) \in Seq(Models)
                          /\ Range(s) \subseteq {Head(s)} \cup Range(Tail(s))
                          /\ Len(s) > 1 => Tail(s) # <<>>
                          /\ ~(Len(s) > 1) => Range(s) \subseteq {Head(s)}
        OBVIOUS
      <3>1. /\ Len(s) \in Nat \ {0} /\ DOMAIN s = 1 .. Len(s)
            /\ Head(s) = s[1] /\ Head(s) \in Models
        OBVIOUS
      <3>2. /\ Tail(s) \in Seq(Models) /\ Len(Tail(s)) = Len(s) - 1
            /\ DOMAIN Tail(s) = 1 .. Len(s) - 1
            /\ \A i \in 1 .. Len(s) - 1 : Tail(s)[i] = s[i + 1]
        OBVIOUS
      <3>3. Len(s) > 1 => Tail(s) # <<>>
        BY <3>1, <3>2
      <3>4. ~(Len(s) > 1) => Range(s) \subseteq {Head(s)}
        BY <3>1 DEF Range
      <3>5. ASSUME NEW i \in 1 .. Len(s), i # 1
            PROVE  s[i] \in Range(Tail(s))
        <4>1. i - 1 \in 1 .. Len(s) - 1 /\ (i - 1) + 1 = i
          BY <3>1, <3>5
        <4>2. Tail(s)[i - 1] = s[i]
          BY <3>2, <4>1
        <4> QED BY <3>2, <4>1, <4>2 DEF Range
      <3>6. Range(s) \subseteq {Head(s)} \cup Range(Tail(s))
        BY <3>1, <3>5 DEF Range
      <3> QED BY <3>1, <3>2, <3>3, <3>4, <3>6
    <2> QED BY <1>4, <1>5, <2>1, <2>2
  <1>9. <<r, h>> \in Routes \X Models /\ GetFallbackRoute(r) \in Routes \cup {NoRoute}
    BY <1>6, <1>8, FallbackIsRoute
  <1>10. limited \subseteq limited' /\ UNCHANGED <<cursor, spent, calls>>
         /\ cooling' \in SUBSET Pairs /\ cooling' \subseteq limited'
    <2>1. <<ProviderOf(r), h>> \in Pairs
      BY <1>6, <1>8, RouteTypes DEF Pairs
    <2>2. PICK b \in BOOLEAN :
            /\ cooling' = IF b THEN cooling \cup {<<ProviderOf(r), h>>} ELSE cooling
            /\ limited' = IF b THEN limited \cup {<<ProviderOf(r), h>>} ELSE limited
      BY <1>1, <1>2, <1>4 DEF Failed
    <2>3. UNCHANGED <<cursor, spent, calls>>
      BY DEF Failed
    <2> QED BY <2>1, <2>2, <2>3 DEF ChainInv
  <1>11. CallInv(y)
    <2>1. CASE Len(x.left) > 1
      <3>1. y = [x EXCEPT !.tried = @ \cup {<<r, h>>}, !.left = Tail(@)]
        BY <1>3, <1>4, <2>1 DEF AfterFailure
      <3>2. /\ y \in CallType /\ y.pc = "call" /\ y.start = x.start
            /\ y.route = r /\ y.answer = x.answer /\ y.left = Tail(x.left)
            /\ y.tried = x.tried \cup {<<r, h>>}
        BY <1>2, <1>5, <1>8, <1>9, <3>1 DEF CallType
      <3>3. Behind(y, V)
        BY <1>2, <1>7, <3>2 DEF Behind, Exhausted, Tried
      <3>4. \A m \in Range(PoolOf(r)) : m \in Range(y.left) \/ Tried(y, r, m)
        BY <1>6, <1>8, <3>2 DEF Tried
      <3>5. Underway(y)
        BY <1>6, <3>2, <3>3, <3>4 DEF Underway
      <3> QED BY <1>6, <1>8, <2>1, <3>2, <3>5 DEF CallInv
    <2>2. CASE ~(Len(x.left) > 1)
      <3>1. y = [x EXCEPT !.tried = @ \cup {<<r, h>>}, !.left = Tail(@),
                          !.pc = "route", !.route = GetFallbackRoute(r),
                          !.fallback = TRUE]
        BY <1>3, <1>4, <2>2 DEF AfterFailure
      <3>2. /\ y \in CallType /\ y.pc = "route" /\ y.start = x.start
            /\ y.route = GetFallbackRoute(r) /\ y.answer = x.answer
            /\ y.tried = x.tried \cup {<<r, h>>}
        BY <1>5, <1>8, <1>9, <3>1 DEF CallType
      <3>3. \A m \in Range(PoolOf(r)) : Tried(y, r, m)
        BY <1>6, <1>8, <2>2, <3>2 DEF Tried
      <3>4. Exhausted(y, r)
        BY <3>3 DEF Exhausted
      <3>5. Behind(y, V \cup {r})
        BY <1>2, <1>6, <1>7, <3>2, <3>4, FallsBehind
      <3>6. Underway(y)
        BY <1>6, <3>2, <3>5 DEF Underway
      <3> QED BY <1>6, <3>2, <3>6 DEF CallInv
    <2> QED BY <2>1, <2>2
  <1>12. CallInv(y)'
    BY <1>10, <1>11, CallInvLasts
  <1>13. caller' = [caller EXCEPT ![c] = y]
    BY <1>1, <1>2, <1>3 DEF Failed, ChainInv
  <1> QED BY <1>10, <1>12, <1>13, OneCallSteps DEF ChainInv

LEMMA ChainStep == ChainInv /\ [Next]_vars => ChainInv'
  <1> SUFFICES ASSUME ChainInv, [Next]_vars PROVE ChainInv'
    OBVIOUS
  <1>1. ASSUME UNCHANGED <<caller, cursor, spent, calls, limited>>,
               cooling' \subseteq cooling
        PROVE  ChainInv'
    <2>1. \A c \in Callers : CallInv(caller[c])'
      <3> SUFFICES ASSUME NEW c \in Callers PROVE CallInv(caller[c])'
        OBVIOUS
      <3>1. PICK x : x = caller[c]
        OBVIOUS
      <3>2. CallInv(x) /\ limited \subseteq limited'
        BY <1>1, <3>1 DEF ChainInv
      <3>3. CallInv(x)'
        BY <3>2, CallInvLasts
      <3> QED BY <1>1, <3>1, <3>3
    <2> QED BY <1>1, <2>1 DEF ChainInv
  <1>2. CASE UNCHANGED vars
    BY <1>1, <1>2 DEF vars
  <1>3. CASE CooldownEnds
    BY <1>1, <1>3 DEF CooldownEnds
  <1>4. ASSUME NEW c \in Callers, Begin(c) \/ CallStep(c) PROVE ChainInv'
    BY <1>4, BeginChain, SkipRouteChain, EnterRouteChain, AnsweredChain,
       FailedChain, GiveUpChain DEF CallStep
  <1> QED BY <1>2, <1>3, <1>4 DEF Next

(* Every state of the router has its types: what a call has left to try    *)
(* are models, and no cursor leaves its pool.                              *)
THEOREM RouterTypeCorrect == Spec => []TypeOK
  <1>1. ChainInv => TypeOK
    BY DEF ChainInv, CallInv, CallType, TypeOK
  <1> QED BY <1>1, InitChainInv, ChainStep, PTL DEF Spec

(* A call fails only when every model of every route of its fallback chain *)
(* has been tried, or was on cooldown at some time: no rotation, shrinking *)
(* or growing candidate list and no overtaking call makes it skip one      *)
(* (route_async, _model_candidates, get_fallback_route).                   *)
THEOREM ChainsAreTried == Spec => []FailsOnlyAfterChain
  <1>1. ChainInv => FailsOnlyAfterChain
    BY DEF ChainInv, CallInv, Exhausted, Tried, FailsOnlyAfterChain
  <1> QED BY <1>1, InitChainInv, ChainStep, PTL DEF Spec
=============================================================================
