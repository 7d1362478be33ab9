----------------------- MODULE SnapshotPipelineProofs -----------------------
(***************************************************************************)
(* Proofs about SnapshotPipeline for any number of importers, tasks,       *)
(* projections, rows and failures and any clock: what the pointer tells,   *)
(* that a task copies into a generation nothing older than its watermark   *)
(* unless another refresh has crossed its own, and that it reclaims no job *)
(* that its refresh has not seen.                                          *)
(***************************************************************************)
EXTENDS SnapshotPipeline, FiniteSetTheorems, TLAPS

JobRow == [status : {"none", "committed", "pending"}, version : Versions,
           since : 0..MaxSec]
Row == [mark : Versions, version : Versions]
BuilderRow == [at : Stages, mark : Versions, facets : Versions,
               todo : SUBSET Rows, since : 0..MaxSec, mixed : BOOLEAN]
GenRow == [by : Schedulers \cup {Nobody}, mark : Versions,
           status : {"ready", "active"}]

(* Nothing is known of a projection or of a second that has not come.      *)
Known ==
  /\ \A i \in Importers : job[i].version <= news
  /\ \A b \in Builders : builder[b].since <= sec

(* A job marked before a task's refresh is one that the refresh has seen.  *)
SeenBefore ==
  \A b \in Schedulers, i \in Importers :
    job[i].status = "pending" /\ job[i].since < builder[b].since
      => job[i].version <= builder[b].mark

(* An active generation is still to be pointed at by the builder that has  *)
(* it, or has been let go with the pointer or with the flag.               *)
Pointing ==
  \A g \in DOMAIN gens : gens[g].status = "active" =>
    IF gens[g].by = Nobody THEN pointer = "active" \/ unpointed
    ELSE builder[gens[g].by].at = "point"

(* What a refresh has read is as new as its watermark; a row has nothing   *)
(* older than its own; and the rows that a task has written and not yet    *)
(* copied have the task's, unless another refresh has crossed its own.     *)
Writing == {"write", "reconcile", "copy"}
ReadsCurrent(b) ==
  /\ builder[b].at = "read" => builder[b].mark <= news
  /\ builder[b].todo # {} => builder[b].mark <= builder[b].facets
OwnRows(s) ==
  builder[s].at \in Writing =>
    /\ builder[s].at # "write" => builder[s].todo = {}
    /\ ~builder[s].mixed => \A r \in Rows \ builder[s].todo :
                               rows[r].mark = builder[s].mark
Current ==
  /\ \A b \in Builders : ReadsCurrent(b)
  /\ \A r \in Rows : rows[r].mark <= rows[r].version
  /\ \A s \in Schedulers : OwnRows(s)

IInv == TypeOK /\ Known /\ SeenBefore /\ Pointing /\ Current

-----------------------------------------------------------------------------
(* Filtered sequences: each element comes from a position that is a hit.   *)
LEMMA RankIsBelow ==
  ASSUME NEW n \in Nat, NEW I \in SUBSET (1 .. n)
  PROVE  /\ IsFiniteSet(I) /\ Cardinality(I) \in Nat /\ Cardinality(I) <= n
         /\ \A i \in I : Rank(I, i) \in 1 .. Cardinality(I)
         /\ \A i, j \in I : i < j => Rank(I, i) < Rank(I, j)
  <1>1. IsFiniteSet(1 .. n) /\ Cardinality(1 .. n) = n
    BY FS_Interval
  <1>2. IsFiniteSet(I) /\ Cardinality(I) \in Nat /\ Cardinality(I) <= n
    BY <1>1, FS_Subset, FS_CardinalityType
  <1> DEFINE Upto(i) == {j \in I : j <= i}
  <1>3. ASSUME NEW T \in SUBSET I
        PROVE  /\ IsFiniteSet(T) /\ Cardinality(T) \in Nat
               /\ Cardinality(T) <= Cardinality(I)
    BY <1>2, FS_Subset, FS_CardinalityType
  <1>4. ASSUME NEW i \in I
        PROVE  Rank(I, i) \in 1 .. Cardinality(I)
    <2>1. i \in Upto(i) /\ Upto(i) \in SUBSET I
      OBVIOUS
    <2>2. Cardinality(Upto(i)) # 0
      BY <1>3, <2>1, FS_EmptySet
    <2> HIDE DEF Upto
    <2>3. Cardinality(Upto(i)) \in 1 .. Cardinality(I)
      BY <1>2, <1>3, <2>1, <2>2
    <2> QED BY <2>3 DEF Rank, Upto
  <1>5. ASSUME NEW i \in I, NEW j \in I, i < j
        PROVE  Rank(I, i) < Rank(I, j)
    <2>1. /\ Upto(i) \in SUBSET Upto(j) /\ Upto(j) \in SUBSET I
          /\ j \in Upto(j) /\ j \notin Upto(i)
      <3>1. \A k \in I : k \in Nat
        OBVIOUS
      <3>2. ASSUME NEW k \in I, k <= i PROVE k <= j
        <4>1. k \in Nat /\ i \in Nat /\ j \in Nat
          BY <3>1
        <4> QED BY ONLY <1>5, <3>2, <4>1
      <3>3. j <= j /\ ~(j <= i)
        <4>1. i \in Nat /\ j \in Nat
          BY <3>1
        <4> QED BY ONLY <1>5, <4>1
      <3> QED BY <3>2, <3>3
    <2> HIDE DEF Upto
    <2>2. /\ IsFiniteSet(Upto(j))
          /\ Cardinality(Upto(i)) <= Cardinality(Upto(j))
          /\ Cardinality(Upto(i)) # Cardinality(Upto(j))
      BY <1>3, <2>1, FS_Subset
    <2>3. Cardinality(Upto(i)) \in Nat /\ Cardinality(Upto(j)) \in Nat
      BY <1>3, <2>1
    <2>4. Cardinality(Upto(i)) < Cardinality(Upto(j))
      BY <2>2, <2>3
    <2> QED BY <2>4 DEF Rank, Upto
  <1> QED BY <1>2, <1>4, <1>5

(* Every rank is that of one position. *)
LEMMA RankIsMet ==
  ASSUME NEW n \in Nat, NEW I \in SUBSET (1 .. n)
  PROVE  \A k \in 1 .. Cardinality(I) : \E i \in I : Rank(I, i) = k
  <1> DEFINE N == 1 .. Cardinality(I)
             f == [i \in I |-> Rank(I, i)]
  <1>1. f \in [I -> N] /\ \A i, j \in I : f[i] = f[j] => i = j
    <2>1. \A i \in I : Rank(I, i) \in N
      BY RankIsBelow
    <2>2. ASSUME NEW i \in I, NEW j \in I, Rank(I, i) = Rank(I, j) PROVE i = j
      <3>1. \A a, b \in I : a < b => Rank(I, a) < Rank(I, b)
        BY RankIsBelow
      <3>2. \A a \in I : Rank(I, a) \in Nat
        BY <2>1
      <3>3. i \in Nat /\ j \in Nat
        OBVIOUS
      <3> QED BY <2>2, <3>1, <3>2, <3>3
    <2> QED BY <2>1, <2>2
  <1>2. f \in Injection(I, N)
    BY <1>1 DEF Injection, IsInjective
  <1>3. Cardinality(I) \in Nat
    BY RankIsBelow
  <1>4. IsFiniteSet(N) /\ Cardinality(N) = Cardinality(I)
    BY <1>3, FS_Interval
  <1>5. f \in Surjection(I, N)
    <2> HIDE DEF f, N
    <2> QED BY <1>2, <1>4, FS_Injection
  <1> QED BY <1>5 DEF Surjection


Within(V, s, S) ==
  /\ Only(s, S) \in Seq(V)
  /\ \A k \in DOMAIN Only(s, S) :
       \E i \in DOMAIN s : s[i] \in S /\ Only(s, S)[k] = s[i]

LEMMA OnlyWithin ==
  ASSUME NEW V, NEW s \in Seq(V), NEW S
  PROVE  Within(V, s, S)
  <1> DEFINE I == {i \in DOMAIN s : s[i] \in S}
             n == Cardinality(I)
             P(k) == CHOOSE i \in I : Rank(I, i) = k
  <1>1. I \in SUBSET (1 .. Len(s)) /\ Len(s) \in Nat
    OBVIOUS
  <1>2. n \in Nat /\ \A k \in 1 .. n : \E i \in I : Rank(I, i) = k
    BY <1>1, RankIsBelow, RankIsMet
  <1>3. \A k \in 1 .. n : P(k) \in I
    BY <1>2
  <1>4. Only(s, S) = [k \in 1 .. n |-> s[P(k)]]
    BY DEF Only
  <1>5. \A i \in I : i \in DOMAIN s /\ s[i] \in S /\ s[i] \in V
    OBVIOUS
  <1> HIDE DEF I, n, P
  <1>6. Only(s, S) \in [1 .. n -> V]
    BY <1>3, <1>4, <1>5
  <1>7. Only(s, S) \in Seq(V) /\ DOMAIN Only(s, S) = 1 .. n
    BY <1>2, <1>6
  <1>8. \A k \in 1 .. n : Only(s, S)[k] = s[P(k)]
    BY <1>4
  <1> QED BY <1>3, <1>5, <1>7, <1>8 DEF Within

-----------------------------------------------------------------------------
USE BoundsAssumption, TasksAssumption, RowsAssumption

LEMMA Typed ==
  TypeOK <=>
    /\ news \in Versions /\ sec \in 0..MaxSec /\ troubles \in 0..MaxTroubles
    /\ job \in [Importers -> JobRow]
    /\ rows \in [Rows -> Row]
    /\ builder \in [Builders -> BuilderRow]
    /\ gens \in Seq(GenRow)
    /\ pointer \in {"none", "active", "older"} /\ unpointed \in BOOLEAN
  BY DEF TypeOK, JobRow, BuilderRow, GenRow, Row

LEMMA IdleType ==
  Idle \in BuilderRow /\ Idle.at = "away" /\ Idle.since = 0 /\ Idle.todo = {}
  BY DEF Idle, BuilderRow, Stages, Versions

(* What happens to the generations that are left when b goes. *)
LeftOf(gen, old, b) ==
  /\ gen.status = old.status
  /\ IF old.by = b THEN gen.by = Nobody /\ old.status = "active"
     ELSE gen.by = old.by

LEMMA AbandonedGens ==
  ASSUME TypeOK, NEW b \in Builders
  PROVE  /\ Abandoned(b) \in Seq(GenRow)
         /\ \A k \in DOMAIN Abandoned(b) : \E g \in DOMAIN gens :
              LeftOf(Abandoned(b)[k], gens[g], b)
  <1> DEFINE left == [g \in DOMAIN gens |->
                        IF g \in Active /\ gens[g].by = b
                        THEN [gens[g] EXCEPT !.by = Nobody] ELSE gens[g]]
             S == {gen \in Range(left) : gen.by # b}
  <1>1. gens \in Seq(GenRow)
    BY Typed
  <1>2. \A g \in DOMAIN gens : gens[g] \in GenRow /\ left[g] \in GenRow
    <2>1. \A g \in DOMAIN gens : gens[g] \in GenRow
      BY <1>1
    <2> QED BY <2>1 DEF GenRow
  <1>3. left \in Seq(GenRow) /\ DOMAIN left = DOMAIN gens
    <2>1. left \in [1 .. Len(gens) -> GenRow] /\ Len(gens) \in Nat
      BY <1>1, <1>2
    <2> HIDE DEF left
    <2>2. left \in Seq(GenRow)
      BY <2>1
    <2> QED BY <1>1, <2>1, <2>2
  <1>4. ASSUME NEW g \in DOMAIN gens, left[g].by # b
        PROVE  LeftOf(left[g], gens[g], b)
    <2>1. CASE g \in Active /\ gens[g].by = b
      BY <1>2, <2>1 DEF LeftOf, Active, GenRow
    <2>2. CASE ~(g \in Active /\ gens[g].by = b)
      BY <1>2, <1>4, <2>2 DEF LeftOf
    <2> QED BY <2>1, <2>2
  <1>5. Abandoned(b) = Only(left, S)
    BY DEF Abandoned
  <1>6. \A x \in S : x.by # b
    OBVIOUS
  <1> HIDE DEF left, S
  <1>7. Within(GenRow, left, S)
    BY <1>3, OnlyWithin
  <1> QED BY <1>3, <1>4, <1>5, <1>6, <1>7 DEF Within

(* An activation leaves no other generation active. *)
LEMMA ActivatedGens ==
  ASSUME TypeOK, NEW b \in Schedulers, Activate(b)
  PROVE  /\ gens' \in Seq(GenRow)
         /\ \A k \in DOMAIN gens' : gens'[k].status = "active" => gens'[k].by = b
  <1> DEFINE shown == [g \in DOMAIN gens |->
                         IF g \in Own(b) THEN [gens[g] EXCEPT !.status = "active"]
                         ELSE gens[g]]
             S == {gen \in Range(shown) : gen.status # "active" \/ gen.by = b}
  <1>1. gens \in Seq(GenRow)
    BY Typed
  <1>2. \A g \in DOMAIN gens :
          gens[g] \in GenRow /\ shown[g] \in GenRow
    <2>1. \A g \in DOMAIN gens : gens[g] \in GenRow
      BY <1>1
    <2> QED BY <2>1 DEF GenRow
  <1>3. shown \in Seq(GenRow) /\ DOMAIN shown = DOMAIN gens
    <2>1. shown \in [1 .. Len(gens) -> GenRow] /\ Len(gens) \in Nat
      BY <1>1, <1>2
    <2> HIDE DEF shown
    <2>2. shown \in Seq(GenRow)
      BY <2>1
    <2> QED BY <1>1, <2>1, <2>2
  <1>4. gens' = Only(shown, S)
    BY DEF Activate
  <1>5. \A x \in S : x.status = "active" => x.by = b
    OBVIOUS
  <1> HIDE DEF shown, S
  <1>6. Within(GenRow, shown, S)
    BY <1>3, OnlyWithin
  <1> QED BY <1>2, <1>3, <1>4, <1>5, <1>6 DEF Within

-----------------------------------------------------------------------------
LEMMA InitIInv == Init => IInv
  <1> SUFFICES ASSUME Init PROVE IInv
    OBVIOUS
  <1>1. TypeOK
    <2>1. builder \in [Builders -> BuilderRow]
      BY IdleType DEF Init
    <2>2. /\ news \in Versions /\ sec \in 0..MaxSec
          /\ troubles \in 0..MaxTroubles /\ gens \in Seq(GenRow)
          /\ rows \in [Rows -> Row]
          /\ job \in [Importers -> JobRow]
      BY DEF Init, Versions, JobRow, Row
    <2> QED BY <2>1, <2>2, Typed DEF Init
  <1>2. Known /\ SeenBefore
    BY IdleType DEF Init, Known, SeenBefore
  <1>3. Pointing
    BY DEF Init, Pointing
  <1>4. Current
    BY IdleType DEF Init, Current, ReadsCurrent, OwnRows, Writing, Builders
  <1> QED BY <1>1, <1>2, <1>3, <1>4 DEF IInv

(* What a step does to the builders: one of them goes on. *)
LEMMA GotoType ==
  ASSUME TypeOK, NEW b \in Builders, NEW at \in Stages, Goto(b, at)
  PROVE  /\ builder' \in [Builders -> BuilderRow]
         /\ \A c \in Builders : c # b => builder'[c] = builder[c]
         /\ builder'[b].at = at /\ builder'[b].mark = builder[b].mark
         /\ builder'[b].since = builder[b].since
         /\ builder'[b].todo = builder[b].todo
         /\ builder'[b].facets = builder[b].facets
  <1>1. builder \in [Builders -> BuilderRow]
    BY Typed
  <1> QED BY <1>1 DEF Goto, BuilderRow

LEMMA PutType ==
  ASSUME TypeOK, NEW b \in Builders, NEW x \in BuilderRow,
         builder' = [builder EXCEPT ![b] = x]
  PROVE  /\ builder' \in [Builders -> BuilderRow]
         /\ \A c \in Builders : c # b => builder'[c] = builder[c]
         /\ builder'[b] = x
  <1>1. builder \in [Builders -> BuilderRow]
    BY Typed
  <1> QED BY <1>1

LEMMA GoneType ==
  ASSUME TypeOK, NEW b \in Builders, Gone(b)
  PROVE  /\ builder' \in [Builders -> BuilderRow]
         /\ \A c \in Builders : c # b => builder'[c] = builder[c]
         /\ builder'[b] = Idle
  BY PutType, IdleType DEF Gone

(* A builder that waits, settles, builds or leaves is done with its reads, *)
(* and writes no more than it was about to.                                *)
LEMMA CurrentStays ==
  ASSUME TypeOK, Current, news' \in {news, news + 1}, UNCHANGED rows,
         NEW b \in Builders,
         builder'[b].at \notin Writing \cup {"read"},
         builder'[b].todo # {} => /\ builder[b].todo # {}
                                  /\ builder'[b].mark = builder[b].mark
                                  /\ builder'[b].facets = builder[b].facets,
         \A c \in Builders : c # b => builder'[c] = builder[c]
  PROVE  Current'
  <1>1. ASSUME NEW c \in Builders PROVE ReadsCurrent(c)'
    <2>1. news \in Nat /\ builder[c].mark \in Nat
      <3>1. news \in Versions /\ builder[c] \in BuilderRow
        BY Typed
      <3> QED BY <3>1 DEF BuilderRow, Versions
    <2> QED BY <2>1 DEF Current, ReadsCurrent
  <1>2. ASSUME NEW s \in Schedulers PROVE OwnRows(s)'
    <2>1. s \in Builders
      BY DEF Builders
    <2> QED BY <2>1 DEF Current, OwnRows
  <1> QED BY <1>1, <1>2 DEF Current

(* The steps that touch neither a generation nor the pointer. *)
LEMMA PointingStays ==
  ASSUME Pointing, UNCHANGED <<gens, pointer, unpointed>>, TypeOK,
         \A b \in Builders : builder[b].at = "point" => builder'[b].at = "point"
  PROVE  Pointing'
  <1>1. \A g \in DOMAIN gens : gens[g].by # Nobody => gens[g].by \in Builders
    <2>1. \A g \in DOMAIN gens : gens[g] \in GenRow
      BY Typed
    <2> QED BY <2>1 DEF GenRow, Builders
  <1> QED BY <1>1 DEF Pointing

(* The steps that touch no job, no clock and no refresh. *)
LEMMA KnowingStays ==
  ASSUME IInv, UNCHANGED <<news, sec, job>>,
         \A b \in Builders :
           \/ builder'[b].since = builder[b].since
              /\ builder'[b].mark = builder[b].mark
           \/ builder'[b].since = 0
  PROVE  Known' /\ SeenBefore'
  <1>1. /\ job \in [Importers -> JobRow] /\ builder \in [Builders -> BuilderRow]
        /\ sec \in 0..MaxSec
    BY Typed DEF IInv
  <1>2. Known'
    BY <1>1 DEF IInv, Known
  <1>3. \A i \in Importers : ~(job[i].since < 0)
    BY <1>1 DEF JobRow
  <1>4. SeenBefore'
    BY <1>3 DEF IInv, SeenBefore, Builders
  <1> QED BY <1>2, <1>4

LEMMA CommitIInv ==
  ASSUME IInv, NEW i \in Importers, Commit(i)
  PROVE  IInv'
  <1> DEFINE row == [status |-> "committed", version |-> news + 1, since |-> 0]
  <1>1. /\ news < MaxNews /\ news' = news + 1
        /\ job' = [job EXCEPT ![i] = row]
        /\ builder[i].at = "away" /\ Goto(i, "due") /\ i \in Builders
        /\ UNCHANGED <<sec, rows, gens, pointer, unpointed, troubles>>
    BY DEF Commit, Builders
  <1>2. /\ news \in Nat /\ news' \in Versions /\ job \in [Importers -> JobRow]
        /\ \A k \in Importers : job[k] \in JobRow
    BY <1>1, Typed DEF IInv, Versions
  <1>3. row \in JobRow
    BY <1>1, <1>2 DEF JobRow, Versions
  <1>4. /\ builder' \in [Builders -> BuilderRow]
        /\ \A d \in Builders : d # i => builder'[d] = builder[d]
        /\ builder'[i].at = "due" /\ builder'[i].mark = builder[i].mark
        /\ builder'[i].since = builder[i].since
        /\ builder'[i].todo = builder[i].todo
        /\ builder'[i].facets = builder[i].facets
    BY <1>1, GotoType DEF IInv, Stages
  <1>10. TypeOK'
    BY <1>1, <1>2, <1>3, <1>4 DEF IInv, TypeOK, JobRow, BuilderRow
  <1>5. /\ \A k \in Importers : k # i => job'[k] = job[k]
        /\ job'[i] = row
    BY <1>1, <1>2
  <1>6. Known'
    <2>1. \A k \in Importers : job[k].version \in Nat /\ job[k].version <= news
      BY <1>2 DEF IInv, Known, JobRow, Versions
    <2> HIDE DEF row
    <2>2. ASSUME NEW k \in Importers PROVE job'[k].version <= news'
      BY <1>1, <1>2, <1>5, <2>1 DEF row
    <2> QED BY <1>1, <1>4, <2>2 DEF IInv, Known
  <1>7. SeenBefore'
    BY <1>1, <1>4, <1>5 DEF IInv, SeenBefore, Builders
  <1>8. Pointing'
    BY <1>1, <1>4, PointingStays DEF IInv
  <1>9. Current'
    BY <1>1, <1>4, CurrentStays DEF IInv, Writing
  <1> QED BY <1>6, <1>7, <1>8, <1>9, <1>10 DEF IInv

LEMMA ComesAgainIInv ==
  ASSUME IInv, NEW i \in Importers, ComesAgain(i)
  PROVE  IInv'
  <1>1. /\ troubles < MaxTroubles /\ troubles' = troubles + 1
        /\ builder[i].at = "away" /\ Goto(i, "due") /\ i \in Builders
        /\ UNCHANGED <<news, sec, job, rows, gens, pointer, unpointed>>
    BY DEF ComesAgain, Builders
  <1>2. /\ builder' \in [Builders -> BuilderRow]
        /\ \A c \in Builders : c # i => builder'[c] = builder[c]
        /\ builder'[i].at = "due" /\ builder'[i].mark = builder[i].mark
        /\ builder'[i].since = builder[i].since
        /\ builder'[i].todo = builder[i].todo
        /\ builder'[i].facets = builder[i].facets
    BY <1>1, GotoType DEF IInv, Stages
  <1>3. troubles' \in 0..MaxTroubles
    BY <1>1, Typed DEF IInv
  <1>4. TypeOK'
    BY <1>1, <1>2, <1>3 DEF IInv, TypeOK, BuilderRow
  <1>5. Known' /\ SeenBefore'
    BY <1>1, <1>2, KnowingStays
  <1>6. Pointing'
    BY <1>1, <1>2, PointingStays DEF IInv
  <1>7. Current'
    BY <1>1, <1>2, CurrentStays DEF IInv, Writing
  <1> QED BY <1>4, <1>5, <1>6, <1>7 DEF IInv

LEMMA StartIInv ==
  ASSUME IInv, NEW b \in Builders, Start(b)
  PROVE  IInv'
  <1> DEFINE since == IF b \in Schedulers THEN sec ELSE 0
             x == [Idle EXCEPT !.at = "read", !.mark = news, !.since = since]
  <1>1. /\ builder[b].at \in {"away", "due"}
        /\ builder' = [builder EXCEPT ![b] = x]
        /\ UNCHANGED <<news, sec, job, rows, gens, pointer, unpointed, troubles>>
    BY DEF Start
  <1>2. /\ news \in Versions /\ sec \in 0..MaxSec /\ sec \in Nat
        /\ news \in Nat
    BY Typed DEF IInv, Versions
  <1>3. since \in 0..MaxSec /\ (b \in Schedulers => since = sec) /\ since <= sec
    BY <1>2
  <1> HIDE DEF since
  <1>4. /\ x \in BuilderRow /\ x.at = "read" /\ x.mark = news /\ x.since = since
        /\ x.todo = {}
    BY <1>2, <1>3, IdleType DEF BuilderRow, Stages
  <1> HIDE DEF x
  <1>5. /\ builder' \in [Builders -> BuilderRow]
        /\ \A c \in Builders : c # b => builder'[c] = builder[c]
        /\ builder'[b] = x
    BY <1>1, <1>4, PutType DEF IInv
  <1>6. TypeOK'
    BY <1>1, <1>2, <1>5 DEF IInv, TypeOK, BuilderRow
  <1>7. Known'
    BY <1>1, <1>3, <1>4, <1>5 DEF IInv, Known
  <1>8. SeenBefore'
    BY <1>1, <1>4, <1>5 DEF IInv, SeenBefore, Known, Builders
  <1>9. Pointing'
    BY <1>1, <1>4, <1>5, PointingStays DEF IInv
  <1>10. Current'
    <2>1. ASSUME NEW c \in Builders PROVE ReadsCurrent(c)'
      BY <1>1, <1>2, <1>4, <1>5 DEF IInv, Current, ReadsCurrent
    <2>2. ASSUME NEW s \in Schedulers PROVE OwnRows(s)'
      <3>1. s \in Builders
        BY DEF Builders
      <3> QED BY <1>1, <1>4, <1>5, <3>1 DEF IInv, Current, OwnRows, Writing
    <2> QED BY <1>1, <2>1, <2>2 DEF IInv, Current
  <1> QED BY <1>6, <1>7, <1>8, <1>9, <1>10 DEF IInv

LEMMA ReadFacetsIInv ==
  ASSUME IInv, NEW b \in Builders, ReadFacets(b)
  PROVE  IInv'
  <1> DEFINE x == [builder[b] EXCEPT !.at = "write", !.todo = Rows,
                                     !.facets = news]
  <1>1. /\ builder[b].at = "read" /\ builder' = [builder EXCEPT ![b] = x]
        /\ UNCHANGED <<news, sec, job, rows, gens, pointer, unpointed, troubles>>
    BY DEF ReadFacets
  <1>2. builder[b] \in BuilderRow /\ news \in Versions
    BY Typed DEF IInv
  <1>3. /\ x \in BuilderRow /\ x.at = "write" /\ x.mark = builder[b].mark
        /\ x.since = builder[b].since /\ x.todo = Rows /\ x.facets = news
    BY <1>2 DEF BuilderRow, Stages
  <1> HIDE DEF x
  <1>4. /\ builder' \in [Builders -> BuilderRow]
        /\ \A c \in Builders : c # b => builder'[c] = builder[c]
        /\ builder'[b] = x
    BY <1>1, <1>3, PutType DEF IInv
  <1>5. TypeOK'
    BY <1>1, <1>4 DEF IInv, TypeOK, BuilderRow
  <1>6. Known' /\ SeenBefore'
    BY <1>1, <1>3, <1>4, KnowingStays
  <1>7. Pointing'
    BY <1>1, <1>3, <1>4, PointingStays DEF IInv
  <1>8. Current'
    <2>1. builder[b].mark <= news
      BY <1>1 DEF IInv, Current, ReadsCurrent
    <2>2. ASSUME NEW c \in Builders PROVE ReadsCurrent(c)'
      BY <1>1, <1>3, <1>4, <2>1 DEF IInv, Current, ReadsCurrent
    <2>3. ASSUME NEW s \in Schedulers PROVE OwnRows(s)'
      <3>1. s \in Builders
        BY DEF Builders
      <3> QED BY <1>1, <1>3, <1>4, <3>1 DEF IInv, Current, OwnRows, Writing
    <2> QED BY <1>1, <2>2, <2>3 DEF IInv, Current
  <1> QED BY <1>5, <1>6, <1>7, <1>8 DEF IInv

(* A row is written, in its turn or late, with what its refresh has read:  *)
(* the tasks that find another watermark in it are told apart.             *)
LEMMA LandsIInv ==
  ASSUME IInv, NEW b \in Builders, NEW row \in builder[b].todo,
         NEW x \in BuilderRow, Lands(b, row, x),
         builder[b].at \in {"write", "fail", "end"}, x.at # "read",
         x.todo # {} => /\ x.mark = builder[b].mark
                        /\ x.facets = builder[b].facets,
         b \in Schedulers /\ x.at \in Writing =>
           /\ builder[b].at = "write" /\ x.mark = builder[b].mark
           /\ x.mixed = builder[b].mixed
           /\ x.todo = builder[b].todo \ {row}
           /\ x.at # "write" => x.todo = {},
         \/ x.since = builder[b].since /\ x.mark = builder[b].mark
         \/ x.since = 0,
         UNCHANGED <<news, sec, job, gens, pointer, unpointed, troubles>>
  PROVE  IInv'
  <1> DEFINE mark == builder[b].mark
             crossed(c) == builder[c].mixed \/ c \in Mixes(row, mark)
             y(c) == IF c = b THEN x
                     ELSE [builder[c] EXCEPT !.mixed = crossed(c)]
  <1>1. /\ builder \in [Builders -> BuilderRow] /\ rows \in [Rows -> Row]
        /\ news \in Versions /\ row \in Rows /\ mark \in Versions
        /\ builder[b].facets \in Versions
        /\ \A c \in Builders : builder[c] \in BuilderRow
    <2>1. builder \in [Builders -> BuilderRow] /\ rows \in [Rows -> Row]
          /\ news \in Versions
      BY Typed DEF IInv
    <2>2. \A c \in Builders : builder[c] \in BuilderRow
      BY <2>1
    <2>3. builder[b] \in BuilderRow
      BY <2>2
    <2> QED BY <2>1, <2>2, <2>3 DEF BuilderRow
  <1>2. PICK v \in HeldBy(b, row) :
          rows' = [rows EXCEPT ![row] = [mark |-> mark, version |-> v]]
    BY DEF Lands
  <1>3. v \in Versions /\ mark <= v
    <2>1. mark <= builder[b].facets
      BY DEF IInv, Current, ReadsCurrent
    <2> HIDE DEF mark
    <2>2. v \in builder[b].facets .. news \/ v = builder[b].facets
      BY <1>2 DEF HeldBy
    <2>3. builder[b].facets <= v /\ v \in Versions
      BY <1>1, <2>2 DEF Versions
    <2> QED BY <1>1, <2>1, <2>3 DEF Versions
  <1>4. /\ rows' \in [Rows -> Row] /\ rows'[row].mark = mark
        /\ rows'[row].version = v
        /\ \A r \in Rows : r # row => rows'[r] = rows[r]
    <2> HIDE DEF mark
    <2> QED BY <1>1, <1>2, <1>3 DEF Row
  <1>5. builder' = [c \in Builders |-> y(c)]
    BY DEF Lands
  <1>6. ASSUME NEW c \in Builders, c # b
        PROVE  /\ y(c) \in BuilderRow
               /\ y(c).at = builder[c].at /\ y(c).mark = builder[c].mark
               /\ y(c).since = builder[c].since /\ y(c).todo = builder[c].todo
               /\ y(c).facets = builder[c].facets
               /\ y(c).mixed = crossed(c)
    <2>1. crossed(c) \in BOOLEAN
      BY <1>1, <1>6 DEF BuilderRow
    <2> HIDE DEF crossed
    <2> QED BY <1>1, <1>6, <2>1 DEF BuilderRow
  <1>7. y(b) = x
    OBVIOUS
  <1> HIDE DEF y
  <1>8. /\ builder' \in [Builders -> BuilderRow] /\ builder'[b] = x
        /\ \A c \in Builders : c # b =>
             /\ builder'[c].at = builder[c].at
             /\ builder'[c].mark = builder[c].mark
             /\ builder'[c].since = builder[c].since
             /\ builder'[c].todo = builder[c].todo
             /\ builder'[c].facets = builder[c].facets
             /\ builder'[c].mixed = crossed(c)
    BY <1>5, <1>6, <1>7
  <1> HIDE DEF crossed, mark
  <1>9. TypeOK'
    BY <1>4, <1>8, Typed DEF IInv, TypeOK, BuilderRow, Row
  <1>10. Known' /\ SeenBefore'
    <2>1. \A c \in Builders :
            \/ builder'[c].since = builder[c].since
               /\ builder'[c].mark = builder[c].mark
            \/ builder'[c].since = 0
      BY <1>8 DEF mark
    <2> QED BY <2>1, KnowingStays
  <1>11. Pointing'
    BY <1>8, PointingStays DEF IInv
  <1>12. Current'
    <2>1. ASSUME NEW c \in Builders PROVE ReadsCurrent(c)'
      <3>1. CASE c = b
        BY <1>8, <3>1 DEF IInv, Current, ReadsCurrent
      <3>2. CASE c # b
        BY <1>8, <3>2 DEF IInv, Current, ReadsCurrent
      <3> QED BY <3>1, <3>2
    <2>2. \A r \in Rows : rows'[r].mark <= rows'[r].version
      BY <1>3, <1>4 DEF IInv, Current
    <2>3. ASSUME NEW s \in Schedulers, builder'[s].at \in Writing,
                 ~builder'[s].mixed, NEW r \in Rows, r \notin builder'[s].todo
          PROVE  rows'[r].mark = builder'[s].mark
      <3>1. s \in Builders
        BY DEF Builders
      <3>2. CASE s = b
        <4>1. /\ builder[b].at = "write" /\ x.mark = mark
              /\ x.mixed = builder[b].mixed /\ x.todo = builder[b].todo \ {row}
          BY <1>8, <2>3, <3>2 DEF mark
        <4>2. r = row \/ (r \notin builder[b].todo /\ r # row)
          BY <1>8, <2>3, <3>2, <4>1
        <4>3. r # row => rows[r].mark = builder[b].mark
          BY <1>8, <2>3, <3>2, <4>1, <4>2 DEF IInv, Current, OwnRows, Writing
        <4> QED BY <1>4, <1>8, <3>2, <4>1, <4>3 DEF mark
      <3>3. CASE s # b
        <4>1. /\ ~builder[s].mixed /\ s \notin Mixes(row, mark)
              /\ builder[s].at \in Writing /\ r \notin builder[s].todo
              /\ builder'[s].mark = builder[s].mark
          BY <1>8, <2>3, <3>1, <3>3 DEF crossed
        <4>2. rows[r].mark = builder[s].mark
          BY <2>3, <4>1 DEF IInv, Current, OwnRows
        <4>3. CASE r = row
          <5>1. builder[s].mark = mark
            BY <4>1, <4>3 DEF Mixes, Writing
          <5> QED BY <1>4, <4>1, <4>3, <5>1
        <4>4. CASE r # row
          BY <1>4, <4>1, <4>2, <4>4
        <4> QED BY <4>3, <4>4
      <3> QED BY <3>2, <3>3
    <2>4. ASSUME NEW s \in Schedulers, builder'[s].at \in Writing,
                 builder'[s].at # "write"
          PROVE  builder'[s].todo = {}
      <3>1. s \in Builders
        BY DEF Builders
      <3>2. CASE s = b
        BY <1>8, <2>4, <3>2
      <3>3. CASE s # b
        BY <1>8, <2>4, <3>1, <3>3 DEF IInv, Current, OwnRows
      <3> QED BY <3>2, <3>3
    <2>5. ASSUME NEW s \in Schedulers PROVE OwnRows(s)'
      BY <2>3, <2>4 DEF OwnRows
    <2> QED BY <2>1, <2>2, <2>5 DEF Current
  <1> QED BY <1>9, <1>10, <1>11, <1>12 DEF IInv

LEMMA WriteRowIInv ==
  ASSUME IInv, NEW b \in Builders, WriteRow(b)
  PROVE  IInv'
  <1>1. PICK r \in Due(b) : Lands(b, r, Written(b, r))
    BY DEF WriteRow
  <1> DEFINE x == Written(b, r)
  <1>2. /\ builder[b].at = "write" /\ r \in builder[b].todo
        /\ builder[b] \in BuilderRow
        /\ UNCHANGED <<news, sec, job, gens, pointer, unpointed, troubles>>
    <2>1. builder[b] \in BuilderRow
      BY Typed DEF IInv
    <2> QED BY <2>1 DEF WriteRow, Due
  <1>3. CASE builder[b].todo # {r}
    <2>1. x = [builder[b] EXCEPT !.todo = builder[b].todo \ {r}]
      BY <1>3 DEF Written
    <2>2. /\ x \in BuilderRow /\ x.at = "write" /\ x.mark = builder[b].mark
          /\ x.facets = builder[b].facets /\ x.since = builder[b].since
          /\ x.mixed = builder[b].mixed /\ x.todo = builder[b].todo \ {r}
      BY <1>2, <2>1 DEF BuilderRow
    <2> HIDE DEF x
    <2> QED BY <1>1, <1>2, <2>2, LandsIInv DEF x
  <1>4. CASE builder[b].todo = {r} /\ b \in Importers
    <2>1. x = [Idle EXCEPT !.at = "settle"]
      BY <1>4 DEF Written
    <2>2. x \in BuilderRow /\ x.at = "settle" /\ x.since = 0 /\ x.todo = {}
      BY <2>1, IdleType DEF BuilderRow, Stages
    <2>3. b \notin Schedulers
      BY <1>4
    <2> HIDE DEF x
    <2> QED BY <1>1, <1>2, <2>2, <2>3, LandsIInv DEF x
  <1>5. CASE builder[b].todo = {r} /\ b \notin Importers
    <2>1. x = [builder[b] EXCEPT !.at = "reconcile", !.todo = {}, !.facets = 0]
      BY <1>5 DEF Written
    <2>2. 0 \in Versions /\ {} \in SUBSET Rows /\ "reconcile" \in Stages
      BY DEF Versions, Stages
    <2>3. /\ x \in BuilderRow /\ x.at = "reconcile" /\ x.mark = builder[b].mark
          /\ x.since = builder[b].since /\ x.mixed = builder[b].mixed
          /\ x.todo = {}
      BY <1>2, <2>1, <2>2 DEF BuilderRow
    <2>4. x.todo = builder[b].todo \ {r}
      BY <1>5, <2>3
    <2> HIDE DEF x
    <2> QED BY <1>1, <1>2, <2>3, <2>4, LandsIInv DEF x
  <1> QED BY <1>3, <1>4, <1>5

(* A refresh that has failed keeps the writes that may still land. *)
LEMMA UnheardType ==
  ASSUME TypeOK, NEW b \in Builders, NEW at \in Stages,
         NEW rest \in SUBSET builder[b].todo
  PROVE  /\ Unheard(b, at, rest) \in BuilderRow
         /\ Unheard(b, at, rest).at = at /\ Unheard(b, at, rest).since = 0
         /\ Unheard(b, at, rest).todo = rest
         /\ rest # {} => /\ Unheard(b, at, rest).mark = builder[b].mark
                         /\ Unheard(b, at, rest).facets = builder[b].facets
  <1>1. builder[b] \in BuilderRow /\ rest \in SUBSET Rows /\ 0 \in 0..MaxSec
    <2>1. builder[b] \in BuilderRow
      BY Typed
    <2> QED BY <2>1 DEF BuilderRow
  <1>2. CASE rest = {}
    BY <1>2, IdleType DEF Unheard, BuilderRow
  <1>3. CASE rest # {}
    BY <1>1, <1>3 DEF Unheard, BuilderRow
  <1> QED BY <1>2, <1>3

LEMMA RefreshFailsIInv ==
  ASSUME IInv, NEW b \in Builders, RefreshFails(b)
  PROVE  IInv'
  <1> DEFINE x == Unheard(b, AfterFailure(b), Due(b))
  <1>1. /\ troubles' = troubles + 1 /\ troubles < MaxTroubles
        /\ builder[b].at \in {"read", "write"}
        /\ builder' = [builder EXCEPT ![b] = x]
        /\ UNCHANGED <<news, sec, job, rows, gens, pointer, unpointed>>
    BY DEF RefreshFails
  <1>2. AfterFailure(b) \in {"fail", "end"} /\ Due(b) \in SUBSET builder[b].todo
    BY DEF AfterFailure, Due
  <1>3. /\ x \in BuilderRow /\ x.at \in {"fail", "end"} /\ x.since = 0
        /\ x.todo # {} => /\ x.mark = builder[b].mark /\ builder[b].todo # {}
                          /\ x.facets = builder[b].facets
    BY <1>2, UnheardType DEF IInv, Stages
  <1> HIDE DEF x
  <1>4. /\ builder' \in [Builders -> BuilderRow]
        /\ \A c \in Builders : c # b => builder'[c] = builder[c]
        /\ builder'[b] = x
    BY <1>1, <1>3, PutType DEF IInv
  <1>5. troubles' \in 0..MaxTroubles
    BY <1>1, Typed DEF IInv
  <1>6. TypeOK'
    BY <1>1, <1>4, <1>5 DEF IInv, TypeOK, BuilderRow
  <1>7. Known' /\ SeenBefore'
    BY <1>1, <1>3, <1>4, KnowingStays
  <1>8. Pointing'
    BY <1>1, <1>4, PointingStays DEF IInv
  <1>9. Current'
    BY <1>1, <1>3, <1>4, CurrentStays DEF IInv, Writing
  <1> QED BY <1>6, <1>7, <1>8, <1>9 DEF IInv

LEMMA LandLateIInv ==
  ASSUME IInv, NEW b \in Builders, LandLate(b)
  PROVE  IInv'
  <1>1. PICK r \in builder[b].todo :
          Lands(b, r, Unheard(b, builder[b].at, builder[b].todo \ {r}))
    BY DEF LandLate
  <1> DEFINE x == Unheard(b, builder[b].at, builder[b].todo \ {r})
  <1>2. /\ builder[b].at \in {"fail", "end"}
        /\ UNCHANGED <<news, sec, job, gens, pointer, unpointed, troubles>>
    BY DEF LandLate
  <1>3. /\ x \in BuilderRow /\ x.at \in {"fail", "end"} /\ x.since = 0
        /\ x.todo # {} => /\ x.mark = builder[b].mark
                          /\ x.facets = builder[b].facets
    BY <1>2, UnheardType DEF IInv, Stages
  <1> HIDE DEF x
  <1>4. Lands(b, r, x)
    BY <1>1 DEF x
  <1>5. x.at # "read" /\ x.at \notin Writing
    BY <1>3 DEF Writing
  <1> QED BY <1>2, <1>3, <1>4, <1>5, LandsIInv

LEMMA EndIInv ==
  ASSUME IInv, NEW b \in Builders, End(b)
  PROVE  IInv'
  <1>1. /\ builder[b].at = "end" /\ Gone(b)
        /\ UNCHANGED <<news, sec, job, rows, gens, pointer, unpointed, troubles>>
    BY DEF End
  <1>2. /\ builder' \in [Builders -> BuilderRow]
        /\ \A c \in Builders : c # b => builder'[c] = builder[c]
        /\ builder'[b] = Idle
    BY <1>1, GoneType DEF IInv
  <1>3. TypeOK'
    BY <1>1, <1>2 DEF IInv, TypeOK, BuilderRow
  <1>4. Known' /\ SeenBefore'
    BY <1>1, <1>2, IdleType, KnowingStays
  <1>5. Pointing'
    BY <1>1, <1>2, PointingStays DEF IInv
  <1>6. Current'
    BY <1>1, <1>2, IdleType, CurrentStays DEF IInv, Writing
  <1> QED BY <1>3, <1>4, <1>5, <1>6 DEF IInv

LEMMA MarkReadyFailsIInv ==
  ASSUME IInv, NEW i \in Importers, MarkReadyFails(i)
  PROVE  IInv'
  <1>1. /\ troubles < MaxTroubles /\ troubles' = troubles + 1
        /\ builder[i].at = "settle" /\ Goto(i, "fail") /\ i \in Builders
        /\ UNCHANGED <<news, sec, job, rows, gens, pointer, unpointed>>
    BY DEF MarkReadyFails, Builders
  <1>2. /\ builder' \in [Builders -> BuilderRow]
        /\ \A c \in Builders : c # i => builder'[c] = builder[c]
        /\ builder'[i].at = "fail" /\ builder'[i].mark = builder[i].mark
        /\ builder'[i].since = builder[i].since
        /\ builder'[i].todo = builder[i].todo
        /\ builder'[i].facets = builder[i].facets
    BY <1>1, GotoType DEF IInv, Stages
  <1>3. troubles' \in 0..MaxTroubles
    BY <1>1, Typed DEF IInv
  <1>4. TypeOK'
    BY <1>1, <1>2, <1>3 DEF IInv, TypeOK, BuilderRow
  <1>5. Known' /\ SeenBefore'
    BY <1>1, <1>2, KnowingStays
  <1>6. Pointing'
    BY <1>1, <1>2, PointingStays DEF IInv
  <1>7. Current'
    BY <1>1, <1>2, CurrentStays DEF IInv, Writing
  <1> QED BY <1>4, <1>5, <1>6, <1>7 DEF IInv

LEMMA MarkReadyIInv ==
  ASSUME IInv, NEW i \in Importers, MarkReady(i)
  PROVE  IInv'
  <1>1. /\ builder[i].at = "settle" /\ Gone(i) /\ i \in Builders
        /\ job' = [job EXCEPT ![i].status = "committed", ![i].since = 0]
        /\ UNCHANGED <<news, sec, rows, gens, pointer, unpointed, troubles>>
    BY DEF MarkReady, Builders
  <1>2. /\ builder' \in [Builders -> BuilderRow]
        /\ \A c \in Builders : c # i => builder'[c] = builder[c]
        /\ builder'[i] = Idle
    BY <1>1, GoneType DEF IInv
  <1>3. job \in [Importers -> JobRow] /\ sec \in Nat
    BY Typed DEF IInv
  <1>4. /\ job' \in [Importers -> JobRow]
        /\ \A k \in Importers : k # i => job'[k] = job[k]
        /\ job'[i].status = "committed" /\ job'[i].version = job[i].version
    <2> DEFINE y == [job[i] EXCEPT !.status = "committed", !.since = 0]
    <2>1. job[i] \in JobRow /\ 0 \in 0..MaxSec
      BY <1>3
    <2>2. /\ y \in JobRow /\ y.status = "committed" /\ y.version = job[i].version
      BY <2>1 DEF JobRow
    <2>3. job' = [job EXCEPT ![i] = y]
      BY <1>1
    <2> HIDE DEF y
    <2> QED BY <1>3, <2>2, <2>3
  <1>5. TypeOK'
    BY <1>1, <1>2, <1>4 DEF IInv, TypeOK, BuilderRow, JobRow
  <1>6. Known'
    BY <1>1, <1>2, <1>3, <1>4, IdleType DEF IInv, Known
  <1>7. SeenBefore'
    <2>1. i \notin Schedulers
      OBVIOUS
    <2> QED BY <1>2, <1>4, <2>1 DEF IInv, SeenBefore, Builders
  <1>8. Pointing'
    BY <1>1, <1>2, PointingStays DEF IInv
  <1>9. Current'
    BY <1>1, <1>2, IdleType, CurrentStays DEF IInv, Writing
  <1> QED BY <1>5, <1>6, <1>7, <1>8, <1>9 DEF IInv

LEMMA MarkPendingIInv ==
  ASSUME IInv, NEW i \in Importers, MarkPending(i)
  PROVE  IInv'
  <1>1. /\ builder[i].at = "fail" /\ Goto(i, "end") /\ i \in Builders
        /\ job' = [job EXCEPT ![i].status = "pending", ![i].since = sec]
        /\ UNCHANGED <<news, sec, rows, gens, pointer, unpointed, troubles>>
    BY DEF MarkPending, Builders
  <1>2. /\ builder' \in [Builders -> BuilderRow]
        /\ \A c \in Builders : c # i => builder'[c] = builder[c]
        /\ builder'[i].at = "end" /\ builder'[i].mark = builder[i].mark
        /\ builder'[i].since = builder[i].since
        /\ builder'[i].todo = builder[i].todo
        /\ builder'[i].facets = builder[i].facets
    BY <1>1, GotoType DEF IInv, Stages
  <1>3. job \in [Importers -> JobRow] /\ sec \in 0..MaxSec /\ sec \in Nat
    BY Typed DEF IInv
  <1>4. /\ job' \in [Importers -> JobRow]
        /\ \A k \in Importers : k # i => job'[k] = job[k]
        /\ job'[i].since = sec /\ job'[i].version = job[i].version
    BY <1>1, <1>3 DEF JobRow
  <1>5. TypeOK'
    BY <1>1, <1>2, <1>4 DEF IInv, TypeOK, BuilderRow, JobRow
  <1>6. Known'
    BY <1>1, <1>2, <1>3, <1>4 DEF IInv, Known
  <1>7. SeenBefore'
    <2> SUFFICES ASSUME NEW b \in Schedulers, NEW k \in Importers,
                        job'[k].status = "pending",
                        job'[k].since < builder'[b].since
                 PROVE  job'[k].version <= builder'[b].mark
      BY DEF SeenBefore
    <2>1. b # i /\ b \in Builders
      BY DEF Builders
    <2>2. builder'[b] = builder[b] /\ builder[b].since <= sec
          /\ builder[b].since \in Nat
      <3>1. builder[b] \in BuilderRow
        BY <2>1, Typed DEF IInv
      <3> QED BY <1>2, <2>1, <3>1 DEF IInv, Known, BuilderRow
    <2>3. k # i
      BY <1>3, <1>4, <2>2
    <2> QED BY <1>4, <2>2, <2>3 DEF IInv, SeenBefore
  <1>8. Pointing'
    BY <1>1, <1>2, PointingStays DEF IInv
  <1>9. Current'
    BY <1>1, <1>2, CurrentStays DEF IInv, Writing
  <1> QED BY <1>5, <1>6, <1>7, <1>8, <1>9 DEF IInv

(* A task goes on from the reconciliation with its refresh as it was. *)
LEMMA ReconciledType ==
  ASSUME IInv, NEW b \in Builders, builder[b].at = "reconcile", Reconciled(b)
  PROVE  /\ builder' \in [Builders -> BuilderRow]
         /\ \A c \in Builders : c # b => builder'[c] = builder[c]
         /\ builder'[b].at = "copy" /\ builder'[b].mark = builder[b].mark
         /\ builder'[b].mixed = builder[b].mixed
         /\ builder'[b].since = 0 /\ builder'[b].todo = {}
  <1> DEFINE x == [Idle EXCEPT !.at = "copy", !.mark = builder[b].mark,
                               !.mixed = builder[b].mixed]
  <1>1. builder[b] \in BuilderRow
    BY Typed DEF IInv
  <1>2. /\ x \in BuilderRow /\ x.at = "copy" /\ x.mark = builder[b].mark
        /\ x.mixed = builder[b].mixed /\ x.since = 0 /\ x.todo = {}
    BY <1>1, IdleType DEF BuilderRow, Stages
  <1>3. builder' = [builder EXCEPT ![b] = x]
    BY DEF Reconciled
  <1> HIDE DEF x
  <1> QED BY <1>2, <1>3, PutType DEF IInv

LEMMA ReconciledCurrent ==
  ASSUME IInv, NEW b \in Schedulers, builder[b].at = "reconcile",
         Reconciled(b), UNCHANGED <<news, rows>>
  PROVE  Current'
  <1>1. b \in Builders
    BY DEF Builders
  <1>2. /\ \A c \in Builders : c # b => builder'[c] = builder[c]
        /\ builder'[b].at = "copy" /\ builder'[b].mark = builder[b].mark
        /\ builder'[b].mixed = builder[b].mixed /\ builder'[b].todo = {}
    BY <1>1, ReconciledType
  <1>3. ASSUME NEW c \in Builders PROVE ReadsCurrent(c)'
    BY <1>1, <1>2 DEF IInv, Current, ReadsCurrent
  <1>4. ASSUME NEW s \in Schedulers PROVE OwnRows(s)'
    <2>1. s \in Builders
      BY DEF Builders
    <2> QED BY <1>1, <1>2, <2>1 DEF IInv, Current, OwnRows, Writing
  <1> QED BY <1>3, <1>4 DEF IInv, Current

LEMMA ReconcileIInv ==
  ASSUME IInv, NEW b \in Schedulers, Reconcile(b)
  PROVE  IInv'
  <1> DEFINE y(i) == [job[i] EXCEPT !.status = "committed", !.since = 0]
  <1>1. /\ builder[b].at = "reconcile" /\ Reconciled(b) /\ b \in Builders
        /\ job' = [i \in Importers |-> IF i \in Reclaimed(b) THEN y(i) ELSE job[i]]
        /\ UNCHANGED <<news, sec, rows, gens, pointer, unpointed, troubles>>
    BY DEF Reconcile, Builders
  <1>2. /\ builder' \in [Builders -> BuilderRow]
        /\ \A c \in Builders : c # b => builder'[c] = builder[c]
        /\ builder'[b].at = "copy" /\ builder'[b].since = 0
    BY <1>1, ReconciledType
  <1>3. ASSUME NEW i \in Importers
        PROVE  /\ job[i] \in JobRow /\ y(i) \in JobRow
               /\ y(i).status = "committed" /\ y(i).version = job[i].version
    <2>1. job[i] \in JobRow /\ 0 \in 0..MaxSec
      BY Typed DEF IInv
    <2> QED BY <2>1 DEF JobRow
  <1> HIDE DEF y
  <1>4. /\ job' \in [Importers -> JobRow]
        /\ \A i \in Importers : job'[i].version = job[i].version
        /\ \A i \in Importers : job'[i].status = "pending" => job'[i] = job[i]
    BY <1>1, <1>3
  <1>5. TypeOK'
    BY <1>1, <1>2, <1>4 DEF IInv, TypeOK, BuilderRow, JobRow
  <1>6. sec \in Nat /\ \A i \in Importers : ~(job[i].since < 0)
    <2>1. sec \in Nat
      BY Typed DEF IInv
    <2> QED BY <1>3, <2>1 DEF JobRow
  <1>7. Known'
    BY <1>1, <1>2, <1>4, <1>6 DEF IInv, Known
  <1>8. SeenBefore'
    BY <1>2, <1>4, <1>6 DEF IInv, SeenBefore, Builders
  <1>9. Pointing'
    BY <1>1, <1>2, PointingStays DEF IInv
  <1>10. Current'
    BY <1>1, ReconciledCurrent
  <1> QED BY <1>5, <1>7, <1>8, <1>9, <1>10 DEF IInv

LEMMA ReconcileFailsIInv ==
  ASSUME IInv, NEW b \in Schedulers, ReconcileFails(b)
  PROVE  IInv'
  <1>1. /\ troubles < MaxTroubles /\ troubles' = troubles + 1
        /\ builder[b].at = "reconcile" /\ Reconciled(b) /\ b \in Builders
        /\ UNCHANGED <<news, sec, job, rows, gens, pointer, unpointed>>
    BY DEF ReconcileFails, Builders
  <1>2. /\ builder' \in [Builders -> BuilderRow]
        /\ \A c \in Builders : c # b => builder'[c] = builder[c]
        /\ builder'[b].at = "copy" /\ builder'[b].since = 0
    BY <1>1, ReconciledType
  <1>3. troubles' \in 0..MaxTroubles
    BY <1>1, Typed DEF IInv
  <1>4. TypeOK'
    BY <1>1, <1>2, <1>3 DEF IInv, TypeOK, BuilderRow
  <1>5. Known' /\ SeenBefore'
    BY <1>1, <1>2, KnowingStays
  <1>6. Pointing'
    BY <1>1, <1>2, PointingStays DEF IInv
  <1>7. Current'
    BY <1>1, ReconciledCurrent
  <1> QED BY <1>4, <1>5, <1>6, <1>7 DEF IInv

LEMMA CopyIInv ==
  ASSUME IInv, NEW b \in Schedulers, Copy(b)
  PROVE  IInv'
  <1>1. PICK late \in Rows :
          builder' = [builder EXCEPT ![b] = [Idle EXCEPT !.at = "compare",
                                               !.mark = rows[late].mark]]
    BY DEF Copy
  <1> DEFINE x == [Idle EXCEPT !.at = "compare", !.mark = rows[late].mark]
  <1>2. /\ builder[b].at = "copy" /\ b \in Builders
        /\ UNCHANGED <<news, sec, job, rows, gens, pointer, unpointed, troubles>>
    BY DEF Copy, Builders
  <1>3. rows[late] \in Row
    BY Typed DEF IInv
  <1>4. x \in BuilderRow /\ x.at = "compare" /\ x.since = 0 /\ x.todo = {}
    BY <1>3, IdleType DEF BuilderRow, Stages, Row
  <1>5. builder' = [builder EXCEPT ![b] = x]
    BY <1>1
  <1> HIDE DEF x
  <1>6. /\ builder' \in [Builders -> BuilderRow]
        /\ \A c \in Builders : c # b => builder'[c] = builder[c]
        /\ builder'[b] = x
    BY <1>2, <1>4, <1>5, PutType DEF IInv
  <1>7. TypeOK'
    BY <1>2, <1>6 DEF IInv, TypeOK, BuilderRow
  <1>8. Known' /\ SeenBefore'
    BY <1>2, <1>4, <1>6, KnowingStays
  <1>9. Pointing'
    BY <1>2, <1>6, PointingStays DEF IInv
  <1>10. Current'
    BY <1>2, <1>4, <1>6, CurrentStays DEF IInv, Writing
  <1> QED BY <1>7, <1>8, <1>9, <1>10 DEF IInv

LEMMA LeaveUnchangedIInv ==
  ASSUME IInv, NEW b \in Schedulers, LeaveUnchanged(b)
  PROVE  IInv'
  <1>1. /\ builder[b].at = "compare" /\ Gone(b) /\ b \in Builders
        /\ UNCHANGED <<news, sec, job, rows, gens, pointer, unpointed,
                       troubles>>
    BY DEF LeaveUnchanged, Builders
  <1>2. /\ builder' \in [Builders -> BuilderRow]
        /\ \A c \in Builders : c # b => builder'[c] = builder[c]
        /\ builder'[b].at = "away" /\ builder'[b].since = 0
        /\ builder'[b].todo = {}
    BY <1>1, GoneType, IdleType DEF IInv
  <1>3. TypeOK'
    BY <1>1, <1>2 DEF IInv, TypeOK, BuilderRow
  <1>4. Known' /\ SeenBefore'
    BY <1>1, <1>2, KnowingStays
  <1>5. Pointing'
    BY <1>1, <1>2, PointingStays DEF IInv
  <1>6. Current'
    BY <1>1, <1>2, CurrentStays DEF IInv, Writing
  <1> QED BY <1>3, <1>4, <1>5, <1>6 DEF IInv

LEMMA InsertIInv ==
  ASSUME IInv, NEW b \in Schedulers, Insert(b)
  PROVE  IInv'
  <1> DEFINE x == [Idle EXCEPT !.at = "activate"]
             gen == [by |-> b, status |-> "ready", mark |-> builder[b].mark]
             n == Len(gens)
  <1>1. /\ builder[b].at = "compare" /\ b \in Builders
        /\ builder' = [builder EXCEPT ![b] = x] /\ gens' = Append(gens, gen)
        /\ UNCHANGED <<news, sec, job, rows, pointer, unpointed, troubles>>
    BY DEF Insert, Builders
  <1>2. x \in BuilderRow /\ x.at = "activate" /\ x.since = 0 /\ x.todo = {}
    BY IdleType DEF BuilderRow, Stages
  <1>3. builder[b] \in BuilderRow /\ gens \in Seq(GenRow)
    BY <1>1, Typed DEF IInv
  <1>4. gen \in GenRow /\ gen.status = "ready"
    BY <1>3 DEF GenRow, BuilderRow
  <1> HIDE DEF x, gen
  <1>5. /\ builder' \in [Builders -> BuilderRow]
        /\ \A c \in Builders : c # b => builder'[c] = builder[c]
        /\ builder'[b] = x
    BY <1>1, <1>2, PutType DEF IInv
  <1>6. /\ gens' \in Seq(GenRow)
        /\ \A g \in DOMAIN gens' :
             gens'[g] = gen \/ (g \in DOMAIN gens /\ gens'[g] = gens[g])
    <2>1. /\ n \in Nat /\ DOMAIN gens = 1 .. n /\ gens' \in Seq(GenRow)
          /\ DOMAIN gens' = 1 .. n + 1 /\ gens'[n + 1] = gen
          /\ \A g \in 1 .. n : gens'[g] = gens[g]
      BY <1>1, <1>3, <1>4
    <2>2. \A g \in 1 .. n + 1 : g \in 1 .. n \/ g = n + 1
      BY <2>1
    <2> QED BY <2>1, <2>2
  <1>7. TypeOK'
    BY <1>1, <1>5, <1>6 DEF IInv, TypeOK, BuilderRow, GenRow
  <1>8. Known' /\ SeenBefore'
    BY <1>1, <1>2, <1>5, KnowingStays
  <1>9. Pointing'
    <2> SUFFICES ASSUME NEW g \in DOMAIN gens', gens'[g].status = "active"
                 PROVE  IF gens'[g].by = Nobody
                        THEN pointer' = "active" \/ unpointed'
                        ELSE builder'[gens'[g].by].at = "point"
      BY DEF Pointing
    <2>1. g \in DOMAIN gens /\ gens'[g] = gens[g]
      BY <1>4, <1>6
    <2>2. gens[g].by # Nobody => gens[g].by \in Builders
      <3>1. gens[g] \in GenRow
        BY <1>3, <2>1
      <3> QED BY <3>1 DEF GenRow, Builders
    <2> QED BY <1>1, <1>5, <2>1, <2>2 DEF IInv, Pointing
  <1>10. Current'
    BY <1>1, <1>2, <1>5, CurrentStays DEF IInv, Writing
  <1> QED BY <1>7, <1>8, <1>9, <1>10 DEF IInv

LEMMA ActivateIInv ==
  ASSUME IInv, NEW b \in Schedulers, Activate(b)
  PROVE  IInv'
  <1>1. /\ builder[b].at = "activate" /\ Goto(b, "point") /\ b \in Builders
        /\ pointer' = IF pointer = "active" THEN "older" ELSE pointer
        /\ UNCHANGED <<news, sec, job, rows, unpointed, troubles>>
    BY DEF Activate, Builders
  <1>2. /\ builder' \in [Builders -> BuilderRow]
        /\ \A c \in Builders : c # b => builder'[c] = builder[c]
        /\ builder'[b].at = "point" /\ builder'[b].mark = builder[b].mark
        /\ builder'[b].since = builder[b].since
        /\ builder'[b].todo = builder[b].todo
        /\ builder'[b].facets = builder[b].facets
    BY <1>1, GotoType DEF IInv, Stages
  <1>3. /\ gens' \in Seq(GenRow)
        /\ \A k \in DOMAIN gens' : gens'[k].status = "active" => gens'[k].by = b
    BY ActivatedGens DEF IInv
  <1>4. TypeOK'
    BY <1>1, <1>2, <1>3 DEF IInv, TypeOK, BuilderRow, GenRow
  <1>5. Known' /\ SeenBefore'
    BY <1>1, <1>2, KnowingStays
  <1>6. Pointing'
    <2>1. b # Nobody
      OBVIOUS
    <2> QED BY <1>2, <1>3, <2>1 DEF Pointing
  <1>7. Current'
    BY <1>1, <1>2, CurrentStays DEF IInv, Writing
  <1> QED BY <1>4, <1>5, <1>6, <1>7 DEF IInv

(* A builder goes, and its generation with it unless it is active: then    *)
(* the pointer has been written, or the flag tells that it has not.        *)
LEMMA LeavingIInv ==
  ASSUME IInv, NEW b \in Builders, builder[b].at # "away", Gone(b),
         gens' = Abandoned(b), UNCHANGED <<news, sec, job, rows>>,
         troubles' \in 0..MaxTroubles, unpointed' \in BOOLEAN,
         pointer' \in {"none", "active", "older"},
         \/ builder[b].at # "point" /\ UNCHANGED <<pointer, unpointed>>
         \/ Own(b) = {} /\ UNCHANGED <<pointer, unpointed>>
         \/ pointer' = "active" \/ unpointed'
  PROVE  IInv'
  <1>1. /\ builder' \in [Builders -> BuilderRow]
        /\ \A c \in Builders : c # b => builder'[c] = builder[c]
        /\ builder'[b].at = "away" /\ builder'[b].since = 0
        /\ builder'[b].todo = {}
    BY GoneType, IdleType DEF IInv
  <1>2. /\ gens' \in Seq(GenRow)
        /\ \A k \in DOMAIN gens' : \E g \in DOMAIN gens :
             LeftOf(gens'[k], gens[g], b)
    BY AbandonedGens DEF IInv
  <1>3. TypeOK'
    BY <1>1, <1>2 DEF IInv, TypeOK, BuilderRow, GenRow
  <1>4. Known' /\ SeenBefore'
    BY <1>1, KnowingStays
  <1>5. Pointing'
    <2> SUFFICES ASSUME NEW k \in DOMAIN gens', gens'[k].status = "active"
                 PROVE  IF gens'[k].by = Nobody
                        THEN pointer' = "active" \/ unpointed'
                        ELSE builder'[gens'[k].by].at = "point"
      BY DEF Pointing
    <2>1. PICK g \in DOMAIN gens : LeftOf(gens'[k], gens[g], b)
      BY <1>2
    <2>2. gens[g].status = "active" /\ b # Nobody
      BY <2>1 DEF LeftOf, Builders
    <2>3. gens[g].by \in Builders \cup {Nobody}
      <3>1. gens[g] \in GenRow
        BY Typed DEF IInv
      <3> QED BY <3>1 DEF GenRow, Builders
    <2>4. CASE gens[g].by = b
      <3>1. builder[b].at = "point" /\ g \in Own(b)
        BY <2>2, <2>4 DEF IInv, Pointing, Own
      <3>2. pointer' = "active" \/ unpointed'
        BY <3>1
      <3> QED BY <2>1, <2>4, <3>2 DEF LeftOf
    <2>5. CASE gens[g].by # b /\ gens[g].by # Nobody
      <3>1. gens'[k].by = gens[g].by
        BY <2>1, <2>5 DEF LeftOf
      <3>2. builder[gens[g].by].at = "point"
        BY <2>2, <2>5 DEF IInv, Pointing
      <3> QED BY <1>1, <2>3, <2>5, <3>1, <3>2
    <2>6. CASE gens[g].by = Nobody
      <3>1. gens'[k].by = Nobody
        BY <2>1, <2>2, <2>6 DEF LeftOf
      <3>2. pointer = "active" \/ unpointed
        BY <2>2, <2>6 DEF IInv, Pointing
      <3> QED BY <3>1, <3>2
    <2> QED BY <2>4, <2>5, <2>6
  <1>6. Current'
    BY <1>1, CurrentStays DEF IInv, Writing
  <1> QED BY <1>3, <1>4, <1>5, <1>6 DEF IInv

LEMMA ActivationFailsIInv ==
  ASSUME IInv, NEW b \in Schedulers, ActivationFails(b)
  PROVE  IInv'
  <1>1. /\ builder[b].at = "activate" /\ Gone(b) /\ gens' = Abandoned(b)
        /\ UNCHANGED <<news, sec, job, rows, pointer, unpointed, troubles>>
        /\ b \in Builders
    BY DEF ActivationFails, Builders
  <1>2. /\ troubles \in 0..MaxTroubles /\ unpointed \in BOOLEAN
        /\ pointer \in {"none", "active", "older"}
    BY Typed DEF IInv
  <1> QED BY <1>1, <1>2, LeavingIInv

LEMMA PointIInv ==
  ASSUME IInv, NEW b \in Schedulers, Point(b)
  PROVE  IInv'
  <1>1. /\ builder[b].at = "point" /\ Gone(b) /\ gens' = Abandoned(b)
        /\ pointer' = IF Own(b) # {} THEN "active" ELSE pointer
        /\ unpointed' = (unpointed /\ Own(b) = {})
        /\ UNCHANGED <<news, sec, job, rows, troubles>>
        /\ b \in Builders
    BY DEF Point, Pointed, Builders
  <1>2. /\ troubles \in 0..MaxTroubles /\ unpointed \in BOOLEAN
        /\ pointer \in {"none", "active", "older"}
    BY Typed DEF IInv
  <1>3. \/ pointer' = "active"
        \/ Own(b) = {} /\ pointer' = pointer /\ unpointed' = unpointed
    BY <1>1, <1>2
  <1>4. unpointed' \in BOOLEAN /\ pointer' \in {"none", "active", "older"}
    BY <1>1, <1>2
  <1> QED BY <1>1, <1>2, <1>3, <1>4, LeavingIInv

LEMMA StopsIInv ==
  ASSUME IInv, NEW b \in Builders, Stops(b)
  PROVE  IInv'
  <1>1. /\ builder[b].at # "away" /\ Gone(b) /\ gens' = Abandoned(b)
        /\ troubles < MaxTroubles /\ troubles' = troubles + 1
        /\ unpointed' = (unpointed \/ builder[b].at = "point")
        /\ UNCHANGED <<news, sec, job, rows, pointer>>
    BY DEF Stops
  <1>2. /\ troubles \in 0..MaxTroubles /\ unpointed \in BOOLEAN
        /\ pointer \in {"none", "active", "older"}
    BY Typed DEF IInv
  <1>3. troubles' \in 0..MaxTroubles
    BY <1>1, <1>2
  <1>4. /\ unpointed' \in BOOLEAN
        /\ unpointed' \/ (builder[b].at # "point" /\ unpointed' = unpointed)
    BY <1>1, <1>2
  <1> QED BY <1>1, <1>2, <1>3, <1>4, LeavingIInv

LEMMA TickIInv ==
  ASSUME IInv, Tick
  PROVE  IInv'
  <1>1. /\ sec < MaxSec /\ sec' = sec + 1
        /\ UNCHANGED <<news, job, rows, builder, gens, pointer, unpointed,
                       troubles>>
    BY DEF Tick
  <1>2. sec \in Nat /\ sec' \in 0..MaxSec
    BY <1>1, Typed DEF IInv
  <1>3. TypeOK'
    BY <1>1, <1>2 DEF IInv, TypeOK
  <1>4. Known'
    <2>1. \A b \in Builders : builder[b].since \in Nat /\ builder[b].since <= sec
      <3>1. \A b \in Builders : builder[b] \in BuilderRow
        BY Typed DEF IInv
      <3> QED BY <3>1 DEF IInv, Known, BuilderRow
    <2>2. \A b \in Builders : builder[b].since <= sec'
      BY <1>1, <1>2, <2>1
    <2> QED BY <1>1, <2>2 DEF IInv, Known
  <1>5. SeenBefore' /\ Pointing' /\ Current'
    BY <1>1 DEF IInv, SeenBefore, Pointing, Current, ReadsCurrent, OwnRows
  <1> QED BY <1>3, <1>4, <1>5 DEF IInv

LEMMA StepIInv == IInv /\ [Next]_vars => IInv'
  <1> SUFFICES ASSUME IInv, [Next]_vars PROVE IInv'
    OBVIOUS
  <1>1. CASE UNCHANGED vars
    BY <1>1
    DEF vars, IInv, TypeOK, Known, SeenBefore, Pointing, Current, ReadsCurrent,
        OwnRows
  <1>2. ASSUME NEW i \in Importers, Commit(i) \/ ComesAgain(i) \/ Settle(i)
        PROVE  IInv'
    BY <1>2, CommitIInv, ComesAgainIInv, MarkReadyIInv, MarkReadyFailsIInv,
       MarkPendingIInv
    DEF Settle
  <1>3. ASSUME NEW b \in Builders,
               Refresh(b) \/ LandLate(b) \/ RefreshFails(b) \/ Stops(b)
        PROVE  IInv'
    BY <1>3, StartIInv, ReadFacetsIInv, WriteRowIInv, EndIInv, LandLateIInv,
       RefreshFailsIInv, StopsIInv
    DEF Refresh
  <1>4. ASSUME NEW b \in Schedulers, Generate(b) \/ ReconcileFails(b)
        PROVE  IInv'
    BY <1>4, ReconcileIInv, ReconcileFailsIInv, CopyIInv, LeaveUnchangedIInv,
       InsertIInv, ActivateIInv, ActivationFailsIInv, PointIInv
    DEF Generate
  <1>5. CASE Tick
    BY <1>5, TickIInv
  <1> QED BY <1>1, <1>2, <1>3, <1>4, <1>5 DEF Next

(* Jobs, rows, builders and generations keep their types, no version is    *)
(* from the future, what is active and what is seen is accounted for, and  *)
(* a task's own rows have its watermark unless another refresh has crossed *)
(* its own.                                                                *)
THEOREM SnapshotInvariance == Spec => []IInv
  <1> QED BY InitIInv, StepIInv, PTL DEF Spec

(* The pointer names the active generation when nobody is about to write   *)
(* it, unless a builder was stopped right before that, however many        *)
(* builders activate at once (the writing of active:snapshot-generation    *)
(* after the activation).                                                  *)
THEOREM PointerStaysTold == Spec => []PointerTells
  <1>1. ASSUME IInv, \A b \in Builders : builder[b].at # "point", ~unpointed
        PROVE  Active = {} \/ pointer = "active"
    <2> SUFFICES ASSUME NEW g \in DOMAIN gens, gens[g].status = "active"
                 PROVE  pointer = "active"
      BY DEF Active
    <2>1. gens[g].by \in Builders \cup {Nobody}
      <3>1. gens[g] \in GenRow
        BY <1>1, Typed DEF IInv
      <3> QED BY <3>1 DEF GenRow, Builders
    <2> QED BY <1>1, <2>1 DEF IInv, Pointing
  <1>2. IInv => PointerTells
    BY <1>1 DEF PointerTells
  <1> QED BY <1>2, InitIInv, StepIInv, PTL DEF Spec

(* What a task copies into a generation is at least as new as the latest   *)
(* watermark among the rows, whatever commits between the reads of a       *)
(* refresh and wherever one fails, unless another refresh has crossed the  *)
(* task's own (refreshPublicReadSnapshots,                                 *)
(* buildAndActivateShadowSnapshotGeneration).                              *)
THEOREM CopiesStayCurrent == Spec => CopiedIsCurrent
  <1> DEFINE A == \A s \in Schedulers :
                    Copy(s) /\ ~builder[s].mixed =>
                      \A r \in Rows : rows[r].version >= builder'[s].mark
  <1>1. ASSUME IInv PROVE A
    <2> SUFFICES ASSUME NEW s \in Schedulers, Copy(s), ~builder[s].mixed,
                        NEW r \in Rows
                 PROVE  rows[r].version >= builder'[s].mark
      OBVIOUS
    <2>1. PICK late \in Rows :
            builder' = [builder EXCEPT ![s] = [Idle EXCEPT !.at = "compare",
                                                 !.mark = rows[late].mark]]
      BY DEF Copy
    <2>2. builder'[s].mark = rows[late].mark
      <3>1. builder \in [Builders -> BuilderRow] /\ s \in Builders
        BY <1>1, Typed DEF IInv, Builders
      <3> QED BY <2>1, <3>1 DEF Idle
    <2>3. rows[late].mark = builder[s].mark /\ rows[r].mark = builder[s].mark
      BY <1>1 DEF IInv, Current, OwnRows, Writing, Copy
    <2>4. rows[r].mark <= rows[r].version
      BY <1>1 DEF IInv, Current
    <2>5. rows[r].mark \in Nat /\ rows[r].version \in Nat
      <3>1. rows[r] \in Row
        BY <1>1, Typed DEF IInv
      <3> QED BY <3>1 DEF Row, Versions
    <2> QED BY <2>2, <2>3, <2>4, <2>5
  <1>2. [Next]_vars /\ IInv => [A]_vars
    BY <1>1
  <1> QED BY <1>2, InitIInv, StepIInv, PTL DEF Spec, CopiedIsCurrent

(* A job that a task reclaims is one that its refresh has seen, unless it  *)
(* was marked in the very second in which the refresh started              *)
(* (reconcileSnapshotPendingJobs and its cutoff).                          *)
THEOREM ReclaimedStaysShown == Spec => ReclaimedIsShown
  <1> DEFINE A == \A b \in Schedulers, i \in Importers :
                    Reconcile(b) /\ job[i].status = "pending"
                      /\ job'[i].status # "pending"
                      => \/ job[i].version <= builder[b].mark
                         \/ job[i].since = builder[b].since
  <1>1. ASSUME IInv PROVE A
    <2> SUFFICES ASSUME NEW b \in Schedulers, NEW i \in Importers, Reconcile(b),
                        job[i].status = "pending", job'[i].status # "pending"
                 PROVE  \/ job[i].version <= builder[b].mark
                        \/ job[i].since = builder[b].since
      OBVIOUS
    <2>1. i \in Reclaimed(b)
      BY DEF Reconcile
    <2>2. job[i].since <= builder[b].since
      BY <2>1 DEF Reclaimed, Cutoff
    <2>3. job[i] \in JobRow /\ builder[b] \in BuilderRow
      BY <1>1, Typed DEF IInv, Builders
    <2>4. job[i].since \in Nat /\ builder[b].since \in Nat
      BY <2>3 DEF JobRow, BuilderRow
    <2>5. job[i].since = builder[b].since \/ job[i].since < builder[b].since
      BY <2>2, <2>4
    <2> QED BY <1>1, <2>5 DEF IInv, SeenBefore
  <1>2. [Next]_vars /\ IInv => [A]_vars
    BY <1>1
  <1> QED BY <1>2, InitIInv, StepIInv, PTL DEF Spec, ReclaimedIsShown
=============================================================================
