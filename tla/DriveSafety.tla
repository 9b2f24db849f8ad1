----------------------------- MODULE DriveSafety -----------------------------
(***************************************************************************)
(* Drive's store, for any number of uploads, streams, blobs and faults:    *)
(* refcounts are exact and no stale token is accepted, whatever crashes,   *)
(* purges, replays and losses of the index lie in between; and what was    *)
(* answered survives them, but a loss after an earlier one and a purge.    *)
(* While no commit failed, no append was cut and nothing was purged, the   *)
(* journal alone gives the index back.                                     *)
(***************************************************************************)
EXTENDS DriveStore, SequenceTheorems, FiniteSetTheorems, WellFoundedInduction, TLAPS

-----------------------------------------------------------------------------
(* Numbers.                                                                *)

(* Numbers by size.                                                        *)
Below == {p \in Nat \X Nat : p[1] < p[2]}

(* A set of numbers that is not empty has a least one.                     *)
LEMMA LeastNumber ==
  ASSUME NEW T \in SUBSET Nat, T # {}
  PROVE  \E n \in T : \A m \in T : n <= m
<1>1. IsWellFoundedOn(Below, Nat)
  <2>1. Below = OpToRel(<, Nat)
    BY DEF Below, OpToRel
  <2>2. QED
    BY <2>1, NatLessThanWellFounded
<1>2. \E n \in T : \A m \in T : <<m, n>> \notin Below
  BY <1>1, WFMin
<1>3. \A m, n \in T : <<m, n>> \notin Below => n <= m
  <2> TAKE m \in T, n \in T
  <2>1. <<m, n>> \in Nat \X Nat
    OBVIOUS
  <2>2. m < n => <<m, n>> \in Below
    BY <2>1 DEF Below
  <2>3. QED
    BY <2>2
<1>4. QED
  BY <1>2, <1>3

(* What holds at 0 and goes from each number to the next holds up to any.  *)
LEMMA UpTo ==
  ASSUME NEW k \in Nat, NEW G, 0 \in G,
         \A n \in 0..k : n # k /\ n \in G => n + 1 \in G
  PROVE  0..k \subseteq G
<1> SUFFICES ASSUME (0..k) \ G # {} PROVE FALSE
  OBVIOUS
<1> DEFINE Rest == (0..k) \ G
<1>1. PICK n \in Rest : \A m \in Rest : n <= m
  <2>1. Rest \in SUBSET Nat /\ Rest # {}
    OBVIOUS
  <2> HIDE DEF Rest
  <2>2. QED
    BY <2>1, LeastNumber
<1>2. n # 0 /\ n - 1 \in 0..k /\ n - 1 # k
  BY <1>1
<1>3. n - 1 \in G
  BY <1>1, <1>2
<1>4. (n - 1) + 1 \in G
  BY <1>2, <1>3
<1>5. QED
  BY <1>1, <1>4

(* A finite set of numbers that is not empty has a greatest one.           *)
LEMMA GreatestNumber ==
  ASSUME NEW T \in SUBSET Nat, T # {}, IsFiniteSet(T)
  PROVE  Max(T) \in T /\ \A n \in T : Max(T) >= n
<1> DEFINE Bad == {S \in SUBSET Nat : /\ IsFiniteSet(S) /\ S # {}
                                      /\ \A x \in S : \E y \in S : ~(x >= y)}
           Sizes == {Cardinality(S) : S \in Bad}
<1>1. ASSUME Bad # {} PROVE FALSE
  <2>1. Sizes \in SUBSET Nat /\ Sizes # {}
    BY <1>1, FS_CardinalityType
  <2>2. PICK c \in Sizes : \A d \in Sizes : c <= d
    BY <2>1, LeastNumber
  <2>3. PICK S \in Bad : Cardinality(S) = c
    BY <2>2
  <2>4. PICK x \in S : TRUE
    BY <2>3
  <2> DEFINE R == S \ {x}
  <2>5. IsFiniteSet(R) /\ Cardinality(R) = c - 1 /\ c \in Nat
    BY <2>3, <2>4, FS_RemoveElement, FS_CardinalityType
  <2>6. R \notin Bad
    <3>1. ASSUME R \in Bad PROVE c <= c - 1
      BY <2>2, <2>5, <3>1
    <3>2. QED
      BY <2>5, <3>1
  <2>7. R \in SUBSET Nat /\ x \in Nat
    BY <2>3, <2>4
  <2>8. CASE R = {}
    BY <2>3, <2>4, <2>7, <2>8
  <2>9. CASE R # {}
    <3>1. PICK m \in R : \A y \in R : m >= y
      BY <2>5, <2>6, <2>7, <2>9
    <3>2. m \in Nat /\ m \in S
      BY <2>7, <3>1
    <3>3. PICK y \in S : ~(m >= y)
      BY <2>3, <3>2
    <3>4. y = x
      BY <3>1, <3>3
    <3>5. \A z \in S : x >= z
      BY <2>7, <3>1, <3>2, <3>3, <3>4
    <3>6. QED
      BY <2>3, <2>4, <3>5
  <2>10. QED
    BY <2>8, <2>9
<1>2. \E x \in T : \A y \in T : x >= y
  BY <1>1
<1>3. QED
  BY <1>2 DEF Max

-----------------------------------------------------------------------------
(* The replay.                                                             *)

(* The index after the first n lines is the n-th stage, for any number of  *)
(* lines: the recursion has a solution.                                    *)
LEMMA StagesStep ==
  ASSUME NEW d, Len(journal) \in Nat
  PROVE  /\ Stages(d)[0] = [ok |-> TRUE, d |-> d]
         /\ \A n \in 0..Len(journal) : n # Len(journal) =>
              Stages(d)[n + 1] = Step(Stages(d)[n], journal[n + 1])
<1> DEFINE L == Len(journal)
           start == [ok |-> TRUE, d |-> d]
           Solves(f, k) ==
             f = [n \in 0..k |-> IF n = 0 THEN start ELSE Step(f[n - 1], journal[n])]
           G == {k \in 0..L : \E f : Solves(f, k)}
<1>1. 0 \in G
  <2> DEFINE f == [n \in 0..0 |-> start]
  <2>1. Solves(f, 0)
    OBVIOUS
  <2>2. 0 \in 0..L
    OBVIOUS
  <2> HIDE DEF start
  <2>3. \E h : Solves(h, 0)
    BY <2>1
  <2>4. QED
    BY <2>2, <2>3
<1>2. ASSUME NEW k \in 0..L, k # L, k \in G PROVE k + 1 \in G
  <2>1. PICK f : Solves(f, k)
    BY <1>2
  <2> DEFINE g == [n \in 0..(k + 1) |-> IF n <= k THEN f[n] ELSE Step(f[k], journal[k + 1])]
  <2> HIDE DEF start
  <2>2. \A n \in 0..k : g[n] = f[n]
    OBVIOUS
  <2>3. \A n \in 0..k : f[n] = IF n = 0 THEN start ELSE Step(f[n - 1], journal[n])
    BY <2>1
  <2>4. \A n \in 0..(k + 1) : g[n] = IF n = 0 THEN start ELSE Step(g[n - 1], journal[n])
    <3> SUFFICES ASSUME NEW n \in 0..(k + 1)
                 PROVE  g[n] = IF n = 0 THEN start ELSE Step(g[n - 1], journal[n])
      OBVIOUS
    <3>1. CASE n = 0
      BY <2>2, <2>3, <3>1
    <3>2. CASE n # 0 /\ n <= k
      <4>1. n \in 0..k /\ n - 1 \in 0..k
        BY <3>2
      <4>2. QED
        BY <2>2, <2>3, <3>2, <4>1
    <3>3. CASE n = k + 1
      <4>1. n - 1 = k /\ k \in 0..k /\ n # 0 /\ ~(n <= k)
        BY <3>3
      <4>2. g[n - 1] = f[k]
        BY <2>2, <4>1
      <4>3. g[n] = Step(f[k], journal[k + 1])
        BY <4>1
      <4>4. QED
        BY <3>3, <4>1, <4>2, <4>3
    <3>4. QED
      BY <3>1, <3>2, <3>3
  <2>5. Solves(g, k + 1)
    <3> HIDE DEF start
    <3>1. g = [n \in 0..(k + 1) |-> g[n]]
      OBVIOUS
    <3> HIDE DEF g
    <3>2. QED
      BY <2>4, <3>1
  <2>6. k + 1 \in 0..L
    BY <1>2
  <2>7. QED
    BY <2>5, <2>6
<1>3. L \in G
  <2> HIDE DEF G
  <2>1. 0..L \subseteq G
    BY <1>1, <1>2, UpTo
  <2>2. QED
    BY <2>1
<1>4. Solves(Stages(d), L)
  <2>1. \E f : Solves(f, L)
    BY <1>3
  <2>2. Stages(d) = CHOOSE f : Solves(f, L)
    BY DEF Stages
  <2>3. QED
    BY <2>1, <2>2
<1>5. \A n \in 0..L : Stages(d)[n] =
        IF n = 0 THEN start ELSE Step(Stages(d)[n - 1], journal[n])
  <2> DEFINE f == Stages(d)
  <2> HIDE DEF f, start
  <2>1. QED
    BY <1>4 DEF f
<1>6. Stages(d)[0] = start
  <2>1. 0 \in 0..L
    OBVIOUS
  <2> HIDE DEF start
  <2>2. QED
    BY <1>5, <2>1
<1>7. ASSUME NEW n \in 0..L, n # L
      PROVE  Stages(d)[n + 1] = Step(Stages(d)[n], journal[n + 1])
  <2>1. n + 1 \in 0..L /\ n + 1 # 0 /\ (n + 1) - 1 = n
    BY <1>7
  <2> HIDE DEF start
  <2>2. QED
    BY <1>5, <2>1
<1>8. QED
  BY <1>6, <1>7
-----------------------------------------------------------------------------
(* The index.                                                              *)

(* What an index is made of: versions with bytes and delete markers, each  *)
(* with an id of its own kind, upload rows, and the tables over them.      *)
VersionId == Put \cup (Artifact \X Nat)
MarkerSet ==
  [id : Artifact \X Nat, art : Artifact, seq : Nat, sha : {None},
   op : Artifact \X Nat, token : {None}]
UploadState == {"none", "pending", "committed", "aborted", "expired"}
UploadRow ==
  [state : UploadState, art : Artifact \cup {None}, name : Name \cup {None},
   token : Tokens \cup {None}, bytes : 0..1]

Index ==
  [row : [Artifact -> Name \cup {None}],
   current : [Artifact -> VersionId \cup {None}],
   versions : SUBSET (VersionSet \cup MarkerSet),
   refs : [Sha -> Nat \cup {-1}], fence : Nat \cup {-1},
   upload : [Upload -> UploadRow], idle : SUBSET Upload, daily : 0..Quota]

(* An upload that was registered has an artifact, a name and a token; what *)
(* is counted is finite.                                                   *)
Registered(r) == r.art \in Artifact /\ r.name \in Name /\ r.token \in Tokens
IndexOK(d) ==
  /\ d \in Index /\ IsFiniteSet(d.versions) /\ IsFiniteSet(d.idle)
  /\ \A u \in Upload : d.upload[u].state # "none" => Registered(d.upload[u])
  /\ \A u \in d.idle : d.upload[u].state # "none"

(* The index of a new volume.                                              *)
LEMMA EmptyOK == IndexOK(EmptyIndex)
BY DriveAssumption, FS_EmptySet
   DEF EmptyIndex, IndexOK, Index, NoUpload, UploadRow, UploadState

(* Uploads and their idle marks change, and nothing else.                  *)
Sessions(d, upload, idle) == [d EXCEPT !.upload = upload, !.idle = idle]
LEMMA SessionsOK ==
  ASSUME NEW d, IndexOK(d), NEW upload \in [Upload -> UploadRow],
         NEW idle \in SUBSET d.idle,
         \A u \in Upload : /\ upload[u].state # "none" => Registered(upload[u])
                           /\ d.upload[u].state # "none" => upload[u].state # "none"
  PROVE  IndexOK(Sessions(d, upload, idle))
<1> DEFINE e == Sessions(d, upload, idle)
<1>1. e \in Index
  BY DEF Sessions, IndexOK, Index
<1>2. e.idle = idle /\ e.upload = upload /\ e.versions = d.versions
  BY DEF Sessions, IndexOK, Index
<1>3. IsFiniteSet(e.idle)
  BY <1>2, FS_Subset DEF IndexOK
<1>4. d.idle \subseteq Upload
  BY DEF IndexOK, Index
<1>5. QED
  BY <1>1, <1>2, <1>3, <1>4 DEF IndexOK

(* A touch of a registered upload.                                         *)
LEMMA TouchedOK ==
  ASSUME NEW d, IndexOK(d), NEW u \in Upload, d.upload[u].state # "none", NEW n \in 0..1
  PROVE  IndexOK(Touched(d, u, n)) /\ Touched(d, u, n).upload[u].state = d.upload[u].state
<1> DEFINE U == [d.upload EXCEPT ![u].bytes = n]
<1>1. Touched(d, u, n) = Sessions(d, U, d.idle \ {u})
  BY DEF Touched, Sessions, IndexOK, Index
<1>2. U \in [Upload -> UploadRow]
  BY DEF IndexOK, Index, UploadRow
<1>3. \A w \in Upload : /\ U[w].state = d.upload[w].state
                        /\ Registered(d.upload[w]) => Registered(U[w])
  BY DEF IndexOK, Index, UploadRow, Registered
<1>4. IndexOK(Sessions(d, U, d.idle \ {u}))
  <2> HIDE DEF U
  <2>1. QED
    BY <1>2, <1>3, SessionsOK DEF IndexOK
<1>5. Sessions(d, U, d.idle \ {u}).upload = U
  BY DEF Sessions, IndexOK, Index
<1>6. QED
  BY <1>1, <1>3, <1>4, <1>5

(* A refund.                                                               *)
LEMMA ReleasedOK ==
  ASSUME NEW d, IndexOK(d), NEW n \in Nat
  PROVE  IndexOK(Released(d, n))
BY DriveAssumption DEF Released, IndexOK, Index

(* An abort.                                                               *)
LEMMA AbortedOK ==
  ASSUME NEW d, IndexOK(d), NEW u \in Upload, d.upload[u].state # "none"
  PROVE  IndexOK(Aborted(d, u))
<1>1. CASE d.upload[u].state = "committed"
  BY <1>1 DEF Aborted
<1>2. CASE d.upload[u].state # "committed"
  <2> DEFINE U == [d.upload EXCEPT ![u].state = "aborted"]
  <2>1. [d EXCEPT !.upload[u].state = "aborted", !.idle = @ \ {u}]
          = Sessions(d, U, d.idle \ {u})
    BY DEF Sessions, IndexOK, Index
  <2>2. U \in [Upload -> UploadRow]
    BY DEF IndexOK, Index, UploadRow, UploadState
  <2>3. \A w \in Upload : /\ w # u => U[w] = d.upload[w]
                          /\ Registered(d.upload[w]) => Registered(U[w])
                          /\ d.upload[w].state # "none" => U[w].state # "none"
    BY DEF IndexOK, Index, UploadRow, Registered
  <2>4. IndexOK(Sessions(d, U, d.idle \ {u}))
    <3> HIDE DEF U
    <3>1. QED
      BY <2>2, <2>3, SessionsOK DEF IndexOK
  <2>5. d.upload[u].bytes \in Nat
    BY DEF IndexOK, Index, UploadRow
  <2>6. QED
    BY <1>2, <2>1, <2>4, <2>5, ReleasedOK DEF Aborted
<1>3. QED
  BY <1>1, <1>2

(* Of two numbers, the greater.                                            *)
LEMMA MaxOfTwo ==
  ASSUME NEW m \in Int, NEW n \in Int
  PROVE  Max({m, n}) \in {m, n} /\ Max({m, n}) >= m /\ Max({m, n}) >= n
<1>1. \E x \in {m, n} : \A y \in {m, n} : x >= y
  OBVIOUS
<1>2. QED
  BY <1>1 DEF Max

(* A token that is not a person's is a number.                             *)
LEMMA TokenIsNumber ==
  ASSUME NEW t \in Tokens, t # None
  PROVE  t \in Nat
BY DriveAssumption

(* The fence only rises, and to the token at least.                        *)
LEMMA FenceRises ==
  ASSUME NEW d, d.fence \in Nat \cup {-1}, NEW t \in Tokens \cup {None}
  PROVE  /\ Raised(d, t) \in Nat \cup {-1} /\ Raised(d, t) >= d.fence
         /\ t # None => Raised(d, t) >= t
<1>1. CASE t = None
  BY <1>1 DEF Raised
<1>2. CASE t # None
  <2>1. t \in Nat /\ t \in Int /\ d.fence \in Int
    BY <1>2, DriveAssumption
  <2>2. Raised(d, t) = Max({d.fence, t})
    BY <1>2 DEF Raised
  <2>3. QED
    BY <2>1, <2>2, MaxOfTwo
<1>3. QED
  BY <1>1, <1>2

(* Version numbers are numbers.                                            *)
LEMMA NextSeqOK ==
  ASSUME NEW d, IndexOK(d), NEW a
  PROVE  NextSeq(d, a) \in Nat /\ \A v \in RowsOf(d, a) : v.seq < NextSeq(d, a)
<1> DEFINE T == {0} \cup {v.seq : v \in RowsOf(d, a)}
<1>1. IsFiniteSet(RowsOf(d, a))
  BY FS_Subset DEF IndexOK, RowsOf
<1>2. IsFiniteSet({v.seq : v \in RowsOf(d, a)})
  <2> DEFINE f == [v \in RowsOf(d, a) |-> v.seq]
  <2>1. f \in Surjection(RowsOf(d, a), {v.seq : v \in RowsOf(d, a)})
    BY DEF Surjection
  <2>2. QED
    BY <1>1, <2>1, FS_Surjection
<1>3. IsFiniteSet(T)
  BY <1>2, FS_Singleton, FS_Union
<1>4. T \in SUBSET Nat /\ T # {}
  BY DEF RowsOf, IndexOK, Index, VersionSet, MarkerSet
<1>5. Max(T) \in Nat /\ \A n \in T : Max(T) >= n
  <2> HIDE DEF T
  <2>1. QED
    BY <1>3, <1>4, GreatestNumber
<1>6. QED
  BY <1>4, <1>5 DEF NextSeq

-----------------------------------------------------------------------------
(* Versions and refcounts.                                                 *)

(* The refcounts of the index, and what is left of them while it is being  *)
(* replayed.                                                               *)
RefsExact(d) ==
  \A s \in Sha : IF d.refs[s] = -1 THEN Uses(d, s) = {}
                 ELSE d.refs[s] = Cardinality(Uses(d, s))
Named(d) == \A v \in d.versions : v.sha \in Sha => d.refs[v.sha] # -1

(* What uses a blob is finite.                                             *)
LEMMA UsesFinite ==
  ASSUME NEW d, IndexOK(d), NEW s
  PROVE  IsFiniteSet(Uses(d, s)) /\ Cardinality(Uses(d, s)) \in Nat
<1>1. Uses(d, s) \subseteq d.versions
  BY DEF Uses
<1>2. QED
  BY <1>1, FS_Subset, FS_CardinalityType DEF IndexOK

(* The same versions and refcounts are as exact as before.                 *)
LEMMA RefsKept ==
  ASSUME NEW d, NEW e, RefsExact(d), e.versions = d.versions, e.refs = d.refs
  PROVE  RefsExact(e)
BY DEF RefsExact, Uses

(* A commit adds its version, counts it and raises the fence.              *)
LEMMA CommittedOK ==
  ASSUME NEW d, IndexOK(d), NEW u \in Upload, d.upload[u].state # "none", NEW v \in VersionSet
  PROVE  /\ IndexOK(Committed(d, u, v))
         /\ Committed(d, u, v).versions = d.versions \cup {v}
         /\ Committed(d, u, v).fence = Raised(d, v.token)
         /\ RefsExact(d) /\ v \notin d.versions => RefsExact(Committed(d, u, v))
<1> DEFINE e == Committed(d, u, v)
           U == [d.upload EXCEPT ![u].state = "committed"]
           F == Raised(d, v.token)
           R == [d.refs EXCEPT ![v.sha] = IF @ = -1 THEN 1 ELSE @ + 1]
           C == [d.current EXCEPT ![v.art] = v.id]
<1>1. /\ v.id \in VersionId /\ v.sha \in Sha /\ v.art \in Artifact
      /\ v.token \in Tokens \cup {None}
  BY DEF VersionSet, VersionId
<1>2. F \in Nat \cup {-1}
  BY <1>1, FenceRises DEF IndexOK, Index
<1>3. U \in [Upload -> UploadRow]
  BY DEF IndexOK, Index, UploadRow, UploadState
<1>4. \A w \in Upload : /\ w # u => U[w] = d.upload[w]
                        /\ Registered(d.upload[w]) => Registered(U[w])
                        /\ d.upload[w].state # "none" => U[w].state # "none"
  BY DEF IndexOK, Index, UploadRow, Registered
<1>5. R \in [Sha -> Nat \cup {-1}] /\ C \in [Artifact -> VersionId \cup {None}]
  BY <1>1 DEF IndexOK, Index
<1>6. e = [d EXCEPT !.versions = d.versions \cup {v}, !.refs = R, !.current = C,
                    !.fence = F, !.upload = U, !.idle = d.idle \ {u}]
  BY DEF Committed, IndexOK, Index
<1>7. /\ e \in Index /\ e.versions = d.versions \cup {v} /\ e.idle = d.idle \ {u}
      /\ e.refs = R /\ e.fence = F /\ e.upload = U
  <2> HIDE DEF R, C, F, U, e
  <2>1. QED
    BY <1>2, <1>3, <1>5, <1>6 DEF IndexOK, Index
<1>8. IsFiniteSet(e.versions) /\ IsFiniteSet(e.idle)
  <2>1. IsFiniteSet(d.versions \cup {v})
    BY FS_AddElement DEF IndexOK
  <2>2. IsFiniteSet(d.idle \ {u})
    BY FS_RemoveElement DEF IndexOK
  <2>3. QED
    BY <1>7, <2>1, <2>2
<1>9. IndexOK(e)
  <2> HIDE DEF U, e
  <2>1. d.idle \subseteq Upload
    BY DEF IndexOK, Index
  <2>2. QED
    BY <1>4, <1>7, <1>8, <2>1 DEF IndexOK
<1>10. ASSUME RefsExact(d), v \notin d.versions PROVE RefsExact(e)
  <2> SUFFICES ASSUME NEW s \in Sha
               PROVE  IF R[s] = -1 THEN Uses(e, s) = {} ELSE R[s] = Cardinality(Uses(e, s))
    BY <1>7 DEF RefsExact
  <2>1. CASE s = v.sha
    <3>1. Uses(e, s) = Uses(d, s) \cup {v} /\ v \notin Uses(d, s)
      BY <1>7, <1>10, <2>1 DEF Uses
    <3>2. Cardinality(Uses(e, s)) = Cardinality(Uses(d, s)) + 1
      BY <3>1, UsesFinite, FS_AddElement
    <3>3. R[s] = IF d.refs[s] = -1 THEN 1 ELSE d.refs[s] + 1
      BY <2>1 DEF IndexOK, Index
    <3>4. d.refs[s] = -1 => Cardinality(Uses(d, s)) = 0
      BY <1>10, FS_EmptySet DEF RefsExact
    <3>5. d.refs[s] # -1 => d.refs[s] = Cardinality(Uses(d, s))
      BY <1>10 DEF RefsExact
    <3>6. Cardinality(Uses(d, s)) \in Nat
      BY UsesFinite
    <3>7. QED
      BY <3>2, <3>3, <3>4, <3>5, <3>6
  <2>2. CASE s # v.sha
    <3>1. Uses(e, s) = Uses(d, s) /\ R[s] = d.refs[s]
      BY <1>7, <2>2 DEF Uses, IndexOK, Index
    <3>2. QED
      BY <1>10, <3>1 DEF RefsExact
  <2>3. QED
    BY <2>1, <2>2
<1>11. QED
  BY <1>7, <1>9, <1>10

(* A delete marker is a version of no blob.                                *)
Marked(d, a, m) == [d EXCEPT !.versions = @ \cup {m}, !.current[a] = None]
LEMMA MarkedOK ==
  ASSUME NEW d, IndexOK(d), RefsExact(d), NEW a \in Artifact, NEW m \in MarkerSet
  PROVE  LET e == Marked(d, a, m) IN IndexOK(e) /\ RefsExact(e) /\ e.fence = d.fence
<1> DEFINE e == Marked(d, a, m)
           C == [d.current EXCEPT ![a] = None]
<1>1. C \in [Artifact -> VersionId \cup {None}]
  BY DEF IndexOK, Index
<1> DEFINE V == d.versions \cup {m}
<1>2. e = [d EXCEPT !.versions = V, !.current = C]
  BY DEF Marked, IndexOK, Index
<1>V. V \in SUBSET (VersionSet \cup MarkerSet)
  BY DEF IndexOK, Index
<1>3. /\ e \in Index /\ e.versions = V /\ e.idle = d.idle
      /\ e.refs = d.refs /\ e.fence = d.fence /\ e.upload = d.upload
  <2> HIDE DEF C, V, e
  <2>1. QED
    BY <1>1, <1>2, <1>V DEF IndexOK, Index
<1>4. IsFiniteSet(e.versions)
  BY <1>3, FS_AddElement DEF IndexOK
<1>5. \A s \in Sha : Uses(e, s) = Uses(d, s)
  BY <1>3, DriveAssumption DEF Uses, MarkerSet
<1>6. QED
  BY <1>3, <1>4, <1>5 DEF IndexOK, RefsExact

(* A pointer is moved.                                                     *)
LEMMA PointedOK ==
  ASSUME NEW d, IndexOK(d), NEW a \in Artifact, NEW id \in VersionId \cup {None},
         NEW e, e = [d EXCEPT !.current[a] = id]
  PROVE  /\ IndexOK(e) /\ e.fence = d.fence /\ e.versions = d.versions /\ e.refs = d.refs
         /\ e.row = d.row /\ e.upload = d.upload
<1> DEFINE C == [d.current EXCEPT ![a] = id]
<1>1. C \in [Artifact -> VersionId \cup {None}]
  BY DEF IndexOK, Index
<1>2. e = [d EXCEPT !.current = C]
  BY DEF IndexOK, Index
<1>3. /\ e \in Index /\ e.versions = d.versions /\ e.idle = d.idle
      /\ e.refs = d.refs /\ e.fence = d.fence /\ e.upload = d.upload
  <2> HIDE DEF C
  <2>1. QED
    BY <1>1, <1>2 DEF IndexOK, Index
<1>4. QED
  BY <1>3 DEF IndexOK

(* Chains that are purged take their uses with them.                       *)
LEMMA ChainsPurgedOK ==
  ASSUME NEW d, IndexOK(d), RefsExact(d), NEW C \in SUBSET Artifact
  PROVE  LET e == ChainsPurged(d, C)
         IN  /\ IndexOK(e) /\ RefsExact(e) /\ e.fence = d.fence
             /\ e.versions = d.versions \ Dropped(d, C)
<1> DEFINE e == ChainsPurged(d, C)
           V == d.versions \ Dropped(d, C)
           A == [a \in Artifact |-> IF a \in C THEN None ELSE d.row[a]]
           R == [s \in Sha |-> IF d.refs[s] = -1 THEN -1 ELSE Counted(d, C, s)]
<1>1. e = [d EXCEPT !.versions = V, !.row = A, !.refs = R]
  BY DEF ChainsPurged
<1>2. ASSUME NEW s \in Sha
      PROVE  /\ R[s] \in Nat \cup {-1}
             /\ IF R[s] = -1 THEN Uses(d, s) \ Dropped(d, C) = {}
                ELSE R[s] = Cardinality(Uses(d, s) \ Dropped(d, C))
  <2> DEFINE gone == Uses(d, s) \cap Dropped(d, C)
             kept == Uses(d, s) \ Dropped(d, C)
  <2>1. /\ IsFiniteSet(Uses(d, s)) /\ IsFiniteSet(gone) /\ IsFiniteSet(kept)
        /\ Cardinality(gone) \in Nat /\ Cardinality(kept) \in Nat
    <3>1. IsFiniteSet(Uses(d, s))
      BY UsesFinite
    <3>2. gone \subseteq Uses(d, s) /\ kept \subseteq Uses(d, s)
      OBVIOUS
    <3>3. QED
      BY <3>1, <3>2, FS_Subset, FS_CardinalityType
  <2>2. Cardinality(Uses(d, s)) = Cardinality(gone) + Cardinality(kept)
    <3>1. Uses(d, s) = gone \cup kept /\ gone \cap kept = {}
      OBVIOUS
    <3> HIDE DEF gone, kept
    <3>2. Cardinality(gone \cup kept) = Cardinality(gone) + Cardinality(kept) - Cardinality({})
      BY <2>1, <3>1, FS_Union
    <3>3. QED
      BY <2>1, <3>1, <3>2, FS_EmptySet
  <2>3. CASE d.refs[s] = -1
    BY <2>3 DEF RefsExact
  <2>4. CASE d.refs[s] # -1
    <3>1. d.refs[s] = Cardinality(gone) + Cardinality(kept)
      BY <2>2, <2>4 DEF RefsExact
    <3>2. Counted(d, C, s) = Cardinality(kept)
      <4> DEFINE n == Cardinality(gone)
                 k == Cardinality(kept)
      <4>1. Counted(d, C, s) = IF d.refs[s] - n > 0 THEN d.refs[s] - n ELSE 0
        BY DEF Counted
      <4>2. n \in Nat /\ k \in Nat /\ d.refs[s] = n + k
        BY <2>1, <3>1
      <4> HIDE DEF n, k, gone, kept
      <4>3. Counted(d, C, s) = k
        BY <4>1, <4>2
      <4>4. QED
        BY <4>3 DEF k
    <3>3. R[s] = Cardinality(kept)
      BY <2>4, <3>2
    <3>4. QED
      BY <2>1, <3>3
  <2>5. QED
    BY <2>3, <2>4
<1>3. /\ A \in [Artifact -> Name \cup {None}] /\ R \in [Sha -> Nat \cup {-1}]
      /\ V \in SUBSET (VersionSet \cup MarkerSet)
  <2>1. R \in [Sha -> Nat \cup {-1}]
    <3> SUFFICES \A s \in Sha : R[s] \in Nat \cup {-1}
      OBVIOUS
    <3> HIDE DEF R
    <3>1. QED
      BY <1>2
  <2>2. QED
    BY <2>1 DEF IndexOK, Index
<1>4. /\ e \in Index /\ e.versions = V /\ e.refs = R /\ e.fence = d.fence
      /\ e.idle = d.idle /\ e.upload = d.upload
  <2> HIDE DEF V, A, R, e
  <2>1. QED
    BY <1>1, <1>3 DEF IndexOK, Index
<1>5. IsFiniteSet(e.versions)
  <2>1. IsFiniteSet(V)
    BY FS_Subset DEF IndexOK
  <2>2. QED
    BY <1>4, <2>1
<1>6. IndexOK(e)
  <2> HIDE DEF e
  <2>1. QED
    BY <1>4, <1>5 DEF IndexOK
<1>7. RefsExact(e)
  <2>1. \A s \in Sha : Uses(e, s) = Uses(d, s) \ Dropped(d, C)
    <3> HIDE DEF e
    <3>1. QED
      BY <1>4 DEF Uses
  <2> HIDE DEF e, R
  <2>2. QED
    BY <1>2, <1>4, <2>1 DEF RefsExact
<1>8. QED
  BY <1>4, <1>6, <1>7

(* Rows nothing refers to may go.                                          *)
LEMMA BlobsPurgedOK ==
  ASSUME NEW d, IndexOK(d), RefsExact(d), NEW B \in SUBSET Unreferenced(d)
  PROVE  LET e == BlobsPurged(d, B)
         IN  /\ IndexOK(e) /\ RefsExact(e) /\ e.fence = d.fence /\ e.versions = d.versions
<1> DEFINE e == BlobsPurged(d, B)
           R == [s \in Sha |-> IF s \in B THEN -1 ELSE d.refs[s]]
<1>1. e = [d EXCEPT !.refs = R]
  BY DEF BlobsPurged
<1>2. R \in [Sha -> Nat \cup {-1}]
  BY DEF IndexOK, Index
<1>3. /\ e \in Index /\ e.versions = d.versions /\ e.refs = R /\ e.fence = d.fence
      /\ e.idle = d.idle /\ e.upload = d.upload
  <2> HIDE DEF R, e
  <2>1. QED
    BY <1>1, <1>2 DEF IndexOK, Index
<1>4. \A s \in B : Uses(d, s) = {}
  <2> SUFFICES ASSUME NEW s \in B PROVE Uses(d, s) = {}
    OBVIOUS
  <2>1. s \in Sha /\ Cardinality(Uses(d, s)) = 0
    BY DEF Unreferenced, RefsExact
  <2>2. QED
    BY <2>1, UsesFinite, FS_EmptySet
<1>5. RefsExact(e)
  <2>1. \A s \in Sha : Uses(e, s) = Uses(d, s)
    BY <1>3 DEF Uses
  <2> HIDE DEF e
  <2>2. QED
    BY <1>3, <1>4, <2>1 DEF RefsExact
<1>6. QED
  BY <1>3, <1>5 DEF IndexOK

(* A recount makes any index exact whose rows are all there.               *)
LEMMA RecountedOK ==
  ASSUME NEW d, IndexOK(d), Named(d)
  PROVE  LET e == Recounted(d)
         IN  /\ IndexOK(e) /\ RefsExact(e) /\ e.fence = d.fence /\ e.versions = d.versions
<1> DEFINE e == Recounted(d)
           R == [s \in Sha |-> IF d.refs[s] = -1 THEN -1 ELSE Cardinality(Uses(d, s))]
<1>1. e = [d EXCEPT !.refs = R]
  BY DEF Recounted
<1>2. R \in [Sha -> Nat \cup {-1}]
  BY UsesFinite
<1>3. /\ e \in Index /\ e.versions = d.versions /\ e.refs = R /\ e.fence = d.fence
      /\ e.idle = d.idle /\ e.upload = d.upload
  <2> HIDE DEF R, e
  <2>1. QED
    BY <1>1, <1>2 DEF IndexOK, Index
<1>4. \A s \in Sha : Uses(e, s) = Uses(d, s)
  BY <1>3 DEF Uses
<1>5. ASSUME NEW s \in Sha
      PROVE  IF R[s] = -1 THEN Uses(d, s) = {} ELSE R[s] = Cardinality(Uses(d, s))
  <2>1. Cardinality(Uses(d, s)) # -1
    BY UsesFinite
  <2>2. d.refs[s] = -1 => Uses(d, s) = {}
    BY DEF Named, Uses
  <2>3. QED
    BY <2>1, <2>2
<1>6. RefsExact(e)
  <2> HIDE DEF e, R
  <2>1. QED
    BY <1>3, <1>4, <1>5 DEF RefsExact
<1>7. QED
  BY <1>3, <1>6 DEF IndexOK

-----------------------------------------------------------------------------
(* Sessions.                                                               *)

(* What leaves versions, rows, refcounts and fence alone.                  *)
Aside(d, e) ==
  e.versions = d.versions /\ e.row = d.row /\ e.refs = d.refs /\ e.fence = d.fence

(* A touch, a release and an abort do.                                     *)
LEMMA AsideSession ==
  ASSUME NEW d, d \in Index, NEW u, NEW n
  PROVE  /\ Aside(d, Touched(d, u, n)) /\ Aside(d, Released(d, n)) /\ Aside(d, Aborted(d, u))
<1>1. Aside(d, Touched(d, u, n))
  BY DEF Aside, Touched, Index
<1>2. \A m : Aside(d, Released(d, m))
  BY DEF Aside, Released, Index
<1>3. Aside(d, Aborted(d, u))
  <2> DEFINE e == [d EXCEPT !.upload[u].state = "aborted", !.idle = @ \ {u}]
             b == d.upload[u].bytes
  <2>1. Aside(d, e)
    BY DEF Aside, Index
  <2>2. Aside(e, Released(e, b))
    BY DEF Aside, Released, Index
  <2>3. QED
    BY <2>1, <2>2 DEF Aside, Aborted
<1>4. QED
  BY <1>1, <1>2, <1>3

(* What a handler does with its upload when it gives up.                   *)
LEMMA GivenUpOK ==
  ASSUME NEW d, IndexOK(d), NEW u \in Upload, d.upload[u].state # "none", NEW n \in 0..1
  PROVE  IndexOK(Aborted(Touched(d, u, n), u)) /\ Aside(d, Aborted(Touched(d, u, n), u))
<1> DEFINE t == Touched(d, u, n)
<1>1. IndexOK(t) /\ t.upload[u].state # "none" /\ Aside(d, t)
  BY TouchedOK, AsideSession DEF IndexOK
<1>2. IndexOK(Aborted(t, u)) /\ Aside(t, Aborted(t, u))
  <2> HIDE DEF t
  <2>1. QED
    BY <1>1, AbortedOK, AsideSession DEF IndexOK
<1>3. QED
  BY <1>1, <1>2 DEF Aside

(* A charge is within the quota.                                           *)
LEMMA ChargeOK ==
  ASSUME IndexOK(db), NEW p \in Put, MayCharge(p), put[p].charged \in 0..1,
         put[p].upload \in Upload, db.upload[put[p].upload].state # "none"
  PROVE  /\ IndexOK(Charge(p)) /\ Aside(db, Charge(p))
         /\ Charge(p).upload[put[p].upload].state = db.upload[put[p].upload].state
<1> DEFINE u == put[p].upload
<1>1. CASE put[p].charged = 1
  BY <1>1 DEF Charge, Aside
<1>2. CASE put[p].charged # 1
  <2> DEFINE e == [db EXCEPT !.daily = @ + 1]
  <2>1. db.daily + 1 \in 0..Quota
    BY <1>2, DriveAssumption DEF MayCharge, IndexOK, Index
  <2>2. /\ e \in Index /\ Aside(db, e) /\ e.idle = db.idle /\ e.upload = db.upload
    BY <2>1 DEF Aside, IndexOK, Index
  <2>3. IndexOK(e)
    <3> HIDE DEF e
    <3>1. QED
      BY <2>2 DEF IndexOK, Aside
  <2>4. Charge(p) = Touched(e, u, 1)
    BY <1>2 DEF Charge
  <2> HIDE DEF e
  <2>5. /\ IndexOK(Touched(e, u, 1)) /\ Aside(e, Touched(e, u, 1))
        /\ Touched(e, u, 1).upload[u].state = e.upload[u].state
    BY <2>2, <2>3, TouchedOK, AsideSession
  <2>6. QED
    BY <2>2, <2>4, <2>5 DEF Aside
<1>3. QED
  BY <1>1, <1>2

(* An upload is registered.                                                *)
LEMMA RegisterOK ==
  ASSUME IndexOK(db), NEW u \in Upload, NEW n \in Name, NEW a \in Artifact, NEW t \in Tokens,
         Register(u, n, a, t)
  PROVE  /\ IndexOK(db') /\ db'.row = [db.row EXCEPT ![a] = n]
         /\ db'.versions = db.versions /\ db'.refs = db.refs /\ db'.fence = db.fence
         /\ \A w \in Upload : db.upload[w].state # "none" => db'.upload[w] = db.upload[w]
<1> DEFINE r == [state |-> "pending", art |-> a, name |-> n, token |-> t, bytes |-> 0]
           U == [db.upload EXCEPT ![u] = r]
           A == [db.row EXCEPT ![a] = n]
<1>1. db' = [db EXCEPT !.row = A, !.upload = U]
  BY DEF Register, IndexOK, Index
<1>2. U \in [Upload -> UploadRow] /\ A \in [Artifact -> Name \cup {None}]
  BY DEF IndexOK, Index, UploadRow, UploadState
<1>3. /\ db' \in Index /\ db'.idle = db.idle /\ db'.upload = U /\ db'.row = A
      /\ db'.versions = db.versions /\ db'.refs = db.refs /\ db'.fence = db.fence
  <2> HIDE DEF U, A
  <2>1. QED
    BY <1>1, <1>2 DEF IndexOK, Index
<1>4. Registered(r) /\ r.state # "none"
  BY DEF Registered
<1>5. \A w \in Upload : U[w] = IF w = u THEN r ELSE db.upload[w]
  BY DEF IndexOK, Index
<1>6. db.upload[u].state = "none"
  BY DEF Register
<1>7. db.idle \subseteq Upload
  BY DEF IndexOK, Index
<1>8. QED
  <2> HIDE DEF r, U
  <2>1. QED
    BY <1>3, <1>4, <1>5, <1>6, <1>7 DEF IndexOK

(* An upload idles.                                                        *)
LEMMA ElapseOK ==
  ASSUME IndexOK(db), NEW u \in Upload, Elapse(u)
  PROVE  IndexOK(db') /\ Aside(db, db') /\ db'.upload = db.upload
<1>1. db' = [db EXCEPT !.idle = db.idle \cup {u}] /\ db.upload[u].state = "pending"
  BY DEF Elapse
<1>2. /\ db' \in Index /\ Aside(db, db') /\ db'.idle = db.idle \cup {u}
      /\ db'.upload = db.upload
  BY <1>1 DEF Aside, IndexOK, Index
<1>3. IsFiniteSet(db'.idle)
  BY <1>2, FS_AddElement DEF IndexOK
<1>4. QED
  BY <1>1, <1>2, <1>3 DEF IndexOK, Aside

(* What idled too long expires.                                            *)
LEMMA SweepOK ==
  ASSUME IndexOK(db), Sweep
  PROVE  /\ IndexOK(db') /\ Aside(db, db')
         /\ \A u \in Upload :
              /\ db.upload[u].state # "none" => db'.upload[u].state # "none"
              /\ db'.upload[u].art = db.upload[u].art
              /\ db'.upload[u].state = "pending" => db.upload[u].state = "pending"
<1> DEFINE U == [u \in Upload |-> IF u \in Expirable
                                  THEN [db.upload[u] EXCEPT !.state = "expired"]
                                  ELSE db.upload[u]]
           e == [db EXCEPT !.upload = U]
           S == {u \in Expirable : db.upload[u].bytes = 1}
<1>1. db' = Released(e, Cardinality(S))
  BY DEF Sweep
<1>2. Cardinality(S) \in Nat
  <2>1. S \subseteq db.idle
    BY DEF Expirable
  <2>2. QED
    BY <2>1, FS_Subset, FS_CardinalityType DEF IndexOK
<1>3. U \in [Upload -> UploadRow]
  BY DEF IndexOK, Index, UploadRow, UploadState
<1>4. \A w \in Upload : /\ Registered(db.upload[w]) => Registered(U[w])
                        /\ db.upload[w].state = "none" => U[w].state = "none"
                        /\ db.upload[w].state # "none" => U[w].state # "none"
                        /\ U[w].art = db.upload[w].art
                        /\ U[w].state = "pending" => db.upload[w].state = "pending"
  BY DEF IndexOK, Index, UploadRow, Registered, Expirable
<1>5. e = Sessions(db, U, db.idle)
  BY DEF Sessions, IndexOK, Index
<1>6. IndexOK(e)
  <2> HIDE DEF U, e
  <2>1. QED
    BY <1>3, <1>4, <1>5, SessionsOK DEF IndexOK
<1>7. Aside(db, e) /\ e.upload = U
  <2> HIDE DEF U
  <2>1. QED
    BY <1>3 DEF Aside, IndexOK, Index
<1>8. IndexOK(db') /\ Aside(e, db')
  <2> HIDE DEF e, S
  <2>1. QED
    BY <1>1, <1>2, <1>6, ReleasedOK, AsideSession DEF IndexOK
<1>9. db'.upload = e.upload
  <2> HIDE DEF e, S
  <2>1. QED
    BY <1>1, <1>6 DEF Released, IndexOK, Index
<1>10. QED
  <2> HIDE DEF e, U
  <2>1. QED
    BY <1>4, <1>7, <1>8, <1>9 DEF Aside

-----------------------------------------------------------------------------
(* Lines.                                                                  *)

(* The lines the service writes, and what a crash makes of one.            *)
LineSet ==
  {Torn, Corrupt} \cup {CommittedLine(v, n) : v \in VersionSet, n \in Name}
    \cup {AbortedLine(p) : p \in Put} \cup {DeleteLine(a) : a \in Artifact}
    \cup {MoveLine(a, p) : a \in Artifact, p \in Put} \cup {PurgeLine(s) : s \in Sha}

(* A line is one of the seven, and its type says which.                    *)
LEMMA LineCases ==
  ASSUME NEW line \in LineSet
  PROVE  \/ line = Torn \/ line = Corrupt
         \/ \E v \in VersionSet, n \in Name : line = CommittedLine(v, n)
         \/ \E p \in Put : line = AbortedLine(p)
         \/ \E a \in Artifact : line = DeleteLine(a)
         \/ \E a \in Artifact, p \in Put : line = MoveLine(a, p)
         \/ \E s \in Sha : line = PurgeLine(s)
BY DEF LineSet

(* The rows a replayed commit needs.                                       *)
LEMMA WithRowsOK ==
  ASSUME NEW d, IndexOK(d), Named(d), NEW v \in VersionSet, NEW n \in Name
  PROVE  LET e == WithRows(d, CommittedLine(v, n))
         IN  /\ IndexOK(e) /\ Named(e) /\ e.versions = d.versions /\ e.fence = d.fence
             /\ e.refs[v.sha] # -1 /\ e.upload = d.upload
<1> DEFINE line == CommittedLine(v, n)
           e == WithRows(d, line)
           A == [d.row EXCEPT ![v.art] = IF \E b \in Artifact : d.row[b] = n THEN @ ELSE n]
           R == [d.refs EXCEPT ![v.sha] = IF @ = -1 THEN 0 ELSE @]
<1>1. line.v = v /\ line.name = n
  BY DEF CommittedLine
<1>2. e = [d EXCEPT !.row = A, !.refs = R]
  BY <1>1 DEF WithRows, IndexOK, Index
<1>3. /\ A \in [Artifact -> Name \cup {None}] /\ R \in [Sha -> Nat \cup {-1}]
      /\ v.sha \in Sha /\ R[v.sha] # -1 /\ \A s \in Sha : d.refs[s] # -1 => R[s] # -1
  BY DEF IndexOK, Index, VersionSet
<1>4. /\ e \in Index /\ e.versions = d.versions /\ e.fence = d.fence /\ e.refs = R
      /\ e.idle = d.idle /\ e.upload = d.upload
  <2> HIDE DEF A, R, e, line
  <2>1. QED
    BY <1>2, <1>3 DEF IndexOK, Index
<1>5. IndexOK(e)
  <2> HIDE DEF R, e
  <2>1. QED
    BY <1>4 DEF IndexOK
<1>6. Named(e)
  <2> HIDE DEF R, e
  <2>1. QED
    BY <1>3, <1>4 DEF Named
<1>7. QED
  BY <1>3, <1>4, <1>5, <1>6

(* INSERT OR IGNORE.                                                       *)
LEMMA InsertedOK ==
  ASSUME NEW d, IndexOK(d), Named(d), NEW v \in VersionSet, d.refs[v.sha] # -1
  PROVE  LET e == Inserted(d, v)
         IN  /\ IndexOK(e) /\ Named(e) /\ e.fence = d.fence /\ e.upload = d.upload
             /\ e.versions = IF Conflicts(d, v) THEN d.versions ELSE d.versions \cup {v}
<1> DEFINE e == Inserted(d, v)
           V == d.versions \cup {v}
<1>1. CASE Conflicts(d, v)
  BY <1>1 DEF Inserted
<1>2. CASE ~Conflicts(d, v)
  <2>1. e = [d EXCEPT !.versions = V]
    BY <1>2 DEF Inserted
  <2>2. V \in SUBSET (VersionSet \cup MarkerSet) /\ IsFiniteSet(V)
    BY FS_AddElement DEF IndexOK, Index
  <2>3. /\ e \in Index /\ e.versions = V /\ e.fence = d.fence /\ e.refs = d.refs
        /\ e.idle = d.idle /\ e.upload = d.upload
    <3> HIDE DEF V, e
    <3>1. QED
      BY <2>1, <2>2 DEF IndexOK, Index
  <2>4. IndexOK(e)
    <3> HIDE DEF e
    <3>1. QED
      BY <2>2, <2>3 DEF IndexOK
  <2>5. Named(e)
    <3> HIDE DEF e
    <3>1. QED
      BY <2>3 DEF Named
  <2>6. QED
    BY <1>2, <2>3, <2>4, <2>5
<1>3. QED
  BY <1>1, <1>2

(* A replayed commit.                                                      *)
LEMMA AppliedCommit ==
  ASSUME NEW d, IndexOK(d), Named(d), NEW v \in VersionSet, NEW n \in Name
  PROVE  LET e == ApplyCommitted(d, CommittedLine(v, n))
         IN  /\ IndexOK(e) /\ Named(e) /\ e.fence = Raised(d, v.token) /\ e.upload = d.upload
             /\ e.versions = IF Conflicts(d, v) THEN d.versions ELSE d.versions \cup {v}
<1> DEFINE line == CommittedLine(v, n)
           w == WithRows(d, line)
           i == Inserted(w, v)
           C == [i.current EXCEPT ![v.art] =
                   IF i.row[v.art] # None /\ v.seq > CurrentSeq(i, v.art) THEN v.id ELSE @]
           F == Raised(d, v.token)
           e == ApplyCommitted(d, line)
<1>1. line.v = v
  BY DEF CommittedLine
<1>2. /\ IndexOK(w) /\ Named(w) /\ w.versions = d.versions /\ w.refs[v.sha] # -1
      /\ w.upload = d.upload
  BY WithRowsOK
<1>3. Conflicts(w, v) = Conflicts(d, v)
  BY <1>2 DEF Conflicts
<1>4. /\ IndexOK(i) /\ Named(i) /\ i.upload = d.upload
      /\ i.versions = IF Conflicts(d, v) THEN d.versions ELSE d.versions \cup {v}
  <2> HIDE DEF w
  <2>1. QED
    BY <1>2, <1>3, InsertedOK
<1>5. v.id \in VersionId /\ v.token \in Tokens \cup {None}
  BY DEF VersionSet, VersionId
<1>6. F \in Nat \cup {-1}
  BY <1>5, FenceRises DEF IndexOK, Index
<1>7. C \in [Artifact -> VersionId \cup {None}]
  <2> HIDE DEF i
  <2>1. QED
    BY <1>4, <1>5 DEF IndexOK, Index
<1>8. e = [i EXCEPT !.current = C, !.fence = F]
  <2>1. e = [i EXCEPT !.current[v.art] =
                        IF i.row[v.art] # None /\ v.seq > CurrentSeq(i, v.art) THEN v.id ELSE @,
                      !.fence = F]
    BY <1>1 DEF ApplyCommitted
  <2> HIDE DEF i, e, F
  <2>2. QED
    BY <1>4, <2>1 DEF IndexOK, Index
<1>9. /\ e \in Index /\ e.versions = i.versions /\ e.refs = i.refs /\ e.fence = F
      /\ e.idle = i.idle /\ e.upload = i.upload
  <2> HIDE DEF i, e, F, C
  <2>1. QED
    BY <1>4, <1>6, <1>7, <1>8 DEF IndexOK, Index
<1>10. IndexOK(e) /\ Named(e)
  <2> HIDE DEF i, e, F
  <2>1. QED
    BY <1>4, <1>9 DEF IndexOK, Named
<1>11. /\ e.upload = d.upload /\ e.fence = F
       /\ e.versions = IF Conflicts(d, v) THEN d.versions ELSE d.versions \cup {v}
  <2> HIDE DEF i, e, F
  <2>1. QED
    BY <1>4, <1>9
<1>12. QED
  BY <1>10, <1>11

(* Rows that go leave the others named.                                    *)
LEMMA CancelledOK ==
  ASSUME NEW d, IndexOK(d), Named(d), NEW id
  PROVE  LET e == Cancelled(d, id) IN IndexOK(e) /\ Named(e) /\ e.fence = d.fence
<1> DEFINE e == Cancelled(d, id)
           V == {v \in d.versions : v.id # id}
<1>1. e = [d EXCEPT !.versions = V]
  BY DEF Cancelled
<1>2. V \subseteq d.versions /\ IsFiniteSet(V)
  BY FS_Subset DEF IndexOK
<1>3. /\ e \in Index /\ e.versions = V /\ e.fence = d.fence /\ e.refs = d.refs
      /\ e.idle = d.idle /\ e.upload = d.upload
  <2> HIDE DEF V, e
  <2>1. QED
    BY <1>1, <1>2 DEF IndexOK, Index
<1>4. QED
  <2> HIDE DEF V, e
  <2>1. IndexOK(e) /\ Named(e) /\ e.fence = d.fence
    BY <1>2, <1>3 DEF IndexOK, Named
  <2>2. QED
    BY <2>1 DEF e

(* A delete or a restore moves a pointer, or finds no artifact.            *)
LEMMA PointerSetOK ==
  ASSUME NEW d, IndexOK(d), Named(d), NEW a \in Artifact, NEW id \in VersionId \cup {None}
  PROVE  LET e == PointerSet(d, a, id) IN IndexOK(e) /\ Named(e) /\ e.fence = d.fence
<1> DEFINE e == PointerSet(d, a, id)
           to == IF d.row[a] = None THEN d.current[a] ELSE id
<1>1. e = [d EXCEPT !.current[a] = to]
  BY DEF PointerSet, IndexOK, Index
<1>2. to \in VersionId \cup {None}
  BY DEF IndexOK, Index
<1>3. QED
  <2> HIDE DEF e, to
  <2>1. IndexOK(e) /\ e.fence = d.fence /\ e.versions = d.versions /\ e.refs = d.refs
    BY <1>1, <1>2, PointedOK
  <2>2. IndexOK(e) /\ Named(e) /\ e.fence = d.fence
    BY <2>1 DEF Named
  <2>3. QED
    BY <2>2 DEF e

(* The row of a blob that no version names may go.                         *)
LEMMA UnnamedOK ==
  ASSUME NEW d, IndexOK(d), Named(d), NEW s \in Sha, Uses(d, s) = {},
         NEW e, e = [d EXCEPT !.refs[s] = -1]
  PROVE  IndexOK(e) /\ Named(e) /\ e.fence = d.fence
<1> DEFINE R == [d.refs EXCEPT ![s] = -1]
<1>1. e = [d EXCEPT !.refs = R]
  BY DEF IndexOK, Index
<1>2. R \in [Sha -> Nat \cup {-1}] /\ \A t \in Sha : t # s => R[t] = d.refs[t]
  BY DEF IndexOK, Index
<1>3. /\ e \in Index /\ e.versions = d.versions /\ e.fence = d.fence /\ e.refs = R
      /\ e.idle = d.idle /\ e.upload = d.upload
  <2> HIDE DEF R
  <2>1. QED
    BY <1>1, <1>2 DEF IndexOK, Index
<1>4. \A v \in d.versions : v.sha # s
  BY DEF Uses
<1>5. QED
  <2> HIDE DEF R
  <2>1. QED
    BY <1>2, <1>3, <1>4 DEF IndexOK, Named

(* A line that does not throw leaves a sound index, whose fence is no      *)
(* lower and has reached the token of the line.                            *)
LEMMA AppliedOK ==
  ASSUME NEW d, IndexOK(d), Named(d), NEW line \in LineSet, ~Throws(d, line)
  PROVE  LET e == Applied(d, line)
         IN  /\ IndexOK(e) /\ Named(e) /\ e.fence >= d.fence
             /\ line.type = "committed" /\ line.v.token # None => e.fence >= line.v.token
<1> DEFINE e == Applied(d, line)
           Fine == /\ IndexOK(e) /\ Named(e) /\ e.fence >= d.fence
                   /\ line.type = "committed" /\ line.v.token # None => e.fence >= line.v.token
<1>0. d.fence \in Nat \cup {-1}
  BY DEF IndexOK, Index
<1>1. CASE line = Torn
  <2>1. e = d /\ line.type = "torn"
    BY <1>1 DEF Torn, Applied
  <2>2. QED
    BY <1>0, <2>1
<1>2. CASE line = Corrupt
  BY <1>2 DEF Throws
<1>3. ASSUME NEW v \in VersionSet, NEW n \in Name, line = CommittedLine(v, n) PROVE Fine
  <2>1. line.type = "committed" /\ line.v = v /\ e = ApplyCommitted(d, line)
    BY <1>3 DEF CommittedLine, Applied
  <2>2. v.token \in Tokens \cup {None}
    BY DEF VersionSet
  <2>3. IndexOK(e) /\ Named(e) /\ e.fence = Raised(d, v.token)
    <3> DEFINE f == ApplyCommitted(d, CommittedLine(v, n))
    <3>1. IndexOK(f) /\ Named(f) /\ f.fence = Raised(d, v.token)
      BY AppliedCommit
    <3> HIDE DEF e, f
    <3>2. e = f
      BY <1>3, <2>1 DEF f
    <3>3. QED
      BY <3>1, <3>2
  <2>4. Raised(d, v.token) >= d.fence /\ (v.token # None => Raised(d, v.token) >= v.token)
    BY <1>0, <2>2, FenceRises
  <2> HIDE DEF e
  <2>5. QED
    BY <2>1, <2>3, <2>4
<1>4. ASSUME NEW p \in Put, line = AbortedLine(p) PROVE Fine
  <2>1. line.type = "aborted" /\ e = Cancelled(d, p)
    BY <1>4 DEF AbortedLine, Applied
  <2>2. IndexOK(e) /\ Named(e) /\ e.fence = d.fence
    BY <2>1, CancelledOK
  <2> HIDE DEF e
  <2>3. QED
    BY <1>0, <2>1, <2>2
<1>5. ASSUME NEW a \in Artifact, line = DeleteLine(a) PROVE Fine
  <2>1. line.type = "delete" /\ e = PointerSet(d, a, None)
    BY <1>5 DEF DeleteLine, Applied
  <2>2. IndexOK(e) /\ Named(e) /\ e.fence = d.fence
    BY <2>1, PointerSetOK
  <2> HIDE DEF e
  <2>3. QED
    BY <1>0, <2>1, <2>2
<1>6. ASSUME NEW a \in Artifact, NEW p \in Put, line = MoveLine(a, p) PROVE Fine
  <2>1. line.type = "move" /\ e = PointerSet(d, a, p) /\ p \in VersionId
    BY <1>6 DEF MoveLine, Applied, VersionId
  <2>2. IndexOK(e) /\ Named(e) /\ e.fence = d.fence
    BY <2>1, PointerSetOK
  <2> HIDE DEF e
  <2>3. QED
    BY <1>0, <2>1, <2>2
<1>7. ASSUME NEW s \in Sha, line = PurgeLine(s) PROVE Fine
  <2>1. line.type = "purge" /\ line.sha = s
    BY <1>7 DEF PurgeLine
  <2>2. Uses(d, s) = {} /\ e = [d EXCEPT !.refs[s] = -1]
    BY <2>1 DEF Throws, Applied
  <2> HIDE DEF e
  <2>3. IndexOK(e) /\ Named(e) /\ e.fence = d.fence
    BY <2>2, UnnamedOK
  <2>4. QED
    BY <1>0, <2>1, <2>3
<1>8. Fine
  BY <1>1, <1>2, <1>3, <1>4, <1>5, <1>6, <1>7, LineCases
<1>9. QED
  BY <1>8

-----------------------------------------------------------------------------
(* The boot.                                                               *)

(* What is known of the index after the first n lines, unless one of them  *)
(* threw.                                                                  *)
Covered(d, n) ==
  /\ IndexOK(d) /\ Named(d)
  /\ \A i \in 1..n :
       /\ journal[i] # Corrupt
       /\ journal[i].type = "committed" /\ journal[i].v.token # None =>
            d.fence >= journal[i].v.token
SoFar(r, n) == r = [ok |-> r.ok, d |-> r.d] /\ (r.ok => Covered(r.d, n))

(* A line of the replay carries that over.                                 *)
LEMMA StepOK ==
  ASSUME journal \in Seq(LineSet), NEW n \in Nat, n + 1 \in DOMAIN journal,
         NEW r, SoFar(r, n)
  PROVE  SoFar(Step(r, journal[n + 1]), n + 1)
<1> DEFINE line == journal[n + 1]
<1>1. line \in LineSet
  BY ElementOfSeq
<1>2. CASE ~r.ok \/ Throws(r.d, line)
  <2>1. Step(r, line) = [ok |-> FALSE, d |-> r.d]
    BY <1>2 DEF Step, SoFar
  <2>2. QED
    BY <2>1 DEF SoFar
<1>3. CASE r.ok /\ ~Throws(r.d, line)
  <2> DEFINE e == Applied(r.d, line)
  <2>1. Step(r, line) = [ok |-> r.ok, d |-> e]
    BY <1>3 DEF Step, SoFar
  <2>2. /\ IndexOK(r.d) /\ Named(r.d)
        /\ \A i \in 1..n :
             /\ journal[i] # Corrupt
             /\ journal[i].type = "committed" /\ journal[i].v.token # None =>
                  r.d.fence >= journal[i].v.token
    BY <1>3 DEF SoFar, Covered
  <2>3. /\ IndexOK(e) /\ Named(e) /\ e.fence >= r.d.fence
        /\ line.type = "committed" /\ line.v.token # None => e.fence >= line.v.token
    BY <1>1, <1>3, <2>2, AppliedOK
  <2>4. line # Corrupt
    BY <1>3 DEF Throws
  <2>5. /\ r.d.fence \in Int /\ e.fence \in Int
    <3> HIDE DEF e
    <3>1. QED
      BY <2>2, <2>3 DEF IndexOK, Index
  <2>6. ASSUME NEW i \in 1..n, journal[i].type = "committed", journal[i].v.token # None
        PROVE  e.fence >= journal[i].v.token
    <3>1. journal[i] \in LineSet
      <4>1. i \in DOMAIN journal
        BY LenProperties
      <4>2. QED
        BY <4>1, ElementOfSeq
    <3>2. journal[i].v.token \in Int
      <4>1. PICK v \in VersionSet, m \in Name : journal[i] = CommittedLine(v, m)
        BY <2>6, <3>1, LineCases
           DEF Torn, Corrupt, AbortedLine, DeleteLine, MoveLine, PurgeLine
      <4>2. journal[i].v = v
        BY <4>1 DEF CommittedLine
      <4>3. v.token \in Tokens
        BY DEF VersionSet
      <4>4. v.token # None
        BY <2>6, <4>2
      <4>5. v.token \in Int
        BY <4>3, <4>4, TokenIsNumber
      <4>6. QED
        BY <4>2, <4>5
    <3> HIDE DEF e
    <3>3. QED
      BY <2>2, <2>3, <2>5, <2>6, <3>2
  <2> HIDE DEF e
  <2>7. \A i \in 1..(n + 1) : i \in 1..n \/ i = n + 1
    OBVIOUS
  <2>8. Covered(e, n + 1)
    BY <2>2, <2>3, <2>4, <2>6, <2>7 DEF Covered
  <2>9. QED
    BY <2>1, <2>8 DEF SoFar
<1>4. QED
  BY <1>2, <1>3

(* A boot that does not refuse has read every line.                        *)
LEMMA ReplayCovers ==
  ASSUME journal \in Seq(LineSet), NEW d, IndexOK(d), Named(d), Replay(d).ok
  PROVE  Covered(Replay(d).d, Len(journal))
<1> DEFINE L == Len(journal)
           G == {n \in 0..L : SoFar(Stages(d)[n], n)}
<1>1. L \in Nat /\ DOMAIN journal = 1..L
  BY LenProperties
<1>2. /\ Stages(d)[0] = [ok |-> TRUE, d |-> d]
      /\ \A n \in 0..L : n # L => Stages(d)[n + 1] = Step(Stages(d)[n], journal[n + 1])
  BY <1>1, StagesStep
<1>3. 0 \in G
  <2>1. \A i \in 1..0 : FALSE
    OBVIOUS
  <2>2. Covered(d, 0)
    BY <2>1, Zenon DEF Covered
  <2>3. SoFar([ok |-> TRUE, d |-> d], 0)
    BY <2>2 DEF SoFar
  <2>4. 0 \in 0..L
    BY <1>1
  <2>5. QED
    BY <1>2, <2>3, <2>4
<1>4. ASSUME NEW n \in 0..L, n # L, n \in G PROVE n + 1 \in G
  <2>1. n + 1 \in 0..L /\ n + 1 \in DOMAIN journal /\ n \in Nat
    <3> HIDE DEF L, G
    <3>1. QED
      BY <1>1, <1>4
  <2>2. SoFar(Stages(d)[n], n)
    BY <1>4
  <2>3. SoFar(Step(Stages(d)[n], journal[n + 1]), n + 1)
    BY <2>1, <2>2, StepOK
  <2>4. SoFar(Stages(d)[n + 1], n + 1)
    BY <1>2, <1>4, <2>3
  <2>5. QED
    BY <2>1, <2>4
<1>5. 0..L \subseteq G
  <2> HIDE DEF G, L
  <2>1. QED
    BY <1>1, <1>3, <1>4, UpTo
<1>6. SoFar(Stages(d)[L], L)
  BY <1>1, <1>5
<1>7. QED
  BY <1>6 DEF SoFar, Replay

(* No version names a blob without a row where the counts are exact.       *)
LEMMA ExactNamed ==
  ASSUME NEW d, RefsExact(d)
  PROVE  Named(d)
BY DEF RefsExact, Named, Uses

(* A boot that succeeds leaves a sound index, and its fence has reached    *)
(* every token the journal holds, no line of which is corrupt.             *)
LEMMA BootOK ==
  ASSUME journal \in Seq(LineSet), IndexOK(db), RefsExact(db), Boot, status' = "up"
  PROVE  /\ IndexOK(db') /\ RefsExact(db')
         /\ \A i \in DOMAIN journal :
              /\ journal[i] # Corrupt
              /\ journal[i].type = "committed" /\ journal[i].v.token # None =>
                   db'.fence >= journal[i].v.token
<1> DEFINE r == Replay(db)
<1>1. r.ok /\ db' = Recounted(r.d)
  BY DEF Boot
<1>2. Covered(r.d, Len(journal))
  BY <1>1, ExactNamed, ReplayCovers
<1> HIDE DEF r
<1>3. IndexOK(db') /\ RefsExact(db') /\ db'.fence = r.d.fence
  BY <1>1, <1>2, RecountedOK DEF Covered
<1>4. DOMAIN journal = 1..Len(journal)
  BY LenProperties
<1>5. QED
  BY <1>2, <1>3, <1>4 DEF Covered

-----------------------------------------------------------------------------
(* The journal.                                                            *)

(* A line is somewhere in a journal.                                       *)
Holds(j, line) == \E i \in DOMAIN j : j[i] = line

(* Lines are appended; only a cut one is lost, to a corrupt one.           *)
Longer(j) ==
  /\ j \in Seq(LineSet)
  /\ \A line : line # Torn /\ Holds(journal, line) => Holds(j, line)

(* A line at the end: it is there, and so is what was there.               *)
LEMMA PlainAppend ==
  ASSUME NEW j \in Seq(LineSet), NEW line \in LineSet
  PROVE  /\ Append(j, line) \in Seq(LineSet) /\ Holds(Append(j, line), line)
         /\ \A old : Holds(j, old) => Holds(Append(j, line), old)
<1>1. /\ Append(j, line) \in Seq(LineSet) /\ DOMAIN j = 1..Len(j) /\ Len(j) \in Nat
      /\ DOMAIN Append(j, line) = 1..(Len(j) + 1)
      /\ \A i \in 1..Len(j) : Append(j, line)[i] = j[i]
      /\ Append(j, line)[Len(j) + 1] = line
  BY AppendProperties, LenProperties
<1>2. Len(j) + 1 \in 1..(Len(j) + 1) /\ 1..Len(j) \subseteq 1..(Len(j) + 1)
  BY <1>1
<1>3. QED
  BY <1>1, <1>2 DEF Holds

(* What an append may do, the line after a cut one included: the journal   *)
(* gets longer, and holds the line unless it is corrupt.                   *)
LEMMA AppendedOK ==
  ASSUME journal \in Seq(LineSet), NEW line \in LineSet, NEW j \in Appended(line)
  PROVE  Longer(j) /\ (Holds(j, line) \/ Holds(j, Corrupt))
<1>1. CASE j = Append(journal, line)
  BY <1>1, PlainAppend DEF Longer
<1>2. CASE TornTail /\ j = Append(Front(journal), Corrupt)
  <2> DEFINE f == Front(journal)
             L == Len(journal)
  <2>1. L \in Nat /\ L # 0 /\ DOMAIN journal = 1..L /\ journal[L] = Torn
    BY <1>2, LenProperties, EmptySeq DEF TornTail, Last
  <2>2. f \in Seq(LineSet) /\ Len(f) = L - 1 /\ \A i \in 1..(L - 1) : f[i] = journal[i]
    <3>1. f = [i \in 1..(L - 1) |-> journal[i]]
      BY <2>1, SubSeqProperties DEF Front
    <3>2. QED
      BY <2>1, <3>1, ElementOfSeq, IsASeq
  <2>3. DOMAIN f = 1..(L - 1)
    BY <2>2, LenProperties
  <2>4. \A old : old # Torn /\ Holds(journal, old) => Holds(f, old)
    BY <2>1, <2>2, <2>3 DEF Holds
  <2>5. Corrupt \in LineSet
    BY DEF LineSet
  <2> HIDE DEF f
  <2>6. QED
    BY <1>2, <2>2, <2>4, <2>5, PlainAppend DEF Longer, f
<1>3. QED
  BY <1>1, <1>2 DEF Appended

(* What a purge writes.                                                    *)
LEMMA PurgeLinesOK ==
  ASSUME NEW L \in SUBSET Sha, NEW q \in PurgeLines(L)
  PROVE  q \in Seq(LineSet)
<1>1. PICK r \in SetToSeqs(L) : q = [i \in DOMAIN r |-> PurgeLine(r[i])]
  BY DEF PurgeLines
<1>2. IsFiniteSet(Sha)
  BY DriveAssumption
<1>3. Cardinality(L) \in Nat
  BY <1>2, FS_Subset, FS_CardinalityType
<1>4. r \in [1..Cardinality(L) -> L]
  BY DEF SetToSeqs
<1>5. \A s \in Sha : PurgeLine(s) \in LineSet
  BY DEF LineSet
<1>6. q \in [1..Cardinality(L) -> LineSet]
  BY <1>1, <1>4, <1>5
<1>7. QED
  <2> DEFINE n == Cardinality(L)
  <2>1. n \in Nat /\ q \in [1..n -> LineSet]
    BY <1>3, <1>6
  <2> HIDE DEF n
  <2>2. QED
    BY <2>1, SeqDef

(* The lines of a purge make the journal longer.                           *)
LEMMA CollectedLines ==
  ASSUME journal \in Seq(LineSet), NEW L \in SUBSET Sha, NEW q \in PurgeLines(L),
         IF q = <<>> THEN UNCHANGED journal
         ELSE \E j \in Appended(Head(q)) : journal' = j \o Tail(q)
  PROVE  Longer(journal')
<1>1. q \in Seq(LineSet)
  BY PurgeLinesOK
<1>2. CASE q = <<>>
  BY <1>2 DEF Longer, Holds
<1>3. CASE q # <<>>
  <2>1. PICK j \in Appended(Head(q)) : journal' = j \o Tail(q)
    BY <1>3
  <2>2. Head(q) \in LineSet /\ Tail(q) \in Seq(LineSet)
    BY <1>1, <1>3, HeadTailProperties
  <2>3. Longer(j)
    BY <2>2, AppendedOK
  <2> DEFINE t == Tail(q)
  <2> HIDE DEF t
  <2>4. /\ j \o t \in Seq(LineSet) /\ Len(j \o t) = Len(j) + Len(t)
        /\ \A i \in 1..(Len(j) + Len(t)) :
             (j \o t)[i] = IF i <= Len(j) THEN j[i] ELSE t[i - Len(j)]
    BY <2>2, <2>3, ConcatProperties DEF Longer, t
  <2>5. /\ Len(j) \in Nat /\ Len(t) \in Nat /\ DOMAIN j = 1..Len(j)
        /\ DOMAIN (j \o t) = 1..(Len(j) + Len(t))
    BY <2>2, <2>3, <2>4, LenProperties DEF Longer, t
  <2>6. \A i \in DOMAIN j : i \in DOMAIN (j \o t) /\ (j \o t)[i] = j[i]
    BY <2>4, <2>5
  <2>7. journal' = j \o t
    BY <2>1 DEF t
  <2>8. QED
    BY <2>3, <2>4, <2>6, <2>7 DEF Longer, Holds
<1>4. QED
  BY <1>2, <1>3

-----------------------------------------------------------------------------
(* The invariant.                                                          *)

(* An upload that was registered stays registered, for the same artifact,  *)
(* and is never pending again.                                             *)
GoesOn(r, q) ==
  r.state # "none" =>
    q.state # "none" /\ q.art = r.art /\ (q.state = "pending" => r.state = "pending")
Going(d, e) == \A u \in Upload : GoesOn(d.upload[u], e.upload[u])

(* The calls that touch an upload keep it going.                           *)
LEMMA GoingSession ==
  ASSUME NEW d, d \in Index, NEW u \in Upload, d.upload[u].state # "none", NEW n, NEW v
  PROVE  /\ Going(d, Touched(d, u, n)) /\ Going(d, Released(d, n))
         /\ Going(d, Aborted(d, u)) /\ Going(d, Committed(d, u, v))
<1>0. d.upload \in [Upload -> UploadRow]
  BY DEF Index
<1>1. Going(d, Touched(d, u, n))
  <2> DEFINE U == [d.upload EXCEPT ![u].bytes = n]
  <2>1. Touched(d, u, n).upload = U
    BY DEF Touched, Index
  <2>2. \A w \in Upload : U[w].state = d.upload[w].state /\ U[w].art = d.upload[w].art
    BY <1>0 DEF UploadRow
  <2> HIDE DEF U
  <2>3. QED
    BY <2>1, <2>2 DEF Going, GoesOn
<1>2. \A m : Going(d, Released(d, m)) /\ Released(d, m).upload = d.upload
  BY DEF Going, GoesOn, Released, Index, UploadRow
<1>3. \A to \in {"aborted", "committed"} : \A w \in Upload :
        GoesOn(d.upload[w], [d.upload EXCEPT ![u].state = to][w])
  <2> SUFFICES ASSUME NEW to \in {"aborted", "committed"}, NEW w \in Upload
               PROVE  GoesOn(d.upload[w], [d.upload EXCEPT ![u].state = to][w])
    OBVIOUS
  <2>1. CASE w = u
    BY <1>0, <2>1 DEF GoesOn, UploadRow
  <2>2. CASE w # u
    BY <1>0, <2>2 DEF GoesOn, UploadRow
  <2>3. QED
    BY <2>1, <2>2
<1>4. Going(d, Aborted(d, u))
  <2> DEFINE e == [d EXCEPT !.upload[u].state = "aborted", !.idle = @ \ {u}]
             U == [d.upload EXCEPT ![u].state = "aborted"]
             b == d.upload[u].bytes
  <2>1. e.upload = U
    BY DEF Index
  <2>2. Released(e, b).upload = e.upload
    BY DEF Released, Index
  <2>3. CASE d.upload[u].state = "committed"
    BY <2>3 DEF Going, GoesOn, Aborted
  <2>4. CASE d.upload[u].state # "committed"
    <3>1. Aborted(d, u) = Released(e, b)
      BY <2>4 DEF Aborted
    <3>2. \A w \in Upload : GoesOn(d.upload[w], U[w])
      BY <1>3
    <3> HIDE DEF e, b, U
    <3>3. QED
      BY <2>1, <2>2, <3>1, <3>2 DEF Going
  <2>5. QED
    BY <2>3, <2>4
<1>5. Going(d, Committed(d, u, v))
  <2> DEFINE U == [d.upload EXCEPT ![u].state = "committed"]
  <2>1. Committed(d, u, v).upload = U
    BY DEF Committed, Index
  <2>2. \A w \in Upload : GoesOn(d.upload[w], U[w])
    BY <1>3
  <2> HIDE DEF U
  <2>3. QED
    BY <2>1, <2>2 DEF Going
<1>6. QED
  BY <1>1, <1>2, <1>4, <1>5

(* Going on twice is going on.                                             *)
LEMMA GoingTwice ==
  ASSUME NEW c, NEW d, NEW e, Going(c, d), Going(d, e)
  PROVE  Going(c, e)
BY DEF Going, GoesOn

(* What every step but a replay does to the index: it stays sound and      *)
(* exact, its fence does not fall, its sessions stay registered.           *)
Onward(d, e) ==
  /\ IndexOK(e) /\ RefsExact(e) /\ e.fence >= d.fence /\ Going(d, e)

(* What leaves versions, refcounts and fence alone goes onward.            *)
LEMMA AsideOnward ==
  ASSUME NEW d, NEW e, IndexOK(d), RefsExact(d), IndexOK(e), Aside(d, e), Going(d, e)
  PROVE  Onward(d, e)
<1>1. d.fence \in Int /\ e.fence = d.fence
  BY DEF IndexOK, Index, Aside
<1>2. RefsExact(e)
  BY RefsKept DEF Aside
<1>3. QED
  BY <1>1, <1>2 DEF Onward

(* A stream has an upload that was registered, and runs while the service  *)
(* does.                                                                   *)
PutOK ==
  \A p \in Put : Writing(p) =>
    /\ status = "up"
    /\ put[p].upload \in Upload /\ put[p].sha \in Sha /\ put[p].file \in Put
    /\ put[p].charged \in 0..1
    /\ db.upload[put[p].upload].state # "none"

(* The kinds of the streams and the files.                                 *)
PutRow ==
  [pc : {"idle", "open", "sent", "done"}, upload : Upload \cup {None},
   sha : Sha \cup {None}, file : Put \cup {None}, charged : 0..1]
FilesOK ==
  /\ put \in [Put -> PutRow]
  /\ staging \in [Upload -> Put \cup {None}] /\ cas \in [Sha -> Put \cup {None}]
  /\ content \in [Put -> Sha \cup {None, "short"}]
  /\ status \in {"up", "down", "refused"}

(* The line of an answer is in the journal, or the journal is corrupt; and *)
(* while the service runs the fence has reached the token of every answer. *)
Written(j, w) == Holds(j, Corrupt) \/ \E n \in Name : Holds(j, CommittedLine(w, n))
AnsweredOK ==
  /\ acked \subseteq VersionSet
  /\ \A w \in acked :
       Written(journal, w) /\ (status = "up" /\ w.token # None => db.fence >= w.token)

(* The inductive invariant.                                                *)
DriveInv ==
  /\ IndexOK(db) /\ RefsExact(db) /\ journal \in Seq(LineSet)
  /\ FilesOK /\ PutOK /\ AnsweredOK

(* An empty index has nothing to count.                                    *)
LEMMA EmptyExact == RefsExact(EmptyIndex)
BY DEF EmptyIndex, RefsExact, Uses

(* An empty volume has it all.                                             *)
LEMMA DriveStarts == Init => DriveInv
<1> SUFFICES ASSUME Init PROVE DriveInv
  OBVIOUS
<1>1. IndexOK(db) /\ RefsExact(db)
  BY EmptyOK, EmptyExact DEF Init
<1>2. journal \in Seq(LineSet)
  BY EmptySeq DEF Init
<1>3. FilesOK /\ PutOK
  BY DEF Init, FilesOK, PutOK, PutRow, Idle, Writing
<1>4. AnsweredOK
  BY DEF Init, AnsweredOK
<1>5. QED
  BY <1>1, <1>2, <1>3, <1>4 DEF DriveInv

(* A cut line is neither a corrupt one nor a commit.                       *)
LEMMA LinesDiffer == Corrupt # Torn /\ \A v, n : CommittedLine(v, n) # Torn
<1>1. \A v, n : CommittedLine(v, n).type # Torn.type
  BY DEF CommittedLine, Torn
<1>2. Corrupt.type # Torn.type
  BY DEF Corrupt, Torn
<1>3. QED
  BY <1>1, <1>2

(* A journal that only got longer, under a fence that only rose, still     *)
(* speaks for the answers.                                                 *)
LEMMA AnswersKept ==
  ASSUME DriveInv, Longer(journal'), acked' = acked, IndexOK(db'),
         status' = "up" => status = "up" /\ db'.fence >= db.fence
  PROVE  AnsweredOK'
<1> SUFFICES ASSUME NEW w \in acked
             PROVE  /\ Written(journal', w)
                    /\ status' = "up" /\ w.token # None => db'.fence >= w.token
  BY DEF DriveInv, AnsweredOK
<1>1. /\ Written(journal, w) /\ w \in VersionSet
      /\ status = "up" /\ w.token # None => db.fence >= w.token
  BY DEF DriveInv, AnsweredOK
<1>2. w.token \in Tokens
  BY <1>1 DEF VersionSet
<1>3. w.token # None => w.token \in Int
  BY <1>2, TokenIsNumber
<1>4. db.fence \in Int /\ db'.fence \in Int
  BY DEF DriveInv, IndexOK, Index
<1>5. status' = "up" /\ w.token # None => db'.fence >= w.token
  BY <1>1, <1>3, <1>4
<1>6. Corrupt # Torn /\ \A n : CommittedLine(w, n) # Torn
  BY LinesDiffer
<1>7. Written(journal', w)
  BY <1>1, <1>6 DEF Written, Longer, Holds
<1>8. QED
  BY <1>5, <1>7

(* Streams that go on find their sessions, and those that end need none.   *)
LEMMA StreamsKept ==
  ASSUME PutOK, Going(db, db'), status' = status,
         \A p \in Put : put'[p] = put[p] \/ ~Writing(p)'
  PROVE  PutOK'
BY DEF PutOK, Going, GoesOn, Writing

-----------------------------------------------------------------------------
(* The steps.                                                              *)

(* What a step that answers nothing has to show.                           *)
LEMMA Preserved ==
  ASSUME DriveInv, Onward(db, db'), Longer(journal'), acked' = acked, FilesOK', PutOK',
         status' = "up" => status = "up"
  PROVE  DriveInv'
<1>1. AnsweredOK'
  BY AnswersKept DEF Onward
<1>2. IndexOK(db') /\ RefsExact(db') /\ journal' \in Seq(LineSet)
  BY DEF Onward, Longer
<1>3. QED
  BY <1>1, <1>2 DEF DriveInv

(* A journal that stays as it is.                                          *)
LEMMA SameJournal ==
  ASSUME DriveInv, journal' = journal
  PROVE  Longer(journal')
BY DEF DriveInv, Longer

(* An index that stays as it is.                                           *)
LEMMA SameIndex ==
  ASSUME DriveInv, db' = db
  PROVE  Onward(db, db')
BY DEF DriveInv, Onward, Going, GoesOn, IndexOK, Index

(* A stream ends.                                                          *)
LEMMA EndsOK ==
  ASSUME DriveInv, NEW p \in Put, Ends(p)
  PROVE  put' \in [Put -> PutRow] /\ \A q \in Put : put'[q] = put[q] \/ ~Writing(q)'
<1> DEFINE r == [Idle EXCEPT !.pc = "done"]
<1>1. r \in PutRow /\ r.pc = "done"
  BY DEF Idle, PutRow
<1>2. put \in [Put -> PutRow]
  BY DEF DriveInv, FilesOK
<1>3. put' = [put EXCEPT ![p] = r]
  BY DEF Ends
<1> HIDE DEF r
<1>4. put' \in [Put -> PutRow] /\ \A q \in Put : put'[q] = put[q] \/ put'[q].pc = "done"
  BY <1>1, <1>2, <1>3
<1>5. QED
  BY <1>4 DEF Writing

(* The streams end with the process.                                       *)
LEMMA DiesOK ==
  ASSUME DriveInv, Dies
  PROVE  status' = "down" /\ put' \in [Put -> PutRow] /\ PutOK'
<1> DEFINE r == [Idle EXCEPT !.pc = "done"]
<1>1. r \in PutRow /\ r.pc = "done" /\ Idle \in PutRow /\ Idle.pc = "idle"
  BY DEF Idle, PutRow
<1>2. put' = [p \in Put |-> IF put[p].pc = "idle" THEN Idle ELSE r] /\ status' = "down"
  BY DEF Dies
<1> HIDE DEF r
<1>3. put' \in [Put -> PutRow] /\ \A p \in Put : put'[p].pc \in {"idle", "done"}
  BY <1>1, <1>2
<1>4. QED
  BY <1>2, <1>3 DEF PutOK, Writing

(* The file of an upload that is given up.                                 *)
LEMMA DiscardedOK ==
  ASSUME DriveInv, NEW d, NEW u \in Upload
  PROVE  Discarded(d, u) \in [Upload -> Put \cup {None}]
BY DEF DriveInv, FilesOK, Discarded

(* An upload that is aborted is no longer pending.                         *)
LEMMA AbortEnds ==
  ASSUME NEW d, d \in Index, NEW u \in Upload
  PROVE  Aborted(d, u).upload[u].state # "pending"
<1> DEFINE e == [d EXCEPT !.upload[u].state = "aborted", !.idle = @ \ {u}]
           b == d.upload[u].bytes
<1>1. CASE d.upload[u].state = "committed"
  BY <1>1 DEF Aborted
<1>2. CASE d.upload[u].state # "committed"
  <2>1. Aborted(d, u) = Released(e, b)
    BY <1>2 DEF Aborted
  <2>2. e.upload[u].state = "aborted" /\ Released(e, b).upload = e.upload
    BY DEF Index, UploadRow, Released
  <2>3. QED
    BY <2>1, <2>2
<1>3. QED
  BY <1>1, <1>2

(* What giving up does to the index.                                       *)
LEMMA GivesUpIndex ==
  ASSUME DriveInv, NEW p \in Put, Writing(p), NEW n \in 0..1,
         NEW d, IndexOK(d), Aside(db, d), Going(db, d), GivesUp(p, d, n)
  PROVE  /\ IndexOK(db') /\ Aside(db, db') /\ Going(db, db')
         /\ put[p].upload \in Upload /\ db'.upload[put[p].upload].state # "pending"
<1> DEFINE u == put[p].upload
           t == Touched(d, u, n)
<1>1. u \in Upload /\ db.upload[u].state # "none"
  BY DEF DriveInv, PutOK
<1>2. d.upload[u].state # "none"
  BY <1>1 DEF Going, GoesOn
<1>3. db' = Aborted(t, u)
  BY DEF GivesUp
<1>4. IndexOK(db') /\ Aside(d, db')
  BY <1>1, <1>2, <1>3, GivenUpOK
<1>5. IndexOK(t) /\ t.upload[u].state # "none" /\ Going(d, t)
  BY <1>1, <1>2, TouchedOK, GoingSession DEF IndexOK
<1>6. Going(t, db') /\ db'.upload[u].state # "pending"
  <2> HIDE DEF t, u
  <2>1. QED
    BY <1>1, <1>3, <1>5, GoingSession, AbortEnds DEF IndexOK
<1>7. Aside(db, db') /\ Going(db, db')
  <2> HIDE DEF t, u
  <2>1. QED
    BY <1>4, <1>5, <1>6, GoingTwice DEF Aside
<1>8. QED
  BY <1>1, <1>4, <1>6, <1>7

(* A handler that gives up.                                                *)
LEMMA GivesUpOK ==
  ASSUME DriveInv, NEW p \in Put, Writing(p), NEW n \in 0..1,
         NEW d, IndexOK(d), Aside(db, d), Going(db, d), GivesUp(p, d, n),
         Longer(journal'), cas' \in [Sha -> Put \cup {None}]
  PROVE  DriveInv'
<1>1. /\ \E e : staging' = Discarded(e, put[p].upload)
      /\ Ends(p) /\ content' = content /\ status' = status /\ acked' = acked
  BY DEF GivesUp, historyVars
<1>2. IndexOK(db') /\ Aside(db, db') /\ Going(db, db') /\ put[p].upload \in Upload
  BY GivesUpIndex
<1>3. Onward(db, db')
  BY <1>2, AsideOnward DEF DriveInv
<1>4. put' \in [Put -> PutRow] /\ \A q \in Put : put'[q] = put[q] \/ ~Writing(q)'
  BY <1>1, EndsOK
<1>5. PutOK'
  BY <1>1, <1>3, <1>4, StreamsKept DEF DriveInv, Onward
<1>6. FilesOK'
  BY <1>1, <1>2, <1>4, DiscardedOK DEF DriveInv, FilesOK
<1>7. QED
  BY <1>1, <1>3, <1>5, <1>6, Preserved

(* A stream may be charged.                                                *)
LEMMA ChargedStream ==
  ASSUME DriveInv, NEW p \in Put, Writing(p), MayCharge(p)
  PROVE  /\ put[p].upload \in Upload /\ status = "up"
         /\ db.upload[put[p].upload].state # "none"
         /\ IndexOK(Charge(p)) /\ Aside(db, Charge(p)) /\ Going(db, Charge(p))
<1> DEFINE u == put[p].upload
<1>1. /\ u \in Upload /\ status = "up" /\ MayCharge(p)
      /\ put[p].charged \in 0..1 /\ db.upload[u].state # "none"
  BY DEF DriveInv, PutOK
<1>2. IndexOK(Charge(p)) /\ Aside(db, Charge(p))
  BY <1>1, ChargeOK DEF DriveInv
<1>3. Going(db, Charge(p))
  <2>1. CASE put[p].charged = 1
    BY <2>1 DEF Charge, Going, GoesOn
  <2>2. CASE put[p].charged # 1
    <3> DEFINE e == [db EXCEPT !.daily = @ + 1]
    <3>1. db.daily + 1 \in 0..Quota
      BY <1>1, <2>2, DriveAssumption DEF MayCharge, DriveInv, IndexOK, Index
    <3>2. e \in Index /\ e.upload = db.upload
      BY <3>1 DEF DriveInv, IndexOK, Index
    <3>3. Charge(p) = Touched(e, u, 1)
      BY <2>2 DEF Charge
    <3> HIDE DEF e, u
    <3>4. Going(e, Touched(e, u, 1))
      BY <1>1, <3>2, GoingSession
    <3>5. QED
      BY <3>2, <3>3, <3>4 DEF Going, GoesOn
  <2>3. QED
    BY <2>1, <2>2
<1>4. QED
  BY <1>1, <1>2, <1>3

(* A stream at its end.                                                    *)
LEMMA FinishingOK ==
  ASSUME DriveInv, NEW p \in Put, Finishing(p)
  PROVE  /\ Writing(p) /\ put[p].upload \in Upload /\ status = "up"
         /\ db.upload[put[p].upload].state # "none"
         /\ IndexOK(Charge(p)) /\ Aside(db, Charge(p)) /\ Going(db, Charge(p))
<1>1. Writing(p) /\ MayCharge(p)
  BY DEF Finishing, Writing
<1>2. QED
  BY <1>1, ChargedStream

(* The version a commit would write, and its line.                         *)
LEMMA VersionOK ==
  ASSUME DriveInv, NEW p \in Put, Finishing(p)
  PROVE  /\ VersionOf(p) \in VersionSet /\ LineOf(p) \in LineSet
         /\ \E n \in Name : LineOf(p) = CommittedLine(VersionOf(p), n)
<1> DEFINE u == db.upload[put[p].upload]
<1>1. /\ Writing(p) /\ put[p].upload \in Upload /\ u.state # "none"
  BY FinishingOK
<1>2. put[p].sha \in Sha
  BY <1>1 DEF DriveInv, PutOK
<1>3. u.art \in Artifact /\ u.name \in Name /\ u.token \in Tokens
  BY <1>1 DEF DriveInv, IndexOK, Registered
<1>4. NextSeq(db, u.art) \in Nat
  BY NextSeqOK DEF DriveInv
<1>5. VersionOf(p) \in VersionSet
  BY <1>1, <1>2, <1>3, <1>4 DEF VersionOf, VersionSet
<1>6. LineOf(p) = CommittedLine(VersionOf(p), u.name)
  BY DEF LineOf
<1>7. LineOf(p) \in LineSet
  BY <1>3, <1>5, <1>6 DEF LineSet
<1>8. QED
  BY <1>3, <1>5, <1>6, <1>7

(* The file of a hash.                                                     *)
LEMMA MaterializedOK ==
  ASSUME DriveInv, NEW p \in Put, Finishing(p)
  PROVE  Materialized(p) \in [Sha -> Put \cup {None}]
<1>1. put[p].upload \in Upload
  BY FinishingOK
<1>2. cas \in [Sha -> Put \cup {None}] /\ staging[put[p].upload] \in Put \cup {None}
  BY <1>1 DEF DriveInv, FilesOK
<1>3. QED
  BY <1>2 DEF Materialized

(* A registration writes no version: the new row and session are sound.    *)
LEMMA RegisterStep ==
  ASSUME DriveInv, NEW u \in Upload, NEW n \in Name, NEW a \in Artifact, NEW t \in Tokens,
         Register(u, n, a, t)
  PROVE  DriveInv'
<1>1. /\ IndexOK(db')
      /\ db'.versions = db.versions /\ db'.refs = db.refs /\ db'.fence = db.fence
      /\ \A w \in Upload : db.upload[w].state # "none" => db'.upload[w] = db.upload[w]
  BY RegisterOK DEF DriveInv
<1>2. Going(db, db')
  BY <1>1 DEF Going, GoesOn
<1>3. Onward(db, db')
  BY <1>1, <1>2, RefsKept DEF DriveInv, Onward, IndexOK, Index
<1>4. /\ journal' = journal /\ UNCHANGED <<staging, cas, content, put, status, acked>>
  BY DEF Register, fileVars, historyVars
<1>5. PutOK'
  BY <1>2, <1>4, StreamsKept DEF DriveInv
<1>6. FilesOK'
  BY <1>4 DEF DriveInv, FilesOK
<1>7. QED
  BY <1>3, <1>4, <1>5, <1>6, SameJournal, Preserved

(* A stream opens on a registered upload.                                  *)
LEMMA PutOpenStep ==
  ASSUME DriveInv, NEW p \in Put, NEW u \in Upload, NEW s \in Sha, PutOpen(p, u, s)
  PROVE  DriveInv'
<1> DEFINE file == IF staging[u] = None THEN p ELSE staging[u]
           r == [pc |-> "open", upload |-> u, sha |-> s, file |-> file, charged |-> 0]
<1>1. file \in Put
  BY DEF DriveInv, FilesOK
<1>2. /\ status = "up" /\ db.upload[u].state = "pending"
      /\ staging' = [staging EXCEPT ![u] = file]
      /\ content' = [content EXCEPT ![file] = "short"]
      /\ put' = [put EXCEPT ![p] = r]
      /\ UNCHANGED <<db, journal, cas, status, acked>>
  BY DEF PutOpen, historyVars
<1> HIDE DEF file
<1>3. r \in PutRow
  BY <1>1 DEF PutRow
<1>4. FilesOK'
  <2> HIDE DEF r
  <2>1. QED
    BY <1>1, <1>2, <1>3 DEF DriveInv, FilesOK
<1>5. PutOK'
  <2> SUFFICES ASSUME NEW q \in Put, Writing(q)'
               PROVE  /\ status' = "up"
                      /\ put'[q].upload \in Upload /\ put'[q].sha \in Sha
                      /\ put'[q].file \in Put /\ put'[q].charged \in 0..1
                      /\ db'.upload[put'[q].upload].state # "none"
    BY DEF PutOK
  <2>1. put \in [Put -> PutRow]
    BY DEF DriveInv, FilesOK
  <2>2. CASE q = p
    <3>1. put'[q] = r
      BY <1>2, <2>1, <2>2
    <3>2. QED
      BY <1>1, <1>2, <3>1
  <2>3. CASE q # p
    <3>1. put'[q] = put[q]
      BY <1>2, <2>1, <2>3
    <3>2. QED
      BY <1>2, <3>1 DEF DriveInv, PutOK, Writing
  <2>4. QED
    BY <2>2, <2>3
<1>6. QED
  BY <1>2, <1>4, <1>5, SameJournal, SameIndex, Preserved

(* The bytes of a stream arrive, charged or not.                           *)
LEMMA PutBytesStep ==
  ASSUME DriveInv, NEW p \in Put, NEW flushes \in BOOLEAN, PutBytes(p, flushes)
  PROVE  DriveInv'
<1> DEFINE c == IF flushes THEN 1 ELSE 0
           r == [put[p] EXCEPT !.pc = "sent", !.charged = c]
<1>1. /\ Writing(p) /\ (flushes => MayCharge(p))
      /\ content' = [content EXCEPT ![put[p].file] = put[p].sha]
      /\ db' = IF flushes THEN Charge(p) ELSE db
      /\ UNCHANGED <<journal, staging, cas, status, acked>>
  BY DEF PutBytes, Writing, historyVars
<1>2. put \in [Put -> PutRow]
  BY DEF DriveInv, FilesOK
<1>3. put' = [put EXCEPT ![p] = r]
  BY <1>2 DEF PutBytes
<1>4. /\ r \in PutRow /\ r.upload = put[p].upload /\ r.sha = put[p].sha
      /\ r.file = put[p].file /\ r.charged \in 0..1
  <2>1. c \in 0..1
    OBVIOUS
  <2>2. put[p] \in PutRow
    BY <1>2
  <2> HIDE DEF c
  <2>3. QED
    BY <2>1, <2>2 DEF PutRow
<1> HIDE DEF c, r
<1>5. Onward(db, db')
  <2>1. CASE flushes
    BY <1>1, <2>1, ChargedStream, AsideOnward DEF DriveInv
  <2>2. CASE ~flushes
    BY <1>1, <2>2, SameIndex
  <2>3. QED
    BY <2>1, <2>2
<1>6. FilesOK'
  <2>1. put[p].file \in Put /\ put[p].sha \in Sha
    BY <1>1 DEF DriveInv, PutOK
  <2>2. QED
    BY <1>1, <1>2, <1>3, <1>4, <2>1 DEF DriveInv, FilesOK
<1>7. PutOK'
  <2> SUFFICES ASSUME NEW q \in Put, Writing(q)'
               PROVE  /\ status' = "up"
                      /\ put'[q].upload \in Upload /\ put'[q].sha \in Sha
                      /\ put'[q].file \in Put /\ put'[q].charged \in 0..1
                      /\ db'.upload[put'[q].upload].state # "none"
    BY DEF PutOK
  <2>1. CASE q = p
    <3>1. put'[q] = r
      BY <1>2, <1>3, <2>1
    <3>2. QED
      BY <1>1, <1>4, <1>5, <2>1, <3>1 DEF DriveInv, PutOK, Onward, Going, GoesOn
  <2>2. CASE q # p
    <3>1. put'[q] = put[q]
      BY <1>2, <1>3, <2>2
    <3>2. QED
      BY <1>1, <1>5, <3>1 DEF DriveInv, PutOK, Writing, Onward, Going, GoesOn
  <2>3. QED
    BY <2>1, <2>2
<1>8. QED
  BY <1>1, <1>5, <1>6, <1>7, SameJournal, Preserved

(* A stream fails.                                                         *)
LEMMA PutFailStep ==
  ASSUME DriveInv, NEW p \in Put, PutFail(p)
  PROVE  DriveInv'
<1>1. /\ Writing(p) /\ GivesUp(p, db, put[p].charged)
      /\ journal' = journal /\ cas' = cas
  BY DEF PutFail, Writing
<1>2. put[p].charged \in 0..1 /\ cas \in [Sha -> Put \cup {None}]
  BY <1>1 DEF DriveInv, PutOK, FilesOK
<1>3. IndexOK(db) /\ Aside(db, db) /\ Going(db, db)
  BY DEF DriveInv, Aside, Going, GoesOn
<1>4. QED
  BY <1>1, <1>2, <1>3, SameJournal, GivesUpOK

(* A second stream of a committed upload is answered.                      *)
LEMMA PutReplayedStep ==
  ASSUME DriveInv, NEW p \in Put, PutReplayed(p)
  PROVE  DriveInv'
<1>1. /\ Finishing(p) /\ db' = Charge(p) /\ Ends(p) /\ journal' = journal
      /\ UNCHANGED <<staging, cas, content, status, acked>>
  BY DEF PutReplayed, fileVars, historyVars
<1>2. Onward(db, db')
  BY <1>1, FinishingOK, AsideOnward DEF DriveInv
<1>3. put' \in [Put -> PutRow] /\ \A q \in Put : put'[q] = put[q] \/ ~Writing(q)'
  BY <1>1, EndsOK
<1>4. PutOK'
  BY <1>1, <1>2, <1>3, StreamsKept DEF DriveInv, Onward
<1>5. FilesOK'
  BY <1>1, <1>3 DEF DriveInv, FilesOK
<1>6. QED
  BY <1>1, <1>2, <1>4, <1>5, SameJournal, Preserved

(* A stream whose upload ended, or whose token is old, is refused.         *)
LEMMA PutRefusedStep ==
  ASSUME DriveInv, NEW p \in Put, PutRefused(p)
  PROVE  DriveInv'
<1>1. /\ Finishing(p) /\ GivesUp(p, Charge(p), 1) /\ journal' = journal /\ cas' = cas
  BY DEF PutRefused
<1>2. cas \in [Sha -> Put \cup {None}] /\ 1 \in 0..1
  BY DEF DriveInv, FilesOK
<1>3. QED
  BY <1>1, <1>2, FinishingOK, SameJournal, GivesUpOK

(* A commit that a constraint stops writes its aborted line.               *)
LEMMA PutBlockedStep ==
  ASSUME DriveInv, NEW p \in Put, PutBlocked(p)
  PROVE  DriveInv'
<1>1. /\ Finishing(p) /\ GivesUp(p, Charge(p), 1)
      /\ journal' \in Appended(AbortedLine(p)) /\ cas' = cas
  BY DEF PutBlocked
<1>2. cas \in [Sha -> Put \cup {None}] /\ 1 \in 0..1 /\ journal \in Seq(LineSet)
  BY DEF DriveInv, FilesOK
<1>3. AbortedLine(p) \in LineSet
  BY DEF LineSet
<1>4. Longer(journal')
  BY <1>1, <1>2, <1>3, AppendedOK
<1>5. QED
  BY <1>1, <1>2, <1>4, FinishingOK, GivesUpOK

(* The line of a commit goes into the journal, or runs into a cut one.     *)
LEMMA LineWritten ==
  ASSUME DriveInv, NEW p \in Put, Finishing(p), NEW j \in Appended(LineOf(p))
  PROVE  /\ Longer(j)
         /\ Holds(j, Corrupt) \/ \E n \in Name : Holds(j, CommittedLine(VersionOf(p), n))
<1>1. journal \in Seq(LineSet)
  BY DEF DriveInv
<1>2. QED
  BY <1>1, VersionOK, AppendedOK

(* A commit that fails writes its line, and the one that calls it off, a   *)
(* piece of that, or no more.                                              *)
LEMMA PutIoErrorStep ==
  ASSUME DriveInv, NEW p \in Put, NEW renamed \in BOOLEAN, NEW said \in BOOLEAN,
         PutIoError(p, renamed, said)
  PROVE  DriveInv'
<1>1. /\ Finishing(p) /\ GivesUp(p, Charge(p), 1)
      /\ cas' = IF renamed THEN Materialized(p) ELSE cas
      /\ \E j \in Appended(LineOf(p)) :
           journal' = Append(j, AbortedLine(p)) \/ journal' = j \/ journal' = Append(j, Torn)
  BY DEF PutIoError, Commits
<1>2. PICK j \in Appended(LineOf(p)) :
        journal' = Append(j, AbortedLine(p)) \/ journal' = j \/ journal' = Append(j, Torn)
  BY <1>1
<1>3. Longer(j)
  BY <1>1, LineWritten
<1>4. AbortedLine(p) \in LineSet /\ Torn \in LineSet
  BY DEF LineSet
<1>5. Longer(journal')
  BY <1>2, <1>3, <1>4, PlainAppend DEF Longer
<1>6. cas' \in [Sha -> Put \cup {None}]
  BY <1>1, MaterializedOK DEF DriveInv, FilesOK
<1>7. 1 \in 0..1
  OBVIOUS
<1>8. QED
  BY <1>1, <1>5, <1>6, <1>7, FinishingOK, GivesUpOK

(* A failed append leaves a piece, or nothing.                             *)
LEMMA PutUnwrittenStep ==
  ASSUME DriveInv, NEW p \in Put, PutUnwritten(p)
  PROVE  DriveInv'
<1>1. /\ Finishing(p) /\ GivesUp(p, Charge(p), 1) /\ cas' = cas
      /\ \/ journal' = journal \/ journal' = Cut \/ journal' \in Appended(AbortedLine(p))
         \/ journal' = Append(Cut, AbortedLine(p)) \/ journal' = Append(journal, Corrupt)
  BY DEF PutUnwritten
<1>2. cas \in [Sha -> Put \cup {None}] /\ 1 \in 0..1 /\ journal \in Seq(LineSet)
  BY DEF DriveInv, FilesOK
<1>3. AbortedLine(p) \in LineSet /\ Torn \in LineSet /\ Corrupt \in LineSet
  BY DEF LineSet
<1>4. Longer(Cut) /\ Longer(journal)
  BY <1>2, <1>3, PlainAppend DEF Cut, Longer
<1>5. Longer(Append(Cut, AbortedLine(p))) /\ Longer(Append(journal, Corrupt))
  BY <1>3, <1>4, PlainAppend DEF Longer
<1>6. Longer(journal')
  BY <1>1, <1>2, <1>3, <1>4, <1>5, AppendedOK
<1>7. QED
  BY <1>1, <1>2, <1>6, FinishingOK, GivesUpOK

(* An upload is aborted.                                                   *)
LEMMA AbortUploadStep ==
  ASSUME DriveInv, NEW u \in Upload, AbortUpload(u)
  PROVE  DriveInv'
<1>1. /\ db.upload[u].state # "none" /\ db' = Aborted(db, u) /\ staging' = Discarded(db, u)
      /\ journal' = journal /\ UNCHANGED <<cas, content, put, status, acked>>
  BY DEF AbortUpload, historyVars
<1>2. IndexOK(db') /\ Aside(db, db') /\ Going(db, db')
  BY <1>1, AbortedOK, AsideSession, GoingSession DEF DriveInv, IndexOK
<1>3. Onward(db, db')
  BY <1>2, AsideOnward DEF DriveInv
<1>4. PutOK'
  BY <1>1, <1>2, StreamsKept DEF DriveInv
<1>5. FilesOK'
  BY <1>1, DiscardedOK DEF DriveInv, FilesOK
<1>6. QED
  BY <1>1, <1>3, <1>4, <1>5, SameJournal, Preserved

(* Time passes for an upload.                                              *)
LEMMA ElapseStep ==
  ASSUME DriveInv, NEW u \in Upload, Elapse(u)
  PROVE  DriveInv'
<1>1. journal' = journal /\ UNCHANGED <<staging, cas, content, put, status, acked>>
  BY DEF Elapse, fileVars, historyVars
<1>2. IndexOK(db') /\ Aside(db, db') /\ Going(db, db')
  BY ElapseOK DEF DriveInv, Going, GoesOn
<1>3. Onward(db, db')
  BY <1>2, AsideOnward DEF DriveInv
<1>4. PutOK'
  BY <1>1, <1>2, StreamsKept DEF DriveInv
<1>5. FilesOK'
  BY <1>1 DEF DriveInv, FilesOK
<1>6. QED
  BY <1>1, <1>3, <1>4, <1>5, SameJournal, Preserved

(* The sweep expires uploads and removes their files.                      *)
LEMMA SweepStep ==
  ASSUME DriveInv, Sweep
  PROVE  DriveInv'
<1>1. /\ journal' = journal /\ UNCHANGED <<cas, content, put, status, acked>>
      /\ \E gone : staging' = [u \in Upload |-> IF u \in gone THEN None ELSE staging[u]]
  BY DEF Sweep, historyVars
<1>2. IndexOK(db') /\ Aside(db, db') /\ Going(db, db')
  <2>1. IndexOK(db)
    BY DEF DriveInv
  <2>2. IndexOK(db') /\ Aside(db, db')
    BY <2>1, SweepOK
  <2>3. Going(db, db')
    <3>1. \A u \in Upload :
            /\ db.upload[u].state # "none" => db'.upload[u].state # "none"
            /\ db'.upload[u].art = db.upload[u].art
            /\ db'.upload[u].state = "pending" => db.upload[u].state = "pending"
      BY <2>1, SweepOK
    <3>2. \A u \in Upload : GoesOn(db.upload[u], db'.upload[u])
      BY <3>1 DEF GoesOn
    <3>3. QED
      BY <3>2 DEF Going
  <2>4. QED
    BY <2>2, <2>3
<1>3. Onward(db, db')
  BY <1>2, AsideOnward DEF DriveInv
<1>4. PutOK'
  BY <1>1, <1>2, StreamsKept DEF DriveInv
<1>5. FilesOK'
  BY <1>1 DEF DriveInv, FilesOK
<1>6. QED
  BY <1>1, <1>3, <1>4, <1>5, SameJournal, Preserved

(* A commit: its token has passed the fence, and its line is written.      *)
LEMMA PutCommittedStep ==
  ASSUME DriveInv, NEW p \in Put, PutCommitted(p)
  PROVE  DriveInv'
<1> DEFINE u == put[p].upload
           v == VersionOf(p)
           c == Charge(p)
<1>1. /\ Finishing(p) /\ Insertable(db, v) /\ FenceOk(db, v.token)
      /\ db' = Committed(c, u, v) /\ journal' \in Appended(LineOf(p))
      /\ cas' = Materialized(p) /\ staging' = [staging EXCEPT ![u] = None]
      /\ acked' = acked \cup {v} /\ Ends(p) /\ UNCHANGED <<content, status>>
  BY DEF PutCommitted, Commits
<1>2. /\ u \in Upload /\ status = "up" /\ db.upload[u].state # "none"
      /\ IndexOK(c) /\ Aside(db, c) /\ Going(db, c)
  BY <1>1, FinishingOK
<1>3. v \in VersionSet /\ v.token \in Tokens \cup {None}
  BY <1>1, VersionOK DEF VersionSet
<1>4. Materialized(p) \in [Sha -> Put \cup {None}]
  BY <1>1, MaterializedOK
<1>5. /\ Longer(journal')
      /\ Holds(journal', Corrupt) \/ \E n \in Name : Holds(journal', CommittedLine(v, n))
  BY <1>1, LineWritten
<1> HIDE DEF u, c
<1>6. v \notin db.versions
  <2> HIDE DEF v
  <2>1. QED
    BY <1>1 DEF Insertable, Conflicts
<1> HIDE DEF v
<1>7. RefsExact(c) /\ v \notin c.versions /\ c.fence = db.fence /\ c.upload[u].state # "none"
  BY <1>2, <1>6, RefsKept DEF DriveInv, Aside, Going, GoesOn
<1>8. IndexOK(db') /\ RefsExact(db') /\ db'.fence = Raised(c, v.token)
  BY <1>1, <1>2, <1>3, <1>7, CommittedOK
<1>9. /\ db.fence \in Nat \cup {-1} /\ db'.fence \in Nat \cup {-1}
      /\ db'.fence >= db.fence /\ (v.token # None => db'.fence >= v.token)
  <2>1. db.fence \in Nat \cup {-1}
    BY DEF DriveInv, IndexOK, Index
  <2>2. QED
    BY <1>3, <1>7, <1>8, <2>1, FenceRises
<1>10. Going(db, db')
  <2>1. Going(c, db')
    BY <1>1, <1>2, <1>7, GoingSession DEF IndexOK
  <2>2. QED
    BY <1>2, <2>1, GoingTwice
<1>11. put' \in [Put -> PutRow] /\ \A q \in Put : put'[q] = put[q] \/ ~Writing(q)'
  BY <1>1, EndsOK
<1>12. PutOK'
  BY <1>1, <1>10, <1>11, StreamsKept DEF DriveInv
<1>13. FilesOK'
  BY <1>1, <1>2, <1>4, <1>11 DEF DriveInv, FilesOK
<1>14. AnsweredOK'
  <2>1. acked' \subseteq VersionSet
    BY <1>1, <1>3 DEF DriveInv, AnsweredOK
  <2>2. ASSUME NEW w \in acked
        PROVE  Written(journal', w) /\ (w.token # None => db'.fence >= w.token)
    <3>1. /\ Written(journal, w) /\ w \in VersionSet
          /\ w.token # None => db.fence >= w.token
      BY <1>2 DEF DriveInv, AnsweredOK
    <3>2. w.token \in Tokens
      BY <3>1 DEF VersionSet
    <3>3. w.token # None => w.token \in Int
      BY <3>2, TokenIsNumber
    <3>4. Corrupt # Torn /\ \A n : CommittedLine(w, n) # Torn
      BY LinesDiffer
    <3>5. Written(journal', w)
      BY <1>5, <3>1, <3>4 DEF Written, Longer
    <3>6. QED
      BY <1>9, <3>1, <3>3, <3>5
  <2>3. Written(journal', v) /\ (v.token # None => db'.fence >= v.token)
    BY <1>5, <1>9 DEF Written
  <2>4. \A w \in acked' : w \in acked \/ w = v
    BY <1>1
  <2>5. QED
    BY <2>1, <2>2, <2>3, <2>4 DEF AnsweredOK
<1>15. QED
  BY <1>5, <1>8, <1>12, <1>13, <1>14 DEF DriveInv, Longer

(* A delete: a marker, and no current version.                             *)
LEMMA DeleteMarkerStep ==
  ASSUME DriveInv, NEW a \in Artifact, DeleteMarker(a)
  PROVE  DriveInv'
<1> DEFINE n == NextSeq(db, a)
           m == [id |-> <<a, n>>, art |-> a, seq |-> n,
                 sha |-> None, op |-> <<a, n>>, token |-> None]
<1>1. /\ db' = [db EXCEPT !.versions = @ \cup {m}, !.current[a] = None]
      /\ journal' \in Appended(DeleteLine(a))
      /\ UNCHANGED <<staging, cas, content, put, status, acked>>
  BY DEF DeleteMarker, fileVars, historyVars
<1>2. m \in MarkerSet
  <2>1. n \in Nat
    BY NextSeqOK DEF DriveInv
  <2> HIDE DEF n
  <2>2. QED
    BY <2>1 DEF MarkerSet
<1> HIDE DEF m
<1>3. IndexOK(db') /\ db'.fence = db.fence /\ RefsExact(db')
  <2>1. IndexOK(db) /\ RefsExact(db)
    BY DEF DriveInv
  <2>2. db' = Marked(db, a, m)
    BY <1>1 DEF Marked
  <2>3. QED
    BY <1>2, <2>1, <2>2, MarkedOK
<1>4. db'.upload = db.upload
  BY <1>1 DEF DriveInv, IndexOK, Index
<1>5. Onward(db, db') /\ Going(db, db')
  BY <1>3, <1>4 DEF Onward, Going, GoesOn, IndexOK, Index
<1>6. Longer(journal')
  <2>1. DeleteLine(a) \in LineSet /\ journal \in Seq(LineSet)
    BY DEF LineSet, DriveInv
  <2>2. QED
    BY <1>1, <2>1, AppendedOK
<1>7. PutOK' /\ FilesOK'
  BY <1>1, <1>5, StreamsKept DEF DriveInv, FilesOK
<1>8. QED
  BY <1>1, <1>5, <1>6, <1>7, Preserved

(* The line of a restore.                                                  *)
LEMMA MoveLineOK ==
  ASSUME DriveInv, NEW v \in db.versions, v.sha # None
  PROVE  v.art \in Artifact /\ v.id \in Put /\ MoveLine(v.art, v.id) \in LineSet
<1>1. v \in VersionSet \cup MarkerSet
  BY DEF DriveInv, IndexOK, Index
<1>2. v \in VersionSet
  BY <1>1 DEF MarkerSet
<1>3. v.art \in Artifact /\ v.id \in Put
  BY <1>2 DEF VersionSet
<1>4. QED
  BY <1>3 DEF LineSet

(* A restore moves a pointer to a version with bytes.                      *)
LEMMA RestoreStep ==
  ASSUME DriveInv, NEW v \in db.versions, Restore(v)
  PROVE  DriveInv'
<1>1. /\ v.sha # None /\ db' = [db EXCEPT !.current[v.art] = v.id]
      /\ journal' \in Appended(MoveLine(v.art, v.id))
      /\ UNCHANGED <<staging, cas, content, put, status, acked>>
  BY DEF Restore, fileVars, historyVars
<1>2. v.art \in Artifact /\ v.id \in Put /\ MoveLine(v.art, v.id) \in LineSet
  BY <1>1, MoveLineOK
<1>3. /\ IndexOK(db') /\ db'.fence = db.fence /\ db'.versions = db.versions
      /\ db'.refs = db.refs /\ db'.row = db.row /\ db'.upload = db.upload
  BY <1>1, <1>2, PointedOK DEF DriveInv, VersionId
<1>4. Onward(db, db') /\ Going(db, db')
  BY <1>3, AsideOnward DEF DriveInv, Aside, Going, GoesOn
<1>5. Longer(journal')
  BY <1>1, <1>2, AppendedOK DEF DriveInv
<1>6. PutOK' /\ FilesOK'
  BY <1>1, <1>4, StreamsKept DEF DriveInv, FilesOK
<1>7. QED
  BY <1>1, <1>4, <1>5, <1>6, Preserved

(* A collection, whole or cut short.                                       *)
LEMMA CollectsOK ==
  ASSUME DriveInv, NEW C \in SUBSET Artifact, NEW L \in SUBSET Sha, NEW F,
         NEW B \in SUBSET Unreferenced(ChainsPurged(db, C)), Collects(C, L, B, F)
  PROVE  /\ Onward(db, db') /\ Longer(journal') /\ cas' \in [Sha -> Put \cup {None}]
         /\ UNCHANGED <<staging, content, acked>>
<1> DEFINE d == ChainsPurged(db, C)
           e == BlobsPurged(d, B)
<1>1. IndexOK(d) /\ RefsExact(d) /\ d.fence = db.fence
  BY ChainsPurgedOK DEF DriveInv
<1>2. d.upload = db.upload
  BY DEF ChainsPurged, DriveInv, IndexOK, Index
<1>3. B \in SUBSET Unreferenced(d)
  OBVIOUS
<1>4. db' = e
  BY DEF Collects
<1> HIDE DEF d
<1>5. IndexOK(e) /\ RefsExact(e) /\ e.fence = d.fence
  BY <1>1, <1>3, BlobsPurgedOK
<1>6. e.upload = d.upload
  BY <1>1 DEF BlobsPurged, IndexOK, Index
<1> HIDE DEF e
<1>7. Onward(db, db')
  BY <1>1, <1>2, <1>4, <1>5, <1>6 DEF Onward, Going, GoesOn, DriveInv, IndexOK, Index
<1>8. Longer(journal')
  <2>1. \E q \in PurgeLines(L) :
          IF q = <<>> THEN UNCHANGED journal
          ELSE \E j \in Appended(Head(q)) : journal' = j \o Tail(q)
    BY DEF Collects
  <2>2. journal \in Seq(LineSet)
    BY DEF DriveInv
  <2>3. QED
    BY <2>1, <2>2, CollectedLines
<1>9. cas' \in [Sha -> Put \cup {None}]
  BY DEF Collects, DriveInv, FilesOK
<1>10. QED
  BY <1>7, <1>8, <1>9 DEF Collects

(* A whole purge.                                                          *)
LEMMA GcPhase2Step ==
  ASSUME DriveInv, GcPhase2
  PROVE  DriveInv'
<1> DEFINE C == Chains(db)
           B == Unreferenced(ChainsPurged(db, C))
<1>1. C \in SUBSET Artifact /\ B \in SUBSET Sha
  BY DEF Chains, Unreferenced
<1>2. Collects(C, B, B, B) /\ UNCHANGED <<put, status>>
  BY DEF GcPhase2
<1>3. /\ Onward(db, db') /\ Longer(journal') /\ cas' \in [Sha -> Put \cup {None}]
      /\ UNCHANGED <<staging, content, acked>>
  BY <1>1, <1>2, CollectsOK
<1>4. PutOK' /\ FilesOK'
  BY <1>2, <1>3, StreamsKept DEF DriveInv, FilesOK, Onward
<1>5. QED
  BY <1>2, <1>3, <1>4, Preserved

-----------------------------------------------------------------------------
(* Crashes.                                                                *)

(* A crash between calls ends the streams.                                 *)
LEMMA CrashIdleStep ==
  ASSUME DriveInv, CrashIdle
  PROVE  DriveInv'
<1>1. Dies /\ UNCHANGED <<db, journal, staging, cas, content, acked>>
  BY DEF CrashIdle, fileVars, historyVars
<1>2. status' = "down" /\ put' \in [Put -> PutRow] /\ PutOK'
  BY <1>1, DiesOK
<1>3. FilesOK'
  BY <1>1, <1>2 DEF DriveInv, FilesOK
<1>4. QED
  BY <1>1, <1>2, <1>3, SameJournal, SameIndex, Preserved

(* A crash in a commit leaves its line, and perhaps its file.              *)
LEMMA CrashInCommitStep ==
  ASSUME DriveInv, NEW p \in Put, NEW renamed \in BOOLEAN, CrashInCommit(p, renamed)
  PROVE  DriveInv'
<1>1. /\ Finishing(p) /\ Dies /\ db' = Charge(p) /\ journal' \in Appended(LineOf(p))
      /\ UNCHANGED <<content, acked>>
      /\ \/ cas' = Materialized(p) /\ staging' = [staging EXCEPT ![put[p].upload] = None]
         \/ UNCHANGED <<cas, staging>>
  BY DEF CrashInCommit, Commits, historyVars
<1>2. status' = "down" /\ put' \in [Put -> PutRow] /\ PutOK'
  BY <1>1, DiesOK
<1>3. Onward(db, db')
  BY <1>1, FinishingOK, AsideOnward DEF DriveInv
<1>4. Longer(journal')
  BY <1>1, LineWritten
<1>5. Materialized(p) \in [Sha -> Put \cup {None}]
  BY <1>1, MaterializedOK
<1>6. FilesOK'
  BY <1>1, <1>2, <1>5 DEF DriveInv, FilesOK
<1>7. QED
  BY <1>1, <1>2, <1>3, <1>4, <1>6, Preserved

(* A crash in an append leaves a cut line.                                 *)
LEMMA CrashInAppendStep ==
  ASSUME DriveInv, NEW p \in Put, CrashInAppend(p)
  PROVE  DriveInv'
<1>1. /\ Finishing(p) /\ Dies /\ db' = Charge(p)
      /\ journal' = journal \/ journal' = Append(journal, Torn)
      /\ UNCHANGED <<staging, cas, content, acked>>
  BY DEF CrashInAppend, Commits, fileVars, historyVars
<1>2. status' = "down" /\ put' \in [Put -> PutRow] /\ PutOK'
  BY <1>1, DiesOK
<1>3. Onward(db, db')
  BY <1>1, FinishingOK, AsideOnward DEF DriveInv
<1>4. Longer(journal')
  <2>1. journal \in Seq(LineSet) /\ Torn \in LineSet
    BY DEF DriveInv, LineSet
  <2>2. QED
    BY <1>1, <2>1, SameJournal, PlainAppend DEF Longer
<1>5. FilesOK'
  BY <1>1, <1>2 DEF DriveInv, FilesOK
<1>6. QED
  BY <1>1, <1>2, <1>3, <1>4, <1>5, Preserved

(* A crash in a delete or a restore leaves its line.                       *)
LEMMA CrashInPointerStep ==
  ASSUME DriveInv, NEW line \in LineSet, CrashInPointer(line)
  PROVE  DriveInv'
<1>1. /\ Dies /\ journal' \in Appended(line)
      /\ UNCHANGED <<db, staging, cas, content, acked>>
  BY DEF CrashInPointer, fileVars, historyVars
<1>2. status' = "down" /\ put' \in [Put -> PutRow] /\ PutOK'
  BY <1>1, DiesOK
<1>3. Longer(journal')
  BY <1>1, AppendedOK DEF DriveInv
<1>4. FilesOK'
  BY <1>1, <1>2 DEF DriveInv, FilesOK
<1>5. QED
  BY <1>1, <1>2, <1>3, <1>4, SameIndex, Preserved

(* A crash in a purge leaves some of it done.                              *)
LEMMA CrashInGcStep ==
  ASSUME DriveInv, NEW C \in SUBSET Artifact, NEW L \in SUBSET Sha, NEW B \in SUBSET Sha,
         NEW F \in SUBSET Sha, CrashInGc(C, L, B, F)
  PROVE  DriveInv'
<1>1. Dies /\ Collects(C, L, B, F) /\ B \in SUBSET Unreferenced(ChainsPurged(db, C))
  BY DEF CrashInGc
<1>2. status' = "down" /\ put' \in [Put -> PutRow] /\ PutOK'
  BY <1>1, DiesOK
<1>3. /\ Onward(db, db') /\ Longer(journal') /\ cas' \in [Sha -> Put \cup {None}]
      /\ UNCHANGED <<staging, content, acked>>
  BY <1>1, CollectsOK
<1>4. FilesOK'
  BY <1>2, <1>3 DEF DriveInv, FilesOK
<1>5. QED
  BY <1>2, <1>3, <1>4, Preserved

(* Nothing streams while the service is not up.                            *)
LEMMA NothingStreams ==
  ASSUME DriveInv, status # "up", put' = put
  PROVE  PutOK'
BY DEF DriveInv, PutOK, Writing

(* A lost index is an empty one: the answers stay in the journal.          *)
LEMMA LoseIndexStep ==
  ASSUME DriveInv, LoseIndex
  PROVE  DriveInv'
<1>1. /\ status # "up" /\ db' = EmptyIndex /\ status' = "down"
      /\ UNCHANGED <<journal, staging, cas, content, put, acked>>
  BY DEF LoseIndex, fileVars, historyVars
<1>2. IndexOK(db') /\ RefsExact(db')
  BY <1>1, EmptyOK, EmptyExact
<1>3. AnsweredOK'
  BY <1>1, <1>2, SameJournal, AnswersKept
<1>4. PutOK' /\ FilesOK'
  BY <1>1, NothingStreams DEF DriveInv, FilesOK
<1>5. journal' \in Seq(LineSet)
  BY <1>1 DEF DriveInv
<1>6. QED
  BY <1>2, <1>3, <1>4, <1>5 DEF DriveInv

(* A boot that succeeds has found the line of every answer, and raised the *)
(* fence to it.                                                            *)
LEMMA BootStep ==
  ASSUME DriveInv, Boot
  PROVE  DriveInv'
<1>1. /\ status = "down" /\ status' \in {"up", "refused"}
      /\ status' = "refused" => db' = db
      /\ UNCHANGED <<journal, staging, cas, content, put, acked>>
  BY DEF Boot, fileVars, historyVars
<1>2. PutOK' /\ FilesOK'
  BY <1>1, NothingStreams DEF DriveInv, FilesOK
<1>3. CASE status' = "refused"
  <2>1. IndexOK(db') /\ RefsExact(db')
    BY <1>1, <1>3 DEF DriveInv
  <2>2. AnsweredOK'
    BY <1>1, <1>3, <2>1, SameJournal, AnswersKept
  <2>3. QED
    BY <1>1, <1>2, <2>1, <2>2 DEF DriveInv
<1>4. CASE status' = "up"
  <2>1. /\ IndexOK(db') /\ RefsExact(db')
        /\ \A i \in DOMAIN journal :
             /\ journal[i] # Corrupt
             /\ journal[i].type = "committed" /\ journal[i].v.token # None =>
                  db'.fence >= journal[i].v.token
    BY <1>4, BootOK DEF DriveInv
  <2>2. ASSUME NEW w \in acked
        PROVE  Written(journal, w) /\ (w.token # None => db'.fence >= w.token)
    <3>1. Written(journal, w)
      BY DEF DriveInv, AnsweredOK
    <3>2. ~Holds(journal, Corrupt)
      BY <2>1 DEF Holds
    <3>3. PICK n \in Name, i \in DOMAIN journal : journal[i] = CommittedLine(w, n)
      BY <3>1, <3>2 DEF Written, Holds
    <3>4. journal[i].type = "committed" /\ journal[i].v = w
      BY <3>3 DEF CommittedLine
    <3>5. QED
      BY <2>1, <3>1, <3>4
  <2>3. AnsweredOK'
    BY <1>1, <2>2 DEF DriveInv, AnsweredOK
  <2>4. QED
    BY <1>1, <1>2, <2>1, <2>3 DEF DriveInv
<1>5. QED
  BY <1>1, <1>3, <1>4

(* A stutter changes nothing of it.                                        *)
LEMMA DriveStutters == ASSUME DriveInv, UNCHANGED vars PROVE DriveInv'
BY DEF DriveInv, FilesOK, PutOK, Writing, AnsweredOK, vars, fileVars, historyVars

(* What a PUT does.                                                        *)
LEMMA StreamsStep ==
  ASSUME DriveInv, NEW p \in Put, Streams(p)
  PROVE  DriveInv'
BY PutOpenStep, PutBytesStep, PutFailStep, PutReplayedStep, PutRefusedStep, PutBlockedStep,
   PutCommittedStep, PutIoErrorStep, PutUnwrittenStep, CrashInCommitStep,
   CrashInAppendStep DEF Streams

(* What an operator and the collector do.                                  *)
LEMMA OperatesStep ==
  ASSUME DriveInv, Operates
  PROVE  DriveInv'
<1>1. ASSUME NEW a \in Artifact, DeleteMarker(a) \/ CrashInPointer(DeleteLine(a))
      PROVE  DriveInv'
  <2>1. DeleteLine(a) \in LineSet
    BY DEF LineSet
  <2>2. QED
    BY <1>1, <2>1, DeleteMarkerStep, CrashInPointerStep
<1>2. ASSUME NEW v \in db.versions,
             Restore(v) \/ (v.sha # None /\ CrashInPointer(MoveLine(v.art, v.id)))
      PROVE  DriveInv'
  BY <1>2, MoveLineOK, RestoreStep, CrashInPointerStep
<1>3. QED
  BY <1>1, <1>2, GcPhase2Step, CrashInGcStep DEF Operates

(* Every step keeps it.                                                    *)
LEMMA DriveSteps == DriveInv /\ [Next]_vars => DriveInv'
<1> SUFFICES ASSUME DriveInv, [Next]_vars PROVE DriveInv'
  OBVIOUS
<1>1. CASE UNCHANGED vars
  BY <1>1, DriveStutters
<1>2. CASE Next
  BY <1>2, RegisterStep, StreamsStep, AbortUploadStep, ElapseStep, SweepStep, OperatesStep,
     CrashIdleStep, LoseIndexStep, BootStep DEF Next
<1>3. QED
  BY <1>1, <1>2

-----------------------------------------------------------------------------
(* The theorems.                                                           *)

(* At every moment: the index is sound and its counts are exact, every     *)
(* line is one of the journal's, a stream has a registered upload, and the *)
(* fence of a running service has reached the token of every answer.       *)
THEOREM DriveInvariant == Spec => []DriveInv
BY DriveStarts, DriveSteps, PTL DEF Spec

(* Sessions, versions, files and streams keep their kinds: no version but  *)
(* a delete marker lacks its blob or its operation, no upload row is half  *)
(* filled, the daily count stays within the quota.                         *)
THEOREM DriveTyping == Spec => []TypeOK
<1>1. DriveInv => TypeOK
  <2> SUFFICES ASSUME DriveInv PROVE TypeOK
    OBVIOUS
  <2>1. db \in Index /\ \A u \in db.idle : db.upload[u].state # "none"
    BY DEF DriveInv, IndexOK
  <2>2. {v \in db.versions : v.sha # None} \subseteq VersionSet
    BY <2>1 DEF Index, MarkerSet
  <2>3. acked \subseteq VersionSet
    BY DEF DriveInv, AnsweredOK
  <2>4. /\ db.row \in [Artifact -> Name \cup {None}]
        /\ db.refs \in [Sha -> Nat \cup {-1}] /\ db.daily \in 0..Quota
        /\ db.upload \in [Upload -> UploadRow]
        /\ db.idle \subseteq {u \in Upload : db.upload[u].state # "none"}
    BY <2>1 DEF Index
  <2>5. FilesOK
    BY DEF DriveInv
  <2>6. QED
    BY <2>2, <2>3, <2>4, <2>5 DEF TypeOK, FilesOK, UploadRow, UploadState
<1>2. QED
  BY <1>1, DriveInvariant, PTL

(* Refcounts are exact, whenever the service runs: through commits, purges *)
(* cut anywhere, and boots over an index of any age.                       *)
THEOREM RefcountsAreExact == Spec => []RefcountExact
<1>1. DriveInv => RefcountExact
  BY DEF DriveInv, RefcountExact, RefsExact
<1>2. QED
  BY <1>1, DriveInvariant, PTL

(* No commit is answered under a token older than one answered before.     *)
THEOREM StaleFencesAreRefused == Spec => NoStaleFence
<1> DEFINE Fresh == \A v \in acked' \ acked, w \in acked :
                      v.token # None /\ w.token # None => w.token <= v.token
<1>1. DriveInv /\ [Next]_vars => [Fresh]_vars
  <2> SUFFICES ASSUME DriveInv, [Next]_vars, NEW v \in acked' \ acked, NEW w \in acked,
                      v.token # None, w.token # None
               PROVE  w.token <= v.token
    OBVIOUS
  <2>1. acked' # acked
    OBVIOUS
  <2>2. PICK p \in Put : PutCommitted(p)
    BY <2>1 DEF Next, Streams, Operates, Register, PutOpen, PutBytes, PutFail, PutReplayed,
       PutRefused, PutBlocked, PutIoError, PutUnwritten, GivesUp, CrashInCommit, CrashInAppend,
       DeleteMarker, CrashInPointer, Restore, GcPhase2, CrashInGc, Collects, AbortUpload,
       Elapse, Sweep, CrashIdle, LoseIndex, Boot, vars, historyVars
  <2>3. /\ Finishing(p) /\ FenceOk(db, VersionOf(p).token) /\ v = VersionOf(p)
    BY <2>2 DEF PutCommitted, Commits
  <2>4. status = "up" /\ v \in VersionSet
    BY <2>3, FinishingOK, VersionOK
  <2>5. db.fence >= w.token /\ w \in VersionSet
    BY <2>4 DEF DriveInv, AnsweredOK
  <2>6. v.token >= db.fence
    BY <2>3 DEF FenceOk
  <2>7. v.token \in Tokens /\ w.token \in Tokens
    BY <2>4, <2>5 DEF VersionSet
  <2>8. v.token \in Int /\ w.token \in Int
    BY <2>7, TokenIsNumber
  <2>9. db.fence \in Int
    BY DEF DriveInv, IndexOK, Index
  <2>10. QED
    BY <2>5, <2>6, <2>8, <2>9
<1>2. QED
  BY <1>1, DriveInvariant, PTL DEF Spec, NoStaleFence

-----------------------------------------------------------------------------
(* What the journal says: which version each committed line is of, and     *)
(* which it calls off, by their places.                                    *)

CommitsOf(j) ==
  {c \in Nat \X VersionSet :
     c[1] \in DOMAIN j /\ \E n \in Name : j[c[1]] = CommittedLine(c[2], n)}
AbortsOf(j) ==
  {c \in Nat \X Put : c[1] \in DOMAIN j /\ j[c[1]] = AbortedLine(c[2])}

(* Lines of other kinds are neither.                                       *)
Plain(line) == line.type \notin {"committed", "aborted"}

(* A journal k with all of j but a cut line at its end.                    *)
Grown(j, k) ==
  /\ j \in Seq(LineSet) /\ k \in Seq(LineSet) /\ Len(j) <= Len(k)
  /\ \A i \in 1..Len(j) : k[i] = j[i] \/ (j[i] = Torn /\ k[i] = Corrupt)

(* What a longer journal says is what the shorter one said, and what the   *)
(* lines after it say.                                                     *)
LEMMA GrownSays ==
  ASSUME NEW j, NEW k, Grown(j, k)
  PROVE  /\ CommitsOf(j) \subseteq CommitsOf(k) /\ AbortsOf(j) \subseteq AbortsOf(k)
         /\ \A c \in CommitsOf(k) : c \in CommitsOf(j) \/ c[1] > Len(j)
         /\ \A c \in AbortsOf(k) : c \in AbortsOf(j) \/ c[1] > Len(j)
         /\ \A c \in CommitsOf(j) \cup AbortsOf(j) : c[1] <= Len(j)
<1>1. /\ DOMAIN j = 1..Len(j) /\ DOMAIN k = 1..Len(k) /\ Len(j) \in Nat /\ Len(k) \in Nat
      /\ Len(j) <= Len(k)
  BY LenProperties DEF Grown
<1>2. \A i \in 1..Len(j) : k[i] = j[i] \/ (j[i] = Torn /\ k[i] = Corrupt)
  BY DEF Grown
<1>3. /\ \A v, n : CommittedLine(v, n) # Torn /\ CommittedLine(v, n) # Corrupt
      /\ \A id : AbortedLine(id) # Torn /\ AbortedLine(id) # Corrupt
  <2>1. Torn.type = "torn" /\ Corrupt.type = "corrupt"
    BY DEF Torn, Corrupt
  <2>2. \A v, n : CommittedLine(v, n).type = "committed"
    BY DEF CommittedLine
  <2>3. \A id : AbortedLine(id).type = "aborted"
    BY DEF AbortedLine
  <2>4. QED
    BY <2>1, <2>2, <2>3
<1>4. ASSUME NEW c \in CommitsOf(j) PROVE c \in CommitsOf(k) /\ c[1] <= Len(j)
  <2>1. c \in Nat \X VersionSet /\ c[1] \in 1..Len(j)
    BY <1>1 DEF CommitsOf
  <2>2. PICK n \in Name : j[c[1]] = CommittedLine(c[2], n)
    BY DEF CommitsOf
  <2>3. k[c[1]] = CommittedLine(c[2], n) /\ c[1] \in 1..Len(k)
    BY <1>1, <1>2, <1>3, <2>1, <2>2
  <2>4. QED
    BY <1>1, <2>1, <2>3 DEF CommitsOf
<1>5. ASSUME NEW c \in AbortsOf(j) PROVE c \in AbortsOf(k) /\ c[1] <= Len(j)
  <2>1. c \in Nat \X Put /\ c[1] \in 1..Len(j) /\ j[c[1]] = AbortedLine(c[2])
    BY <1>1 DEF AbortsOf
  <2>2. k[c[1]] = AbortedLine(c[2]) /\ c[1] \in 1..Len(k)
    BY <1>1, <1>2, <1>3, <2>1
  <2>3. QED
    BY <1>1, <2>1, <2>2 DEF AbortsOf
<1>6. ASSUME NEW c \in CommitsOf(k) PROVE c \in CommitsOf(j) \/ c[1] > Len(j)
  <2>1. c \in Nat \X VersionSet /\ c[1] \in 1..Len(k)
    BY <1>1 DEF CommitsOf
  <2>2. PICK n \in Name : k[c[1]] = CommittedLine(c[2], n)
    BY DEF CommitsOf
  <2>3. CASE c[1] <= Len(j)
    <3>1. c[1] \in 1..Len(j)
      BY <1>1, <2>1, <2>3
    <3>2. j[c[1]] = CommittedLine(c[2], n)
      BY <1>2, <1>3, <2>2, <3>1
    <3>3. QED
      BY <1>1, <2>1, <3>1, <3>2 DEF CommitsOf
  <2>4. QED
    BY <1>1, <2>1, <2>3
<1>7. ASSUME NEW c \in AbortsOf(k) PROVE c \in AbortsOf(j) \/ c[1] > Len(j)
  <2>1. c \in Nat \X Put /\ c[1] \in 1..Len(k) /\ k[c[1]] = AbortedLine(c[2])
    BY <1>1 DEF AbortsOf
  <2>2. CASE c[1] <= Len(j)
    <3>1. c[1] \in 1..Len(j)
      BY <1>1, <2>1, <2>2
    <3>2. j[c[1]] = AbortedLine(c[2])
      BY <1>2, <1>3, <2>1, <3>1
    <3>3. QED
      BY <1>1, <2>1, <3>1, <3>2 DEF AbortsOf
  <2>3. QED
    BY <1>1, <2>1, <2>2
<1>8. QED
  BY <1>4, <1>5, <1>6, <1>7

(* The same said, in a journal no shorter.                                 *)
SaysSame(j, k) == CommitsOf(k) = CommitsOf(j) /\ AbortsOf(k) = AbortsOf(j)

(* More lines, none of them a commit or an abort, say nothing more.        *)
LEMMA PlainSays ==
  ASSUME NEW j, NEW k, Grown(j, k),
         \A i \in 1..Len(k) : i > Len(j) => Plain(k[i])
  PROVE  SaysSame(j, k)
<1>1. DOMAIN k = 1..Len(k)
  BY LenProperties DEF Grown
<1>2. ASSUME NEW c \in CommitsOf(k) PROVE ~(c[1] > Len(j))
  <2>1. c[1] \in 1..Len(k) /\ k[c[1]].type = "committed"
    BY <1>1 DEF CommitsOf, CommittedLine
  <2>2. QED
    BY <2>1 DEF Plain
<1>3. ASSUME NEW c \in AbortsOf(k) PROVE ~(c[1] > Len(j))
  <2>1. c[1] \in 1..Len(k) /\ k[c[1]].type = "aborted"
    BY <1>1 DEF AbortsOf, AbortedLine
  <2>2. QED
    BY <2>1 DEF Plain
<1>4. QED
  BY <1>2, <1>3, GrownSays DEF SaysSame

(* An append: one line more, or a corrupt one for a cut one.               *)
LEMMA AppendedGrows ==
  ASSUME journal \in Seq(LineSet), NEW line \in LineSet, NEW k \in Appended(line)
  PROVE  /\ Grown(journal, k)
         /\ \/ Len(k) = Len(journal) + 1 /\ k[Len(k)] = line
            \/ Len(k) = Len(journal)
<1> DEFINE L == Len(journal)
<1>1. L \in Nat /\ DOMAIN journal = 1..L
  BY LenProperties
<1>2. CASE k = Append(journal, line)
  <2>1. /\ k \in Seq(LineSet) /\ Len(k) = L + 1 /\ k[L + 1] = line
        /\ \A i \in 1..L : k[i] = journal[i]
    BY <1>2, AppendProperties
  <2>2. QED
    BY <1>1, <2>1 DEF Grown
<1>3. CASE TornTail /\ k = Append(Front(journal), Corrupt)
  <2> DEFINE f == Front(journal)
  <2>1. L # 0 /\ journal[L] = Torn
    BY <1>1, <1>3, EmptySeq DEF TornTail, Last
  <2>2. f \in Seq(LineSet) /\ Len(f) = L - 1 /\ \A i \in 1..(L - 1) : f[i] = journal[i]
    <3>1. f = [i \in 1..(L - 1) |-> journal[i]]
      BY <1>1, <2>1, SubSeqProperties DEF Front
    <3>2. QED
      BY <1>1, <2>1, <3>1, ElementOfSeq, IsASeq
  <2>3. Corrupt \in LineSet
    BY DEF LineSet
  <2> HIDE DEF f
  <2>4. /\ k \in Seq(LineSet) /\ Len(k) = (L - 1) + 1 /\ k[(L - 1) + 1] = Corrupt
        /\ \A i \in 1..(L - 1) : k[i] = f[i]
    BY <1>3, <2>2, <2>3, AppendProperties DEF f
  <2>5. ASSUME NEW i \in 1..L
        PROVE  k[i] = journal[i] \/ (journal[i] = Torn /\ k[i] = Corrupt)
    <3>1. CASE i = L
      BY <1>1, <2>1, <2>4, <3>1
    <3>2. CASE i # L
      <4> HIDE DEF L
      <4>1. i \in 1..(L - 1)
        BY <1>1, <3>2
      <4>2. QED
        BY <2>2, <2>4, <4>1
    <3>3. QED
      BY <3>1, <3>2
  <2>6. QED
    BY <1>1, <2>4, <2>5 DEF Grown
<1>4. QED
  BY <1>2, <1>3 DEF Appended

(* A line at the end of a journal.                                         *)
LEMMA AppendGrows ==
  ASSUME NEW j \in Seq(LineSet), NEW line \in LineSet
  PROVE  LET k == Append(j, line)
         IN  Grown(j, k) /\ Len(k) = Len(j) + 1 /\ k[Len(k)] = line
<1>1. Len(j) \in Nat
  BY LenProperties
<1>2. LET k == Append(j, line)
      IN  /\ k \in Seq(LineSet) /\ Len(k) = Len(j) + 1 /\ k[Len(j) + 1] = line
          /\ \A i \in 1..Len(j) : k[i] = j[i]
  BY AppendProperties
<1>3. QED
  BY <1>1, <1>2 DEF Grown

(* Lines are told apart, and say what they were written with.              *)
LEMMA LinesSay ==
  /\ \A v, w, m, n : CommittedLine(v, m) = CommittedLine(w, n) => v = w
  /\ \A p, q : AbortedLine(p) = AbortedLine(q) => p = q
  /\ \A v, n, p : CommittedLine(v, n) # AbortedLine(p)
<1>1. \A v, n : CommittedLine(v, n).v = v /\ CommittedLine(v, n).type = "committed"
  BY DEF CommittedLine
<1>2. \A p : AbortedLine(p).id = p /\ AbortedLine(p).type = "aborted"
  BY DEF AbortedLine
<1>3. QED
  BY <1>1, <1>2

(* Whatever the journal j says stands before place n.                      *)
After(j, n) == n \in Nat /\ \A x \in CommitsOf(j) \cup AbortsOf(j) : x[1] < n

(* One line more: its commit, or its abort, comes last.                    *)
LEMMA CommitAdded ==
  ASSUME NEW j, NEW k, Grown(j, k), NEW v, NEW n,
         Len(k) = Len(j) \/ (Len(k) = Len(j) + 1 /\ k[Len(k)] = CommittedLine(v, n))
  PROVE  /\ CommitsOf(j) \subseteq CommitsOf(k) /\ AbortsOf(k) = AbortsOf(j)
         /\ \A c \in CommitsOf(k) \ CommitsOf(j) : c = <<Len(k), v>> /\ After(j, Len(k))
<1> DEFINE L == Len(j)
           K == Len(k)
<1>1. /\ DOMAIN k = 1..K /\ K \in Nat /\ L \in Nat
      /\ K = L \/ (K = L + 1 /\ k[K] = CommittedLine(v, n))
  BY LenProperties DEF Grown
<1>2. /\ CommitsOf(j) \subseteq CommitsOf(k) /\ AbortsOf(j) \subseteq AbortsOf(k)
      /\ \A c \in CommitsOf(k) : c \in CommitsOf(j) \/ c[1] > L
      /\ \A c \in AbortsOf(k) : c \in AbortsOf(j) \/ c[1] > L
      /\ \A c \in CommitsOf(j) \cup AbortsOf(j) : c[1] <= L
  BY GrownSays
<1> HIDE DEF L, K
<1>3. ASSUME NEW c \in CommitsOf(k) \ CommitsOf(j)
      PROVE  c = <<K, v>> /\ After(j, K)
  <2>1. c \in Nat \X VersionSet /\ c[1] \in 1..K /\ c[1] > L
    BY <1>1, <1>2 DEF CommitsOf
  <2>2. K = L + 1 /\ k[K] = CommittedLine(v, n) /\ c[1] = K
    BY <1>1, <2>1
  <2>3. PICK m \in Name : k[c[1]] = CommittedLine(c[2], m)
    BY DEF CommitsOf
  <2>4. CommittedLine(c[2], m) = CommittedLine(v, n)
    BY <2>2, <2>3
  <2>5. c[2] = v
    BY <2>4, LinesSay
  <2>6. \A x \in CommitsOf(j) \cup AbortsOf(j) : x[1] \in Nat
    BY DEF CommitsOf, AbortsOf
  <2>7. After(j, K)
    BY <1>1, <1>2, <2>2, <2>6 DEF After
  <2>8. QED
    BY <2>1, <2>2, <2>5, <2>7
<1>4. ASSUME NEW x \in AbortsOf(k), x \notin AbortsOf(j) PROVE FALSE
  <2>1. x[1] \in 1..K /\ k[x[1]] = AbortedLine(x[2]) /\ x[1] > L
    BY <1>1, <1>2, <1>4 DEF AbortsOf
  <2>2. k[x[1]] = CommittedLine(v, n)
    BY <1>1, <2>1
  <2>3. AbortedLine(x[2]) = CommittedLine(v, n)
    BY <2>1, <2>2
  <2>4. QED
    BY <2>3, LinesSay
<1>5. QED
  BY <1>2, <1>3, <1>4 DEF K

(* The same of an aborted line.                                            *)
LEMMA AbortAdded ==
  ASSUME NEW j, NEW k, Grown(j, k), NEW p \in Put,
         Len(k) = Len(j) \/ (Len(k) = Len(j) + 1 /\ k[Len(k)] = AbortedLine(p))
  PROVE  /\ CommitsOf(k) = CommitsOf(j) /\ AbortsOf(j) \subseteq AbortsOf(k)
         /\ \A x \in AbortsOf(k) \ AbortsOf(j) : x = <<Len(k), p>> /\ After(j, Len(k))
         /\ Len(k) = Len(j) + 1 => <<Len(k), p>> \in AbortsOf(k)
<1> DEFINE L == Len(j)
           K == Len(k)
<1>1. /\ DOMAIN k = 1..K /\ K \in Nat /\ L \in Nat
      /\ K = L \/ (K = L + 1 /\ k[K] = AbortedLine(p))
  BY LenProperties DEF Grown
<1>2. /\ CommitsOf(j) \subseteq CommitsOf(k) /\ AbortsOf(j) \subseteq AbortsOf(k)
      /\ \A c \in CommitsOf(k) : c \in CommitsOf(j) \/ c[1] > L
      /\ \A c \in AbortsOf(k) : c \in AbortsOf(j) \/ c[1] > L
      /\ \A c \in CommitsOf(j) \cup AbortsOf(j) : c[1] <= L
  BY GrownSays
<1> HIDE DEF L, K
<1>3. ASSUME NEW c \in AbortsOf(k) \ AbortsOf(j)
      PROVE  c = <<K, p>> /\ After(j, K)
  <2>1. c \in Nat \X Put /\ c[1] \in 1..K /\ k[c[1]] = AbortedLine(c[2]) /\ c[1] > L
    BY <1>1, <1>2 DEF AbortsOf
  <2>2. K = L + 1 /\ k[K] = AbortedLine(p) /\ c[1] = K
    BY <1>1, <2>1
  <2>3. c[2] = p
    BY <2>1, <2>2, LinesSay
  <2>4. \A x \in CommitsOf(j) \cup AbortsOf(j) : x[1] \in Nat
    BY DEF CommitsOf, AbortsOf
  <2>5. After(j, K)
    BY <1>1, <1>2, <2>2, <2>4 DEF After
  <2>6. QED
    BY <2>1, <2>2, <2>3, <2>5
<1>4. ASSUME NEW x \in CommitsOf(k), x \notin CommitsOf(j) PROVE FALSE
  <2>1. x[1] \in 1..K /\ x[1] > L
    BY <1>1, <1>2, <1>4 DEF CommitsOf
  <2>2. PICK m \in Name : k[x[1]] = CommittedLine(x[2], m)
    BY <1>4 DEF CommitsOf
  <2>3. k[x[1]] = AbortedLine(p)
    BY <1>1, <2>1
  <2>4. CommittedLine(x[2], m) = AbortedLine(p)
    BY <2>2, <2>3
  <2>5. QED
    BY <2>4, LinesSay
<1>5. ASSUME K = L + 1 PROVE <<K, p>> \in AbortsOf(k)
  <2>1. K \in 1..K /\ k[K] = AbortedLine(p)
    BY <1>1, <1>5
  <2>2. QED
    BY <1>1, <2>1 DEF AbortsOf
<1>6. QED
  BY <1>2, <1>3, <1>4, <1>5 DEF K, L

-----------------------------------------------------------------------------
(* The order of the journal.                                               *)

(* A version is called off, at all or before a place.                      *)
Called(j, id) == \E x \in AbortsOf(j) : x[2] = id
CalledBy(j, id, n) == \E x \in AbortsOf(j) : x[1] < n /\ x[2] = id

(* Of two commits that clash, the earlier was called off before the later. *)
InOrder(j) ==
  \A c, e \in CommitsOf(j) :
    c[1] < e[1] /\ Clash(c[2], e[2]) => CalledBy(j, c[2].id, e[1])

(* An id is committed once, and called off later.                          *)
Placed(j) ==
  /\ \A c, e \in CommitsOf(j) : c[2].id = e[2].id => c = e
  /\ \A c \in CommitsOf(j), x \in AbortsOf(j) : x[2] = c[2].id => c[1] < x[1]

(* The journal k says what j says, and then perhaps a commit, and then     *)
(* perhaps an abort, of a version of V.                                    *)
Grows(j, k, V) ==
  /\ CommitsOf(j) \subseteq CommitsOf(k) /\ AbortsOf(j) \subseteq AbortsOf(k)
  /\ \A c \in CommitsOf(k) \ CommitsOf(j) :
       /\ c[2] \in V /\ After(j, c[1])
       /\ \A e \in CommitsOf(k) \ CommitsOf(j) : e = c
  /\ \A x \in AbortsOf(k) \ AbortsOf(j) :
       /\ After(j, x[1]) /\ \E v \in V : v.id = x[2]
       /\ \A c \in CommitsOf(k) : c[1] < x[1]

(* Nothing said is nothing grown.                                          *)
LEMMA SameGrows ==
  ASSUME NEW j, NEW k, SaysSame(j, k), NEW V
  PROVE  Grows(j, k, V)
BY DEF SaysSame, Grows

(* A commit's line.                                                        *)
LEMMA CommitGrows ==
  ASSUME journal \in Seq(LineSet), NEW v \in VersionSet, NEW n \in Name,
         NEW k \in Appended(CommittedLine(v, n))
  PROVE  /\ Grows(journal, k, {v}) /\ AbortsOf(k) = AbortsOf(journal)
         /\ k \in Seq(LineSet)
<1>1. CommittedLine(v, n) \in LineSet
  BY DEF LineSet
<1>2. /\ Grown(journal, k)
      /\ Len(k) = Len(journal) \/ (Len(k) = Len(journal) + 1 /\ k[Len(k)] = CommittedLine(v, n))
  BY <1>1, AppendedGrows
<1>3. /\ CommitsOf(journal) \subseteq CommitsOf(k) /\ AbortsOf(k) = AbortsOf(journal)
      /\ \A c \in CommitsOf(k) \ CommitsOf(journal) :
           c = <<Len(k), v>> /\ After(journal, Len(k))
  BY <1>2, CommitAdded
<1>4. QED
  BY <1>2, <1>3 DEF Grows, Grown

(* An aborted line.                                                        *)
LEMMA AbortGrows ==
  ASSUME NEW j, NEW k, Grown(j, k), NEW v \in VersionSet,
         Len(k) = Len(j) \/ (Len(k) = Len(j) + 1 /\ k[Len(k)] = AbortedLine(v.id))
  PROVE  Grows(j, k, {v}) /\ CommitsOf(k) = CommitsOf(j)
<1>1. v.id \in Put
  BY DEF VersionSet
<1>2. /\ CommitsOf(k) = CommitsOf(j) /\ AbortsOf(j) \subseteq AbortsOf(k)
      /\ \A x \in AbortsOf(k) \ AbortsOf(j) : x = <<Len(k), v.id>> /\ After(j, Len(k))
  BY <1>1, AbortAdded
<1>3. QED
  BY <1>2 DEF Grows, After

(* A commit's line and the one that calls it off.                          *)
LEMMA CalledOffGrows ==
  ASSUME journal \in Seq(LineSet), NEW v \in VersionSet, NEW n \in Name,
         NEW j \in Appended(CommittedLine(v, n)), NEW k, Grown(j, k),
         Len(k) = Len(j) + 1, k[Len(k)] = AbortedLine(v.id)
  PROVE  Grows(journal, k, {v}) /\ Called(k, v.id)
<1>1. /\ Grows(journal, j, {v}) /\ AbortsOf(j) = AbortsOf(journal) /\ j \in Seq(LineSet)
  BY CommitGrows
<1>2. v.id \in Put
  BY DEF VersionSet
<1>4. /\ CommitsOf(k) = CommitsOf(j) /\ AbortsOf(j) \subseteq AbortsOf(k)
      /\ \A x \in AbortsOf(k) \ AbortsOf(j) : x = <<Len(k), v.id>> /\ After(j, Len(k))
      /\ <<Len(k), v.id>> \in AbortsOf(k)
  BY <1>2, AbortAdded
<1>5. After(j, Len(k)) => After(journal, Len(k))
  BY <1>1 DEF After, Grows
<1>6. Called(k, v.id)
  BY <1>4 DEF Called
<1>7. \A x \in AbortsOf(k) \ AbortsOf(journal) :
        /\ x = <<Len(k), v.id>> /\ After(journal, Len(k))
        /\ \A c \in CommitsOf(k) : c[1] < Len(k)
  BY <1>1, <1>4, <1>5 DEF After
<1>8. QED
  BY <1>1, <1>4, <1>6, <1>7 DEF Grows

(* A line of another kind.                                                 *)
LEMMA PlainAppended ==
  ASSUME journal \in Seq(LineSet), NEW line \in LineSet, Plain(line),
         NEW k \in Appended(line)
  PROVE  SaysSame(journal, k)
<1>1. /\ Grown(journal, k)
      /\ Len(k) = Len(journal) \/ (Len(k) = Len(journal) + 1 /\ k[Len(k)] = line)
  BY AppendedGrows
<1> DEFINE L == Len(journal)
           K == Len(k)
<1>2. L \in Nat /\ K \in Nat
  BY <1>1, LenProperties DEF Grown
<1>3. K = L \/ (K = L + 1 /\ k[K] = line)
  BY <1>1
<1> HIDE DEF L, K
<1>4. ASSUME NEW i \in 1..K, i > L PROVE Plain(k[i])
  <2>1. i = K /\ k[K] = line
    BY <1>2, <1>3, <1>4
  <2>2. QED
    BY <2>1
<1>5. QED
  BY <1>1, <1>4, PlainSays DEF L, K

(* The lines of a purge are of another kind.                               *)
LEMMA PurgePlain ==
  ASSUME NEW L \in SUBSET Sha, NEW q \in PurgeLines(L), NEW i \in DOMAIN q
  PROVE  Plain(q[i])
<1>1. PICK r \in SetToSeqs(L) : q = [n \in DOMAIN r |-> PurgeLine(r[n])]
  BY DEF PurgeLines
<1>2. q[i] = PurgeLine(r[i])
  BY <1>1
<1>3. q[i].type = "purge"
  BY <1>2 DEF PurgeLine
<1>4. QED
  BY <1>3 DEF Plain

(* A purge's lines say nothing of commits.                                 *)
LEMMA CollectedSays ==
  ASSUME journal \in Seq(LineSet), NEW L \in SUBSET Sha, NEW q \in PurgeLines(L),
         IF q = <<>> THEN UNCHANGED journal
         ELSE \E j \in Appended(Head(q)) : journal' = j \o Tail(q)
  PROVE  SaysSame(journal, journal')
<1>1. q \in Seq(LineSet)
  BY PurgeLinesOK
<1>2. CASE q = <<>>
  BY <1>2 DEF SaysSame
<1>3. CASE q # <<>>
  <2>1. PICK j \in Appended(Head(q)) : journal' = j \o Tail(q)
    BY <1>3
  <2> DEFINE t == Tail(q)
  <2>2. /\ Head(q) \in LineSet /\ t \in Seq(LineSet) /\ Head(q) = q[1] /\ Len(t) = Len(q) - 1
        /\ Len(q) \in Nat /\ Len(q) # 0 /\ \A i \in 1..Len(t) : t[i] = q[i + 1]
        /\ DOMAIN q = 1..Len(q)
    BY <1>1, <1>3, HeadTailProperties, EmptySeq, LenProperties
  <2>3. Plain(Head(q)) /\ \A i \in 1..Len(t) : Plain(t[i])
    BY <2>2, PurgePlain
  <2> HIDE DEF t
  <2>4. j \in Seq(LineSet) /\ SaysSame(journal, j)
    BY <2>2, <2>3, PlainAppended, AppendedGrows DEF Grown
  <2> DEFINE k == j \o t
             J == Len(j)
             T == Len(t)
  <2>5. /\ k \in Seq(LineSet) /\ Len(k) = J + T /\ J \in Nat /\ T \in Nat
        /\ \A i \in 1..(J + T) : k[i] = IF i <= J THEN j[i] ELSE t[i - J]
    BY <2>2, <2>4, ConcatProperties, LenProperties
  <2> HIDE DEF k, J, T
  <2>6. ASSUME NEW i \in 1..(J + T), i > J PROVE Plain(k[i])
    <3>1. k[i] = t[i - J] /\ i - J \in 1..T
      BY <2>5, <2>6
    <3>2. QED
      BY <2>3, <3>1 DEF T
  <2>7. \A i \in 1..J : k[i] = j[i]
    BY <2>5
  <2>8. J <= J + T
    BY <2>5
  <2>9. Grown(j, k)
    BY <2>4, <2>5, <2>7, <2>8 DEF Grown, J
  <2>10. SaysSame(j, k)
    BY <2>5, <2>6, <2>9, PlainSays DEF J
  <2>11. QED
    BY <2>1, <2>4, <2>10 DEF SaysSame, k, t
<1>4. QED
  BY <1>2, <1>3

(* What is in order stays so, when what comes clashes only with what was   *)
(* called off.                                                             *)
LEMMA InOrderGrows ==
  ASSUME NEW j, NEW k, NEW V, Grows(j, k, V), InOrder(j),
         \A c \in CommitsOf(k) \ CommitsOf(j), e \in CommitsOf(j) :
           Clash(e[2], c[2]) => Called(j, e[2].id)
  PROVE  InOrder(k)
<1> SUFFICES ASSUME NEW c \in CommitsOf(k), NEW e \in CommitsOf(k), c[1] < e[1],
                    Clash(c[2], e[2])
             PROVE  CalledBy(k, c[2].id, e[1])
  BY DEF InOrder
<1>1. c[1] \in Nat /\ e[1] \in Nat
  BY DEF CommitsOf
<1>2. CASE e \in CommitsOf(j)
  <2>1. c \in CommitsOf(j)
    BY <1>1, <1>2 DEF Grows, After
  <2>2. CalledBy(j, c[2].id, e[1])
    BY <1>2, <2>1 DEF InOrder
  <2>3. QED
    BY <2>2 DEF CalledBy, Grows
<1>3. CASE e \notin CommitsOf(j)
  <2>1. c # e
    BY <1>1
  <2>2. c \in CommitsOf(j)
    BY <1>3, <2>1 DEF Grows
  <2>3. Called(j, c[2].id)
    BY <1>3, <2>2
  <2>4. QED
    BY <1>3, <2>3 DEF Called, CalledBy, Grows, After
<1>4. QED
  BY <1>2, <1>3

(* Ids keep their place, when those that come are new.                     *)
LEMMA PlacedGrows ==
  ASSUME NEW j, NEW k, NEW V, Grows(j, k, V), Placed(j),
         \A v \in V : ~Called(j, v.id) /\ \A c \in CommitsOf(j) : c[2].id # v.id
  PROVE  Placed(k)
<1>1. ASSUME NEW c \in CommitsOf(k), NEW e \in CommitsOf(k), c[2].id = e[2].id
      PROVE  c = e
  BY <1>1 DEF Placed, Grows
<1>2. ASSUME NEW c \in CommitsOf(k), NEW x \in AbortsOf(k), x[2] = c[2].id
      PROVE  c[1] < x[1]
  BY <1>2 DEF Placed, Grows, Called
<1>3. QED
  BY <1>1, <1>2 DEF Placed

-----------------------------------------------------------------------------
(* What survives.                                                          *)

(* No commit failed without being called off; and the index is lost for    *)
(* the first time, or nothing has been purged yet.                         *)
Intact == unlogged = {} /\ (purged = {} \/ left["loss"] = Bound["loss"])
LeftOK ==
  /\ left \in [{"crash", "torn", "loss", "io", "purge", "operator"} -> Nat]
  /\ left["loss"] <= Bound["loss"]

(* A committed version is in the index, or was purged and its artifact's   *)
(* row is gone, or waits for a boot that can take it in.                   *)
Retained(w) ==
  \/ w \in db.versions
  \/ purged # {} /\ db.row[w.art] = None
  \/ status # "up" /\ ~Conflicts(db, w)
JournalKept == \A c \in CommitsOf(journal) : Called(journal, c[2].id) \/ Retained(c[2])

(* Until the index is lost, a version's upload is known, and its artifact. *)
OfSession(d, w) == d.upload[w.op].state # "none" /\ d.upload[w.op].art = w.art
SessionsKnown ==
  left["loss"] = Bound["loss"] =>
    /\ \A c \in CommitsOf(journal) : OfSession(db, c[2])
    /\ \A w \in db.versions : w.sha # None => OfSession(db, w)

(* The foreign key of the versions.                                        *)
Rooted(d) == \A w \in d.versions : d.row[w.art] # None

(* An id is of one version, and of a stream that has ended.                *)
IdsOK ==
  /\ Placed(journal)
  /\ \A c \in CommitsOf(journal), w \in db.versions : w.id = c[2].id => w = c[2]
Used(id) ==
  \/ \E c \in CommitsOf(journal) : c[2].id = id
  \/ Called(journal, id)
  \/ \E w \in db.versions \cup acked : w.id = id
DoneOK == \A p \in Put : Used(p) => put[p].pc = "done"

(* What was answered was not called off.                                   *)
AnswersStand == \A w \in acked : ~Called(journal, w.id)

(* A stream that may yet commit has its file.                              *)
Staged ==
  \A p \in Put :
    Writing(p) /\ db.upload[put[p].upload].state = "pending" =>
      staging[put[p].upload] # None

(* What was answered is in the index; or the index was lost, and the       *)
(* journal and the files can give it back.                                 *)
Stored == \A w \in acked : w.id \in purged \/ (w \in db.versions /\ cas[w.sha] # None)
Restorable ==
  /\ status # "up" /\ db = EmptyIndex /\ InOrder(journal)
  /\ \A w \in acked : w.id \in purged \/ cas[w.sha] # None

SurvivalInv ==
  /\ LeftOK /\ (Intact => InOrder(journal) /\ JournalKept)
  /\ SessionsKnown /\ Rooted(db) /\ IdsOK /\ DoneOK /\ AnswersStand /\ Staged
  /\ Stored \/ Restorable

-----------------------------------------------------------------------------
(* Steps that add.                                                         *)

(* The index gains the versions of V and delete markers, and rows that no  *)
(* line names.                                                             *)
Gains(V) ==
  /\ db.versions \subseteq db'.versions /\ Going(db, db')
  /\ \A w \in db'.versions \ db.versions :
       db'.row[w.art] # None /\ (w \in MarkerSet \/ w \in V)
  /\ \A a \in Artifact : db.row[a] # None => db'.row[a] # None
  /\ \A c \in CommitsOf(journal) : db.row[c[2].art] = None => db'.row[c[2].art] = None

(* A step that adds to the index, the journal, the files and the answers   *)
(* what concerns a version of V, at most.                                  *)
Adds(V) ==
  /\ Grows(journal, journal', V) /\ Gains(V)
  /\ acked \subseteq acked'
  /\ \A w \in acked' \ acked :
       w \in V /\ w \in db'.versions /\ cas'[w.sha] # None /\ ~Called(journal', w.id)
  /\ purged' = purged /\ unlogged \subseteq unlogged' /\ left'["loss"] = left["loss"]
  /\ \A s \in Sha : cas[s] # None => cas'[s] # None
  /\ \A p \in Put : put[p].pc = "done" => put'[p].pc = "done"
  /\ \A v \in V : v \in VersionSet /\ ~Used(v.id) /\ put'[v.id].pc = "done" /\ OfSession(db, v)
  /\ \A v, w \in V : v = w
  /\ \A c \in CommitsOf(journal') \ CommitsOf(journal) :
       /\ Insertable(db, c[2]) /\ status = "up"
       /\ Called(journal', c[2].id) \/ Retained(c[2])' \/ unlogged' # {}
  /\ status = "up" \/ (db'.versions = db.versions /\ status' = status /\ db # EmptyIndex)

(* What two versions clash in, an index cannot hold both of.               *)
LEMMA ClashConflicts ==
  ASSUME NEW d, NEW w \in d.versions, NEW v, Clash(w, v)
  PROVE  Conflicts(d, v)
BY DEF Clash, Conflicts

(* Ids and operations of versions and of delete markers are apart.         *)
LEMMA MarkersApart ==
  ASSUME NEW v \in VersionSet, NEW m \in MarkerSet
  PROVE  v.id # m.id /\ v.op # m.op /\ v # m
BY DriveAssumption DEF VersionSet, MarkerSet

(* What is put in clashes with nothing that a boot would bring back.       *)
LEMMA NewClashesNot ==
  ASSUME DriveInv, SurvivalInv, Intact, status = "up",
         NEW v \in VersionSet, ~Used(v.id), OfSession(db, v), Insertable(db, v),
         NEW c \in CommitsOf(journal), Clash(c[2], v)
  PROVE  Called(journal, c[2].id)
<1> SUFFICES ASSUME ~Called(journal, c[2].id) PROVE FALSE
  OBVIOUS
<1>1. Retained(c[2])
  BY DEF SurvivalInv, JournalKept
<1>2. c[2].id # v.id
  BY DEF Used
<1>3. c[2] \notin db.versions
  BY ClashConflicts DEF Insertable
<1>4. purged # {} /\ db.row[c[2].art] = None
  BY <1>1, <1>3 DEF Retained
<1>5. left["loss"] = Bound["loss"]
  BY <1>4 DEF Intact
<1>6. OfSession(db, c[2])
  BY <1>5 DEF SurvivalInv, SessionsKnown
<1>7. c[2].art = v.art
  BY <1>2, <1>6 DEF Clash, OfSession
<1>8. QED
  BY <1>4, <1>7 DEF Insertable

(* Such a step keeps the journal in order.                                 *)
LEMMA AddsInOrder ==
  ASSUME DriveInv, SurvivalInv, NEW V, Adds(V), Intact'
  PROVE  InOrder(journal')
<1>1. Intact
  BY DEF Intact, Adds
<1>2. InOrder(journal) /\ Grows(journal, journal', V)
  BY <1>1 DEF SurvivalInv, Adds
<1>3. ASSUME NEW c \in CommitsOf(journal') \ CommitsOf(journal), NEW e \in CommitsOf(journal),
             Clash(e[2], c[2])
      PROVE  Called(journal, e[2].id)
  <2>1. c[2] \in V /\ Insertable(db, c[2]) /\ status = "up"
    BY <1>2 DEF Adds, Grows
  <2>2. c[2] \in VersionSet /\ ~Used(c[2].id) /\ OfSession(db, c[2])
    BY <2>1 DEF Adds
  <2>3. QED
    BY <1>1, <1>3, <2>1, <2>2, NewClashesNot
<1>4. QED
  BY <1>2, <1>3, InOrderGrows

(* And every committed version where a boot finds it.                      *)
LEMMA AddsKept ==
  ASSUME DriveInv, SurvivalInv, NEW V, Adds(V), Intact'
  PROVE  JournalKept'
<1>1. Intact /\ Grows(journal, journal', V) /\ Gains(V)
  BY DEF Intact, Adds
<1>2. \A id : Called(journal, id) => Called(journal', id)
  BY <1>1 DEF Grows, Called
<1> SUFFICES ASSUME NEW c \in CommitsOf(journal')
             PROVE  Called(journal', c[2].id) \/ Retained(c[2])'
  BY DEF JournalKept
<1>3. CASE c \notin CommitsOf(journal)
  BY <1>3 DEF Adds, Intact
<1>4. CASE c \in CommitsOf(journal)
  <2>1. Called(journal, c[2].id) \/ Retained(c[2])
    BY <1>1, <1>4 DEF SurvivalInv, JournalKept
  <2>2. CASE Called(journal, c[2].id)
    BY <1>2, <2>2
  <2>3. CASE c[2] \in db.versions
    BY <1>1, <2>3 DEF Gains, Retained
  <2>4. CASE purged # {} /\ db.row[c[2].art] = None
    BY <1>1, <1>4, <2>4 DEF Gains, Retained, Adds
  <2>5. CASE status # "up" /\ ~Conflicts(db, c[2])
    <3>1. db'.versions = db.versions /\ status' # "up"
      BY <2>5 DEF Adds
    <3>2. ~Conflicts(db', c[2])
      BY <2>5, <3>1 DEF Conflicts
    <3>3. QED
      BY <3>1, <3>2 DEF Retained
  <2>6. QED
    BY <2>1, <2>2, <2>3, <2>4, <2>5 DEF Retained
<1>5. QED
  BY <1>3, <1>4

(* Sessions go on.                                                         *)
LEMMA SessionGoes ==
  ASSUME NEW d, NEW e, Going(d, e), NEW w, w.op \in Upload, OfSession(d, w)
  PROVE  OfSession(e, w)
BY DEF Going, GoesOn, OfSession

(* A version with bytes is a version of an upload.                         *)
LEMMA BytesOfUpload ==
  ASSUME NEW d, IndexOK(d), NEW w \in d.versions, w.sha # None
  PROVE  w \in VersionSet /\ w.op \in Upload
<1>1. w \in VersionSet \cup MarkerSet
  BY DEF IndexOK, Index
<1>2. w \in VersionSet
  BY <1>1 DEF MarkerSet
<1>3. QED
  BY <1>2 DEF VersionSet

(* A version put in is of a session that is known.                         *)
LEMMA AddsSessions ==
  ASSUME DriveInv, SurvivalInv, NEW V, Adds(V)
  PROVE  SessionsKnown'
<1>1. Going(db, db') /\ Grows(journal, journal', V) /\ Gains(V)
  BY DEF Adds, Gains
<1> SUFFICES ASSUME left["loss"]' = Bound["loss"]
             PROVE  /\ \A c \in CommitsOf(journal') : OfSession(db', c[2])
                    /\ \A w \in db'.versions : w.sha # None => OfSession(db', w)
  BY DEF SessionsKnown
<1>2. left["loss"] = Bound["loss"]
  BY DEF Adds
<1>3. \A v \in V : v \in VersionSet /\ OfSession(db, v) /\ v.op \in Upload
  BY DEF Adds, VersionSet
<1>4. ASSUME NEW c \in CommitsOf(journal') PROVE OfSession(db', c[2])
  <2>1. OfSession(db, c[2])
    BY <1>1, <1>2, <1>3 DEF SurvivalInv, SessionsKnown, Grows
  <2>2. c[2].op \in Upload
    BY DEF CommitsOf, VersionSet
  <2>3. QED
    BY <1>1, <2>1, <2>2, SessionGoes
<1>5. ASSUME NEW w \in db'.versions, w.sha # None PROVE OfSession(db', w)
  <2>1. CASE w \in db.versions
    <3>1. w.op \in Upload /\ OfSession(db, w)
      BY <1>2, <1>5, <2>1, BytesOfUpload DEF DriveInv, SurvivalInv, SessionsKnown
    <3>2. QED
      BY <1>1, <3>1, SessionGoes
  <2>2. CASE w \in V
    BY <1>1, <1>3, <2>2, SessionGoes
  <2>3. CASE w \in MarkerSet
    BY <1>5, <2>3 DEF MarkerSet
  <2>4. QED
    BY <1>1, <2>1, <2>2, <2>3 DEF Gains
<1>6. QED
  BY <1>4, <1>5

(* Rows stay, and ids are of one version.                                  *)
LEMMA AddsIds ==
  ASSUME DriveInv, SurvivalInv, NEW V, Adds(V)
  PROVE  Rooted(db') /\ IdsOK'
<1>1. Grows(journal, journal', V) /\ Gains(V)
  BY DEF Adds
<1>2. \A v \in V : v \in VersionSet /\ ~Used(v.id)
  BY DEF Adds
<1>3. ASSUME NEW w \in db'.versions PROVE db'.row[w.art] # None
  <2>1. CASE w \in db.versions
    <3>1. w.art \in Artifact
      BY <2>1 DEF DriveInv, IndexOK, Index, VersionSet, MarkerSet
    <3>2. QED
      BY <1>1, <2>1, <3>1 DEF SurvivalInv, Rooted, Gains
  <2>2. QED
    BY <1>1, <2>1 DEF Gains
<1>4. Placed(journal')
  BY <1>1, <1>2, PlacedGrows DEF SurvivalInv, IdsOK, Used
<1>5. ASSUME NEW c \in CommitsOf(journal'), NEW w \in db'.versions, w.id = c[2].id
      PROVE  w = c[2]
  <2>0. c[2] \in VersionSet
    BY DEF CommitsOf
  <2>1. CASE w \in db.versions
    <3>1. c \in CommitsOf(journal)
      <4>1. Used(c[2].id)
        BY <1>5, <2>1 DEF Used
      <4>2. QED
        BY <1>1, <1>2, <4>1 DEF Grows
    <3>2. QED
      BY <1>5, <2>1, <3>1 DEF SurvivalInv, IdsOK
  <2>2. CASE w \in V
    <3>1. c \notin CommitsOf(journal)
      BY <1>2, <1>5, <2>2 DEF Used
    <3>2. c[2] \in V
      BY <1>1, <3>1 DEF Grows
    <3>3. QED
      BY <2>2, <3>2 DEF Adds
  <2>3. CASE w \in MarkerSet
    BY <1>5, <2>0, <2>3, MarkersApart
  <2>4. QED
    BY <1>1, <2>1, <2>2, <2>3 DEF Gains
<1>6. QED
  BY <1>3, <1>4, <1>5 DEF Rooted, IdsOK

(* What is used is done with, and answers are not called off.              *)
LEMMA AddsDone ==
  ASSUME DriveInv, SurvivalInv, NEW V, Adds(V)
  PROVE  DoneOK' /\ AnswersStand'
<1>1. Grows(journal, journal', V) /\ Gains(V)
  BY DEF Adds
<1>2. \A v \in V : ~Used(v.id) /\ put'[v.id].pc = "done"
  BY DEF Adds
<1>3. ASSUME NEW p \in Put, Used(p)' PROVE put'[p].pc = "done"
  <2>1. CASE Used(p)
    BY <2>1 DEF SurvivalInv, DoneOK, Adds
  <2>2. CASE \E v \in V : v.id = p
    BY <1>2, <2>2
  <2>3. Used(p) \/ \E v \in V : v.id = p
    <3>1. CASE \E c \in CommitsOf(journal') : c[2].id = p
      BY <1>1, <3>1 DEF Used, Grows
    <3>2. CASE Called(journal', p)
      BY <1>1, <3>2 DEF Used, Called, Grows
    <3>3. CASE \E w \in acked' : w.id = p
      BY <3>3 DEF Used, Adds
    <3>4. CASE \E w \in db'.versions : w.id = p
      <4>1. PICK w \in db'.versions : w.id = p
        BY <3>4
      <4>2. w \notin MarkerSet
        BY <4>1, DriveAssumption DEF MarkerSet
      <4>3. QED
        BY <1>1, <4>1, <4>2 DEF Used, Gains
    <3>5. QED
      BY <1>3, <3>1, <3>2, <3>3, <3>4 DEF Used
  <2>4. QED
    BY <2>1, <2>2, <2>3
<1>4. ASSUME NEW w \in acked' PROVE ~Called(journal', w.id)
  <2>1. CASE w \in acked
    <3>1. ~Called(journal, w.id) /\ Used(w.id)
      BY <2>1 DEF SurvivalInv, AnswersStand, Used
    <3>2. QED
      BY <1>1, <1>2, <3>1 DEF Called, Grows
  <2>2. QED
    BY <2>1 DEF Adds
<1>5. QED
  BY <1>3, <1>4 DEF DoneOK, AnswersStand

(* A step that adds keeps the invariant.                                   *)
LEMMA AddsKeeps ==
  ASSUME DriveInv, SurvivalInv, NEW V, Adds(V), LeftOK', Staged'
  PROVE  SurvivalInv'
<1>1. Stored'
  <2>1. Stored
    BY DEF Adds, SurvivalInv, Restorable
  <2>2. \A w \in acked : w.sha \in Sha
    BY DEF DriveInv, AnsweredOK, VersionSet
  <2>3. \A w \in acked : w.id \in purged' \/ (w \in db'.versions /\ cas'[w.sha] # None)
    BY <2>1, <2>2 DEF Stored, Adds, Gains
  <2>4. QED
    BY <2>3 DEF Stored, Adds
<1>2. Intact' => InOrder(journal') /\ JournalKept'
  BY AddsInOrder, AddsKept
<1>3. QED
  BY <1>1, <1>2, AddsSessions, AddsIds, AddsDone DEF SurvivalInv

-----------------------------------------------------------------------------
(* What the steps leave.                                                   *)

(* A fault, or an operator's call, is paid for.                            *)
LEMMA SpendOK ==
  ASSUME LeftOK, NEW what \in {"crash", "torn", "loss", "io", "purge", "operator"}, Spend(what)
  PROVE  /\ LeftOK' /\ (what # "loss" => left'["loss"] = left["loss"])
         /\ (what = "loss" => left'["loss"] < left["loss"])
<1>1. /\ left[what] \in Nat /\ left[what] > 0 /\ left' = [left EXCEPT ![what] = @ - 1]
      /\ left["loss"] \in Nat
  BY DEF LeftOK, Spend
<1>2. left[what] - 1 \in Nat
  BY <1>1
<1>3. left' \in [{"crash", "torn", "loss", "io", "purge", "operator"} -> Nat]
  BY <1>1, <1>2 DEF LeftOK
<1>4. /\ (what # "loss" => left'["loss"] = left["loss"])
      /\ (what = "loss" => left'["loss"] = left["loss"] - 1)
  BY <1>1 DEF LeftOK
<1>5. Bound["loss"] \in Nat /\ Bound' = Bound
  BY DriveAssumption
<1>6. left'["loss"] <= Bound["loss"]
  BY <1>1, <1>4, <1>5 DEF LeftOK
<1>7. QED
  BY <1>1, <1>3, <1>4, <1>6 DEF LeftOK

(* A step that pays for nothing.                                           *)
LEMMA LeftKept ==
  ASSUME LeftOK, left' = left
  PROVE  LeftOK' /\ left'["loss"] = left["loss"]
BY DEF LeftOK

(* A stream's file stays while its upload is pending.                      *)
LEMMA StagedKept ==
  ASSUME DriveInv, Staged, Going(db, db'),
         \A p \in Put : Writing(p)' =>
           (Writing(p) /\ put'[p].upload = put[p].upload) \/ staging'[put'[p].upload] # None,
         \A u \in Upload : staging[u] # None =>
           staging'[u] # None \/ db'.upload[u].state # "pending"
  PROVE  Staged'
<1> SUFFICES ASSUME NEW p \in Put, Writing(p)',
                    db'.upload[put'[p].upload].state = "pending"
             PROVE  staging'[put'[p].upload] # None
  BY DEF Staged
<1>1. CASE Writing(p) /\ put'[p].upload = put[p].upload
  <2>1. put[p].upload \in Upload /\ db.upload[put[p].upload].state # "none"
    BY <1>1 DEF DriveInv, PutOK
  <2>2. db.upload[put[p].upload].state = "pending"
    BY <1>1, <2>1 DEF Going, GoesOn
  <2>3. QED
    BY <1>1, <2>1, <2>2 DEF Staged
<1>2. QED
  BY <1>1

(* A crash leaves no stream.                                               *)
LEMMA StagedDies ==
  ASSUME DriveInv, Dies
  PROVE  Staged' /\ \A p \in Put : put[p].pc = "done" => put'[p].pc = "done"
<1>1. ASSUME NEW p \in Put PROVE ~Writing(p)'
  BY DEF Dies, Writing, Idle
<1>2. ASSUME NEW p \in Put, put[p].pc = "done" PROVE put'[p].pc = "done"
  BY <1>2 DEF Dies, Idle
<1>3. QED
  BY <1>1, <1>2 DEF Staged

(* One stream ends, and the others go on.                                  *)
LEMMA OthersGoOn ==
  ASSUME DriveInv, NEW p \in Put, Ends(p)
  PROVE  /\ put'[p].pc = "done"
         /\ \A q \in Put : put[q].pc = "done" => put'[q].pc = "done"
         /\ \A q \in Put : Writing(q)' => Writing(q) /\ put'[q].upload = put[q].upload
<1>1. put \in [Put -> PutRow]
  BY DEF DriveInv, FilesOK
<1>2. put'[p].pc = "done" /\ \A q \in Put : q # p => put'[q] = put[q]
  BY <1>1 DEF Ends, Idle
<1>3. QED
  BY <1>2 DEF Writing

(* A step that commits nothing.                                            *)
Quiet ==
  /\ SaysSame(journal, journal') /\ Aside(db, db') /\ Going(db, db')
  /\ acked' = acked /\ purged' = purged /\ unlogged' = unlogged
  /\ left'["loss"] = left["loss"]
  /\ \A s \in Sha : cas[s] # None => cas'[s] # None
  /\ \A p \in Put : put[p].pc = "done" => put'[p].pc = "done"
  /\ status = "up" \/ (status' = status /\ db # EmptyIndex)

(* Such a step adds nothing.                                               *)
LEMMA QuietAdds ==
  ASSUME Quiet
  PROVE  Adds({})
<1>1. Grows(journal, journal', {})
  BY SameGrows DEF Quiet
<1>2. Gains({})
  BY DEF Quiet, Gains, Aside
<1>3. CommitsOf(journal') = CommitsOf(journal)
  BY DEF Quiet, SaysSame
<1>4. db'.versions = db.versions
  BY DEF Quiet, Aside
<1>5. QED
  BY <1>1, <1>2, <1>3, <1>4 DEF Quiet, Adds

(* The same journal says the same.                                         *)
LEMMA SameSays == ASSUME journal' = journal PROVE SaysSame(journal, journal')
BY DEF SaysSame

(* An upload handler's catch.                                              *)
LEMMA GivesUpQuiet ==
  ASSUME DriveInv, SurvivalInv, NEW p \in Put, Writing(p), NEW n \in 0..1,
         NEW d, IndexOK(d), Aside(db, d), Going(db, d), GivesUp(p, d, n)
  PROVE  /\ Staged' /\ Aside(db, db') /\ Going(db, db')
         /\ put'[p].pc = "done" /\ \A q \in Put : put[q].pc = "done" => put'[q].pc = "done"
         /\ status = "up" /\ UNCHANGED <<status, acked, purged>>
<1>1. /\ IndexOK(db') /\ Aside(db, db') /\ Going(db, db')
      /\ put[p].upload \in Upload /\ db'.upload[put[p].upload].state # "pending"
  BY GivesUpIndex
<1>2. Ends(p) /\ UNCHANGED <<status, acked, purged>> /\ staging' = Discarded(d, put[p].upload)
  BY DEF GivesUp, historyVars
<1>3. status = "up"
  BY DEF DriveInv, PutOK
<1>4. /\ put'[p].pc = "done" /\ \A q \in Put : put[q].pc = "done" => put'[q].pc = "done"
      /\ \A q \in Put : Writing(q)' => Writing(q) /\ put'[q].upload = put[q].upload
  BY <1>2, OthersGoOn
<1>5. \A u \in Upload : staging[u] # None =>
        staging'[u] # None \/ db'.upload[u].state # "pending"
  BY <1>1, <1>2 DEF Discarded, DriveInv, FilesOK
<1>6. Staged
  BY DEF SurvivalInv
<1>7. Staged'
  BY <1>1, <1>4, <1>5, <1>6, StagedKept
<1>8. QED
  BY <1>1, <1>2, <1>3, <1>4, <1>7

(* The index as it is goes on.                                             *)
LEMMA SameGoes ==
  ASSUME NEW d, NEW e, e = d
  PROVE  Aside(d, e) /\ Going(d, e)
BY DEF Aside, Going, GoesOn

(* A stream opens, and its upload has a file.                              *)
LEMMA PutOpenSurvives ==
  ASSUME DriveInv, SurvivalInv, NEW p \in Put, NEW u \in Upload, NEW s \in Sha,
         PutOpen(p, u, s)
  PROVE  SurvivalInv'
<1>1. /\ status = "up" /\ put[p].pc = "idle"
      /\ staging' = [staging EXCEPT ![u] = IF staging[u] = None THEN p ELSE staging[u]]
      /\ \E f : put' = [put EXCEPT ![p] = [pc |-> "open", upload |-> u, sha |-> s,
                                           file |-> f, charged |-> 0]]
      /\ UNCHANGED <<db, journal, cas, status, acked, purged, unlogged, left>>
  BY DEF PutOpen, historyVars
<1>2. /\ put \in [Put -> PutRow] /\ staging \in [Upload -> Put \cup {None}]
  BY DEF DriveInv, FilesOK
<1>3. put'[p].upload = u /\ staging'[u] # None
  BY <1>1, <1>2, DriveAssumption
<1>4. \A q \in Put : Writing(q)' =>
        (Writing(q) /\ put'[q].upload = put[q].upload) \/ staging'[put'[q].upload] # None
  BY <1>1, <1>2, <1>3 DEF Writing
<1>5. \A w \in Upload : staging[w] # None => staging'[w] # None
  BY <1>1, <1>2
<1>6. Aside(db, db') /\ Going(db, db') /\ SaysSame(journal, journal')
  BY <1>1, SameGoes, SameSays
<1>7. LeftOK' /\ left'["loss"] = left["loss"]
  BY <1>1, LeftKept DEF SurvivalInv
<1>8. Staged'
  BY <1>4, <1>5, <1>6, StagedKept DEF SurvivalInv
<1>9. \A q \in Put : put[q].pc = "done" => put'[q].pc = "done"
  BY <1>1, <1>2
<1>10. Adds({})
  BY <1>1, <1>6, <1>7, <1>9, QuietAdds DEF Quiet
<1>11. QED
  BY <1>7, <1>8, <1>10, AddsKeeps

(* A body's end commits nothing yet.                                       *)
LEMMA PutBytesSurvives ==
  ASSUME DriveInv, SurvivalInv, NEW p \in Put, NEW flushes \in BOOLEAN, PutBytes(p, flushes)
  PROVE  SurvivalInv'
<1>1. /\ put[p].pc = "open" /\ (flushes => MayCharge(p))
      /\ \E c : put' = [put EXCEPT ![p].pc = "sent", ![p].charged = c]
      /\ db' = IF flushes THEN Charge(p) ELSE db
      /\ UNCHANGED <<journal, staging, cas, status, acked, purged, unlogged, left>>
  BY DEF PutBytes, historyVars
<1>2. put \in [Put -> PutRow] /\ staging \in [Upload -> Put \cup {None}]
  BY DEF DriveInv, FilesOK
<1>3. Writing(p) /\ status = "up"
  BY <1>1 DEF Writing, DriveInv, PutOK
<1>4. Aside(db, db') /\ Going(db, db')
  BY <1>1, <1>3, ChargedStream, SameGoes
<1>5. \A q \in Put : Writing(q)' => Writing(q) /\ put'[q].upload = put[q].upload
  BY <1>1, <1>2 DEF Writing, PutRow
<1>6. LeftOK' /\ left'["loss"] = left["loss"]
  BY <1>1, LeftKept DEF SurvivalInv
<1>7. Staged'
  BY <1>1, <1>4, <1>5, StagedKept DEF SurvivalInv
<1>8. \A q \in Put : put[q].pc = "done" => put'[q].pc = "done"
  BY <1>1, <1>2
<1>9. SaysSame(journal, journal')
  BY <1>1, SameSays
<1>10. Adds({})
  BY <1>1, <1>3, <1>4, <1>6, <1>8, <1>9, QuietAdds DEF Quiet
<1>11. QED
  BY <1>6, <1>7, <1>10, AddsKeeps

(* A stream that breaks off aborts its upload with its file.               *)
LEMMA PutFailSurvives ==
  ASSUME DriveInv, SurvivalInv, NEW p \in Put, PutFail(p)
  PROVE  SurvivalInv'
<1>1. Writing(p) /\ GivesUp(p, db, put[p].charged) /\ UNCHANGED <<journal, cas, unlogged, left>>
  BY DEF PutFail, Writing
<1>2. put[p].charged \in 0..1 /\ IndexOK(db)
  BY <1>1 DEF DriveInv, PutOK
<1>3. /\ Staged' /\ Aside(db, db') /\ Going(db, db')
      /\ put'[p].pc = "done" /\ \A q \in Put : put[q].pc = "done" => put'[q].pc = "done"
      /\ status = "up" /\ UNCHANGED <<status, acked, purged>>
  BY <1>1, <1>2, SameGoes, GivesUpQuiet
<1>4. LeftOK' /\ left'["loss"] = left["loss"] /\ SaysSame(journal, journal')
  BY <1>1, LeftKept, SameSays DEF SurvivalInv
<1>5. Adds({})
  BY <1>1, <1>3, <1>4, QuietAdds DEF Quiet
<1>6. QED
  BY <1>3, <1>4, <1>5, AddsKeeps

(* A refused commit writes nothing.                                        *)
LEMMA PutRefusedSurvives ==
  ASSUME DriveInv, SurvivalInv, NEW p \in Put, PutRefused(p)
  PROVE  SurvivalInv'
<1>1. Finishing(p) /\ GivesUp(p, Charge(p), 1) /\ UNCHANGED <<journal, cas, unlogged, left>>
  BY DEF PutRefused
<1>2. Writing(p) /\ IndexOK(Charge(p)) /\ Aside(db, Charge(p)) /\ Going(db, Charge(p))
  BY <1>1, FinishingOK
<1>3. /\ Staged' /\ Aside(db, db') /\ Going(db, db')
      /\ put'[p].pc = "done" /\ \A q \in Put : put[q].pc = "done" => put'[q].pc = "done"
      /\ status = "up" /\ UNCHANGED <<status, acked, purged>>
  <2>1. 1 \in 0..1
    OBVIOUS
  <2>2. QED
    BY <1>1, <1>2, <2>1, GivesUpQuiet
<1>4. LeftOK' /\ left'["loss"] = left["loss"] /\ SaysSame(journal, journal')
  BY <1>1, LeftKept, SameSays DEF SurvivalInv
<1>5. Adds({})
  BY <1>1, <1>3, <1>4, QuietAdds DEF Quiet
<1>6. QED
  BY <1>3, <1>4, <1>5, AddsKeeps

(* A PUT of a committed upload is answered with what there is.             *)
LEMMA PutReplayedSurvives ==
  ASSUME DriveInv, SurvivalInv, NEW p \in Put, PutReplayed(p)
  PROVE  SurvivalInv'
<1>1. /\ Finishing(p) /\ db' = Charge(p) /\ Ends(p)
      /\ UNCHANGED <<journal, staging, cas, status, acked, purged, unlogged, left>>
  BY DEF PutReplayed, fileVars, historyVars
<1>2. Writing(p) /\ status = "up" /\ Aside(db, db') /\ Going(db, db')
  BY <1>1, FinishingOK
<1>3. /\ \A q \in Put : put[q].pc = "done" => put'[q].pc = "done"
      /\ \A q \in Put : Writing(q)' => Writing(q) /\ put'[q].upload = put[q].upload
  BY <1>1, OthersGoOn
<1>4. LeftOK' /\ left'["loss"] = left["loss"] /\ SaysSame(journal, journal')
  BY <1>1, LeftKept, SameSays DEF SurvivalInv
<1>5. Staged'
  BY <1>1, <1>2, <1>3, StagedKept DEF SurvivalInv
<1>6. Adds({})
  BY <1>1, <1>2, <1>3, <1>4, QuietAdds DEF Quiet
<1>7. QED
  BY <1>4, <1>5, <1>6, AddsKeeps

(* The streams as they are.                                                *)
LEMMA SameStreams ==
  ASSUME put' = put
  PROVE  /\ \A q \in Put : put[q].pc = "done" => put'[q].pc = "done"
         /\ \A q \in Put : Writing(q)' => Writing(q) /\ put'[q].upload = put[q].upload
BY DEF Writing

(* An abort takes the file of an upload that is pending no longer.         *)
LEMMA AbortUploadSurvives ==
  ASSUME DriveInv, SurvivalInv, NEW u \in Upload, AbortUpload(u)
  PROVE  SurvivalInv'
<1>1. /\ status = "up" /\ db.upload[u].state # "none"
      /\ db' = Aborted(db, u) /\ staging' = Discarded(db, u)
      /\ UNCHANGED <<journal, cas, put, status, acked, purged, unlogged, left>>
  BY DEF AbortUpload, historyVars
<1>2. db \in Index
  BY DEF DriveInv, IndexOK
<1>3. Aside(db, db') /\ Going(db, db') /\ db'.upload[u].state # "pending"
  BY <1>1, <1>2, AsideSession, GoingSession, AbortEnds
<1>4. \A w \in Upload : staging[w] # None =>
        staging'[w] # None \/ db'.upload[w].state # "pending"
  BY <1>1, <1>3 DEF Discarded, DriveInv, FilesOK
<1>5. LeftOK' /\ left'["loss"] = left["loss"] /\ SaysSame(journal, journal')
  BY <1>1, LeftKept, SameSays DEF SurvivalInv
<1>6. Staged'
  BY <1>1, <1>3, <1>4, SameStreams, StagedKept DEF SurvivalInv
<1>7. Adds({})
  BY <1>1, <1>3, <1>5, SameStreams, QuietAdds DEF Quiet
<1>8. QED
  BY <1>5, <1>6, <1>7, AddsKeeps

(* Time passes.                                                            *)
LEMMA ElapseSurvives ==
  ASSUME DriveInv, SurvivalInv, NEW u \in Upload, Elapse(u)
  PROVE  SurvivalInv'
<1>1. /\ db.upload[u].state = "pending"
      /\ UNCHANGED <<journal, staging, cas, put, status, acked, purged, unlogged, left>>
  BY DEF Elapse, fileVars, historyVars
<1>2. db # EmptyIndex
  BY <1>1 DEF EmptyIndex, NoUpload
<1>3. Aside(db, db') /\ Going(db, db')
  BY ElapseOK DEF DriveInv, Going, GoesOn
<1>4. LeftOK' /\ left'["loss"] = left["loss"] /\ SaysSame(journal, journal')
  BY <1>1, LeftKept, SameSays DEF SurvivalInv
<1>5. Staged'
  BY <1>1, <1>3, SameStreams, StagedKept DEF SurvivalInv
<1>6. Adds({})
  BY <1>1, <1>2, <1>3, <1>4, SameStreams, QuietAdds DEF Quiet
<1>7. QED
  BY <1>4, <1>5, <1>6, AddsKeeps

(* What idled too long is no longer pending.                               *)
LEMMA SweptExpire ==
  ASSUME DriveInv, Sweep
  PROVE  \A u \in Upload : u \in Expirable => db'.upload[u].state # "pending"
<1> DEFINE U == [u \in Upload |->
            IF u \in Expirable THEN [db.upload[u] EXCEPT !.state = "expired"]
            ELSE db.upload[u]]
<1>1. db \in Index
  BY DEF DriveInv, IndexOK
<1>2. \E n : db' = Released([db EXCEPT !.upload = U], n)
  BY DEF Sweep
<1>3. db'.upload = U
  <2> HIDE DEF U
  <2>1. QED
    BY <1>1, <1>2 DEF Released, Index
<1>4. \A u \in Upload : u \in Expirable => U[u].state = "expired"
  BY <1>1 DEF Index, UploadRow
<1>5. QED
  BY <1>3, <1>4

(* A sweep takes the files of the uploads it ends.                         *)
LEMMA SweepSurvives ==
  ASSUME DriveInv, SurvivalInv, Sweep
  PROVE  SurvivalInv'
<1> DEFINE gone == {u \in Upload : db.upload[u].state \in {"aborted", "expired"}} \cup Expirable
<1>1. /\ status = "up" /\ staging' = [u \in Upload |-> IF u \in gone THEN None ELSE staging[u]]
      /\ UNCHANGED <<journal, cas, put, status, acked, purged, unlogged, left>>
  BY DEF Sweep, historyVars
<1>2. /\ Aside(db, db')
      /\ \A u \in Upload :
           /\ db.upload[u].state # "none" => db'.upload[u].state # "none"
           /\ db'.upload[u].art = db.upload[u].art
           /\ db'.upload[u].state = "pending" => db.upload[u].state = "pending"
  BY SweepOK DEF DriveInv
<1>3. Going(db, db')
  BY <1>2 DEF Going, GoesOn
<1>4. \A u \in Upload : u \in Expirable => db'.upload[u].state # "pending"
  BY SweptExpire
<1>5. \A w \in Upload : staging[w] # None =>
        staging'[w] # None \/ db'.upload[w].state # "pending"
  BY <1>1, <1>2, <1>4
<1>6. LeftOK' /\ left'["loss"] = left["loss"] /\ SaysSame(journal, journal')
  BY <1>1, LeftKept, SameSays DEF SurvivalInv
<1>7. Staged'
  BY <1>1, <1>3, <1>5, SameStreams, StagedKept DEF SurvivalInv
<1>8. Adds({})
  BY <1>1, <1>2, <1>3, <1>6, SameStreams, QuietAdds DEF Quiet
<1>9. QED
  BY <1>6, <1>7, <1>8, AddsKeeps

(* A restore moves a pointer.                                              *)
LEMMA RestoreSurvives ==
  ASSUME DriveInv, SurvivalInv, NEW v \in db.versions, Restore(v)
  PROVE  SurvivalInv'
<1>1. /\ status = "up" /\ v.sha # None /\ Spend("operator")
      /\ db' = [db EXCEPT !.current[v.art] = v.id]
      /\ journal' \in Appended(MoveLine(v.art, v.id))
      /\ UNCHANGED <<staging, cas, put, status, acked, purged, unlogged>>
  BY DEF Restore, fileVars, historyVars
<1>2. v.art \in Artifact /\ v.id \in Put /\ MoveLine(v.art, v.id) \in LineSet
  BY <1>1, MoveLineOK
<1>3. /\ db'.fence = db.fence /\ db'.versions = db.versions
      /\ db'.refs = db.refs /\ db'.row = db.row /\ db'.upload = db.upload
  BY <1>1, <1>2, PointedOK DEF DriveInv, VersionId
<1>4. Aside(db, db') /\ Going(db, db')
  BY <1>3 DEF Aside, Going, GoesOn
<1>5. Plain(MoveLine(v.art, v.id))
  BY DEF Plain, MoveLine
<1>6. SaysSame(journal, journal')
  BY <1>1, <1>2, <1>5, PlainAppended DEF DriveInv
<1>7. LeftOK' /\ left'["loss"] = left["loss"]
  BY <1>1, SpendOK DEF SurvivalInv
<1>8. Staged'
  BY <1>1, <1>4, SameStreams, StagedKept DEF SurvivalInv
<1>9. Adds({})
  BY <1>1, <1>4, <1>6, <1>7, SameStreams, QuietAdds DEF Quiet
<1>10. QED
  BY <1>7, <1>8, <1>9, AddsKeeps

(* A crash between calls.                                                  *)
LEMMA CrashIdleSurvives ==
  ASSUME DriveInv, SurvivalInv, CrashIdle
  PROVE  SurvivalInv'
<1>1. /\ status = "up" /\ Spend("crash") /\ Dies
      /\ UNCHANGED <<db, journal, cas, acked, purged, unlogged>>
  BY DEF CrashIdle, fileVars, historyVars
<1>2. LeftOK' /\ left'["loss"] = left["loss"]
  BY <1>1, SpendOK DEF SurvivalInv
<1>3. Staged' /\ \A p \in Put : put[p].pc = "done" => put'[p].pc = "done"
  BY <1>1, StagedDies
<1>4. SaysSame(journal, journal') /\ Aside(db, db') /\ Going(db, db')
  BY <1>1, SameSays, SameGoes
<1>5. Adds({})
  BY <1>1, <1>2, <1>3, <1>4, QuietAdds DEF Quiet
<1>6. QED
  BY <1>2, <1>3, <1>5, AddsKeeps

(* A cut line says nothing.                                                *)
LEMMA CrashInAppendSurvives ==
  ASSUME DriveInv, SurvivalInv, NEW p \in Put, CrashInAppend(p)
  PROVE  SurvivalInv'
<1>1. /\ Finishing(p) /\ Spend("torn") /\ Dies /\ db' = Charge(p)
      /\ journal' = journal \/ journal' = Append(journal, Torn)
      /\ UNCHANGED <<cas, acked, purged, unlogged>>
  BY DEF CrashInAppend, Commits, fileVars, historyVars
<1>2. LeftOK' /\ left'["loss"] = left["loss"]
  BY <1>1, SpendOK DEF SurvivalInv
<1>3. Staged' /\ \A q \in Put : put[q].pc = "done" => put'[q].pc = "done"
  BY <1>1, StagedDies
<1>4. status = "up" /\ Aside(db, db') /\ Going(db, db')
  BY <1>1, FinishingOK
<1>5. SaysSame(journal, journal')
  <2>1. CASE journal' = journal
    BY <2>1, SameSays
  <2>2. CASE journal' = Append(journal, Torn)
    <3>1. journal' \in Appended(Torn)
      BY <2>2 DEF Appended
    <3>2. Torn \in LineSet /\ Plain(Torn)
      BY DEF LineSet, Plain, Torn
    <3>3. QED
      BY <3>1, <3>2, PlainAppended DEF DriveInv
  <2>3. QED
    BY <1>1, <2>1, <2>2
<1>6. Adds({})
  BY <1>1, <1>2, <1>3, <1>4, <1>5, QuietAdds DEF Quiet
<1>7. QED
  BY <1>2, <1>3, <1>6, AddsKeeps

(* A crash in a delete or a restore.                                       *)
LEMMA CrashInPointerSurvives ==
  ASSUME DriveInv, SurvivalInv, NEW line \in LineSet, Plain(line), CrashInPointer(line)
  PROVE  SurvivalInv'
<1>1. /\ status = "up" /\ Spend("crash") /\ Dies /\ journal' \in Appended(line)
      /\ UNCHANGED <<db, cas, acked, purged, unlogged>>
  BY DEF CrashInPointer, fileVars, historyVars
<1>2. LeftOK' /\ left'["loss"] = left["loss"]
  BY <1>1, SpendOK DEF SurvivalInv
<1>3. Staged' /\ \A p \in Put : put[p].pc = "done" => put'[p].pc = "done"
  BY <1>1, StagedDies
<1>4. SaysSame(journal, journal') /\ Aside(db, db') /\ Going(db, db')
  BY <1>1, PlainAppended, SameGoes DEF DriveInv
<1>5. Adds({})
  BY <1>1, <1>2, <1>3, <1>4, QuietAdds DEF Quiet
<1>6. QED
  BY <1>2, <1>3, <1>5, AddsKeeps

(* A step that only makes a row or a marker.                               *)
LEMMA MarksAdd ==
  ASSUME SaysSame(journal, journal'), Gains({}), status = "up", left'["loss"] = left["loss"],
         UNCHANGED <<cas, put, acked, purged, unlogged>>
  PROVE  Adds({})
<1>1. Grows(journal, journal', {}) /\ CommitsOf(journal') = CommitsOf(journal)
  BY SameGrows DEF SaysSame
<1>2. QED
  BY <1>1 DEF Adds

(* A registration may make an artifact, which no line is of.               *)
LEMMA RegisterSurvives ==
  ASSUME DriveInv, SurvivalInv, NEW u \in Upload, NEW n \in Name, NEW a \in Artifact,
         NEW t \in Tokens, Register(u, n, a, t)
  PROVE  SurvivalInv'
<1>1. /\ db'.row = [db.row EXCEPT ![a] = n] /\ db'.versions = db.versions
      /\ \A w \in Upload : db.upload[w].state # "none" => db'.upload[w] = db.upload[w]
  BY RegisterOK DEF DriveInv
<1>2. Going(db, db')
  BY <1>1 DEF Going, GoesOn
<1>3. /\ status = "up"
      /\ db.row[a] = n \/ FreshArtifact(a)
      /\ UNCHANGED <<journal, staging, cas, put, status, acked, purged, unlogged, left>>
  BY DEF Register, fileVars, historyVars
<1>4. n # None /\ db.row \in [Artifact -> Name \cup {None}]
  BY DriveAssumption DEF DriveInv, IndexOK, Index
<1>5. ASSUME NEW b \in Artifact, db.row[b] # None PROVE db'.row[b] # None
  BY <1>1, <1>4, <1>5
<1>6. ASSUME NEW c \in CommitsOf(journal), db.row[c[2].art] = None
      PROVE  db'.row[c[2].art] = None
  <2>1. c[1] \in DOMAIN journal /\ c[2] \in VersionSet
    BY DEF CommitsOf
  <2>2. journal[c[1]].type = "committed" /\ journal[c[1]].v = c[2]
    BY DEF CommitsOf, CommittedLine
  <2>3. c[2].art # a
    BY <1>3, <1>4, <1>6, <2>1, <2>2 DEF FreshArtifact
  <2>4. c[2].art \in Artifact
    BY <2>1 DEF VersionSet
  <2>5. QED
    BY <1>1, <1>4, <1>6, <2>3, <2>4
<1>7. Gains({})
  BY <1>1, <1>2, <1>5, <1>6 DEF Gains
<1>8. LeftOK' /\ left'["loss"] = left["loss"] /\ SaysSame(journal, journal')
  BY <1>3, LeftKept, SameSays DEF SurvivalInv
<1>9. Staged'
  BY <1>2, <1>3, SameStreams, StagedKept DEF SurvivalInv
<1>10. Adds({})
  BY <1>3, <1>7, <1>8, MarksAdd
<1>11. QED
  BY <1>8, <1>9, <1>10, AddsKeeps

(* A delete adds a marker.                                                 *)
LEMMA DeleteMarkerSurvives ==
  ASSUME DriveInv, SurvivalInv, NEW a \in Artifact, DeleteMarker(a)
  PROVE  SurvivalInv'
<1> DEFINE n == NextSeq(db, a)
           m == [id |-> <<a, n>>, art |-> a, seq |-> n,
                 sha |-> None, op |-> <<a, n>>, token |-> None]
<1>1. /\ status = "up" /\ db.row[a] # None /\ Spend("operator")
      /\ db' = [db EXCEPT !.versions = @ \cup {m}, !.current[a] = None]
      /\ journal' \in Appended(DeleteLine(a))
      /\ UNCHANGED <<staging, cas, put, status, acked, purged, unlogged>>
  BY DEF DeleteMarker, fileVars, historyVars
<1>2. m \in MarkerSet /\ m.art = a
  <2>1. n \in Nat
    BY NextSeqOK DEF DriveInv
  <2> HIDE DEF n
  <2>2. QED
    BY <2>1 DEF MarkerSet
<1> HIDE DEF m
<1>3. db'.upload = db.upload /\ db'.row = db.row /\ db'.versions = db.versions \cup {m}
  BY <1>1 DEF DriveInv, IndexOK, Index
<1>4. Going(db, db')
  BY <1>3 DEF Going, GoesOn
<1>5. Gains({})
  BY <1>1, <1>2, <1>3, <1>4 DEF Gains
<1>6. SaysSame(journal, journal')
  <2>1. DeleteLine(a) \in LineSet /\ Plain(DeleteLine(a))
    BY DEF LineSet, Plain, DeleteLine
  <2>2. QED
    BY <1>1, <2>1, PlainAppended DEF DriveInv
<1>7. LeftOK' /\ left'["loss"] = left["loss"]
  BY <1>1, SpendOK DEF SurvivalInv
<1>8. Staged'
  BY <1>1, <1>4, SameStreams, StagedKept DEF SurvivalInv
<1>9. Adds({})
  BY <1>1, <1>5, <1>6, <1>7, MarksAdd
<1>10. QED
  BY <1>7, <1>8, <1>9, AddsKeeps

(* What a commit would add is new, and of a known session.                 *)
LEMMA FreshVersion ==
  ASSUME DriveInv, SurvivalInv, NEW p \in Put, Finishing(p)
  PROVE  /\ VersionOf(p) \in VersionSet /\ VersionOf(p).id = p /\ ~Used(p)
         /\ OfSession(db, VersionOf(p)) /\ VersionOf(p).sha = put[p].sha /\ put[p].sha \in Sha
         /\ \E n \in Name : LineOf(p) = CommittedLine(VersionOf(p), n)
<1>1. /\ put[p].upload \in Upload /\ Writing(p)
      /\ db.upload[put[p].upload].state # "none"
  BY FinishingOK
<1>2. /\ VersionOf(p).id = p /\ VersionOf(p).sha = put[p].sha
      /\ VersionOf(p).op = put[p].upload
      /\ VersionOf(p).art = db.upload[put[p].upload].art
  BY DEF VersionOf
<1>3. ~Used(p)
  BY DEF Finishing, SurvivalInv, DoneOK
<1>4. put[p].sha \in Sha
  BY <1>1 DEF DriveInv, PutOK
<1>5. VersionOf(p) \in VersionSet /\ \E n \in Name : LineOf(p) = CommittedLine(VersionOf(p), n)
  BY VersionOK
<1>6. QED
  BY <1>1, <1>2, <1>3, <1>4, <1>5 DEF OfSession

(* A step of a commit, finished or not.                                    *)
LEMMA CommitAdds ==
  ASSUME DriveInv, SurvivalInv, NEW p \in Put, Finishing(p),
         Grows(journal, journal', {VersionOf(p)}), Gains({VersionOf(p)}),
         acked' = acked \/ ( /\ acked' = acked \cup {VersionOf(p)}
                             /\ VersionOf(p) \in db'.versions
                             /\ cas'[VersionOf(p).sha] # None /\ ~Called(journal', p) ),
         purged' = purged, unlogged \subseteq unlogged', left'["loss"] = left["loss"],
         \A s \in Sha : cas[s] # None => cas'[s] # None,
         \A q \in Put : put[q].pc = "done" => put'[q].pc = "done", put'[p].pc = "done",
         CommitsOf(journal') = CommitsOf(journal)
           \/ (/\ Insertable(db, VersionOf(p))
               /\ \/ Called(journal', p) \/ VersionOf(p) \in db'.versions \/ unlogged' # {}
                  \/ status' # "up" /\ ~Conflicts(db', VersionOf(p)))
  PROVE  Adds({VersionOf(p)})
<1> DEFINE v == VersionOf(p)
<1>1. v \in VersionSet /\ v.id = p /\ ~Used(p) /\ OfSession(db, v) /\ status = "up"
  BY FreshVersion, FinishingOK
<1> HIDE DEF v
<1>2. Grows(journal, journal', {v}) /\ Gains({v})
  BY DEF v
<1>3. \A w \in acked' \ acked :
       w \in {v} /\ w \in db'.versions /\ cas'[w.sha] # None /\ ~Called(journal', w.id)
  BY <1>1 DEF v
<1>4. acked \subseteq acked'
  OBVIOUS
<1>5. ASSUME NEW c \in CommitsOf(journal') \ CommitsOf(journal)
      PROVE  /\ Insertable(db, c[2])
             /\ Called(journal', c[2].id) \/ Retained(c[2])' \/ unlogged' # {}
  <2>1. c[2] = v
    BY <1>2 DEF Grows
  <2>2. CommitsOf(journal') # CommitsOf(journal)
    OBVIOUS
  <2>3. Insertable(db, v)
    BY <2>2 DEF v
  <2>4. CASE Called(journal', p)
    BY <1>1, <2>1, <2>3, <2>4
  <2>5. CASE v \in db'.versions \/ (status' # "up" /\ ~Conflicts(db', v))
    <3>1. Retained(c[2])'
      BY <2>1, <2>5 DEF Retained
    <3>2. QED
      BY <2>1, <2>3, <3>1
  <2>6. CASE unlogged' # {}
    BY <2>1, <2>3, <2>6
  <2>7. QED
    BY <2>2, <2>4, <2>5, <2>6 DEF v
<1>6. Adds({v})
  BY <1>1, <1>2, <1>3, <1>4, <1>5 DEF Adds
<1>7. QED
  BY <1>6 DEF v

(* What the index keeps of rows and sessions, it gains nothing by.         *)
LEMMA AsideGains ==
  ASSUME Aside(db, db'), Going(db, db'), NEW V
  PROVE  Gains(V)
BY DEF Aside, Gains

(* A commit that gives up without a line has called off, at most, an id    *)
(* that was never committed.                                               *)
LEMMA UncommittedSurvives ==
  ASSUME DriveInv, SurvivalInv, NEW p \in Put, Finishing(p), GivesUp(p, Charge(p), 1),
         Grows(journal, journal', {VersionOf(p)}), CommitsOf(journal') = CommitsOf(journal),
         cas' = cas, unlogged' = unlogged, LeftOK', left'["loss"] = left["loss"]
  PROVE  SurvivalInv'
<1>1. Writing(p) /\ IndexOK(Charge(p)) /\ Aside(db, Charge(p)) /\ Going(db, Charge(p))
  BY FinishingOK
<1>2. /\ Staged' /\ Aside(db, db') /\ Going(db, db')
      /\ put'[p].pc = "done" /\ \A q \in Put : put[q].pc = "done" => put'[q].pc = "done"
      /\ status = "up" /\ UNCHANGED <<status, acked, purged>>
  <2>1. 1 \in 0..1
    OBVIOUS
  <2>2. QED
    BY <1>1, <2>1, GivesUpQuiet
<1>3. Gains({VersionOf(p)})
  BY <1>2, AsideGains
<1>4. Adds({VersionOf(p)})
  BY <1>2, <1>3, CommitAdds
<1>5. QED
  BY <1>2, <1>4, AddsKeeps

(* What a line added at the end says, where the rest says what it said.    *)
LEMMA SaidGrows ==
  ASSUME NEW j, NEW i, NEW k, NEW V
  PROVE  /\ SaysSame(j, i) /\ Grows(i, k, V) => Grows(j, k, V)
         /\ Grows(j, i, V) /\ SaysSame(i, k) => Grows(j, k, V)
         /\ SaysSame(j, k) => Grows(j, k, V)
BY DEF SaysSame, Grows, After

(* An aborted line of a version.                                           *)
LEMMA AbortedSays ==
  ASSUME NEW j \in Seq(LineSet), NEW v \in VersionSet, NEW k,
         k = Append(j, AbortedLine(v.id))
  PROVE  Grows(j, k, {v}) /\ CommitsOf(k) = CommitsOf(j)
<1>1. AbortedLine(v.id) \in LineSet
  BY DEF LineSet, VersionSet
<1>2. Grown(j, k) /\ Len(k) = Len(j) + 1 /\ k[Len(k)] = AbortedLine(v.id)
  BY <1>1, AppendGrows
<1>3. QED
  BY <1>2, AbortGrows

(* A cut line, or a corrupt one, says nothing.                             *)
LEMMA PieceSays ==
  ASSUME NEW j \in Seq(LineSet), NEW line \in {Torn, Corrupt}
  PROVE  SaysSame(j, Append(j, line)) /\ Append(j, line) \in Seq(LineSet)
<1>1. line \in LineSet /\ Plain(line)
  BY DEF LineSet, Plain, Torn, Corrupt
<1> DEFINE k == Append(j, line)
<1>2. Grown(j, k) /\ Len(k) = Len(j) + 1 /\ k[Len(k)] = line
  BY <1>1, AppendGrows
<1>3. \A i \in 1..Len(k) : i > Len(j) => Plain(k[i])
  <2>1. Len(j) \in Nat
    BY LenProperties
  <2> HIDE DEF k
  <2>2. QED
    BY <1>1, <1>2, <2>1
<1>4. k \in Seq(LineSet)
  BY <1>2 DEF Grown
<1> HIDE DEF k
<1>5. SaysSame(j, k)
  BY <1>2, <1>3, PlainSays
<1>6. QED
  BY <1>4, <1>5 DEF k

(* A blocked commit calls off an id that was never committed.              *)
LEMMA PutBlockedSurvives ==
  ASSUME DriveInv, SurvivalInv, NEW p \in Put, PutBlocked(p)
  PROVE  SurvivalInv'
<1> DEFINE v == VersionOf(p)
<1>1. /\ Finishing(p) /\ journal' \in Appended(AbortedLine(p)) /\ GivesUp(p, Charge(p), 1)
      /\ UNCHANGED <<cas, unlogged, left>>
  BY DEF PutBlocked
<1>2. v \in VersionSet /\ v.id = p
  BY <1>1, FreshVersion
<1>3. LeftOK' /\ left'["loss"] = left["loss"]
  BY <1>1, LeftKept DEF SurvivalInv
<1>4. Grows(journal, journal', {v}) /\ CommitsOf(journal') = CommitsOf(journal)
  <2>1. AbortedLine(p) \in LineSet /\ journal \in Seq(LineSet)
    BY DEF LineSet, DriveInv
  <2>2. /\ Grown(journal, journal')
        /\ Len(journal') = Len(journal)
             \/ (Len(journal') = Len(journal) + 1 /\ journal'[Len(journal')] = AbortedLine(p))
    BY <1>1, <2>1, AppendedGrows
  <2> HIDE DEF v
  <2>3. QED
    BY <1>2, <2>2, AbortGrows
<1>5. QED
  BY <1>1, <1>3, <1>4, UncommittedSurvives

(* So does an append that failed, with whatever followed it.               *)
LEMMA PutUnwrittenSurvives ==
  ASSUME DriveInv, SurvivalInv, NEW p \in Put, PutUnwritten(p)
  PROVE  SurvivalInv'
<1> DEFINE v == VersionOf(p)
<1>1. /\ Finishing(p) /\ GivesUp(p, Charge(p), 1) /\ cas' = cas /\ unlogged' = unlogged
      /\ Spend("io")
      /\ \/ journal' = journal \/ journal' = Cut \/ journal' \in Appended(AbortedLine(p))
         \/ journal' = Append(Cut, AbortedLine(p)) \/ journal' = Append(journal, Corrupt)
  BY DEF PutUnwritten
<1>2. v \in VersionSet /\ v.id = p /\ journal \in Seq(LineSet) /\ AbortedLine(p) \in LineSet
  BY <1>1, FreshVersion DEF DriveInv, LineSet
<1>3. LeftOK' /\ left'["loss"] = left["loss"]
  BY <1>1, SpendOK DEF SurvivalInv
<1>4. SaysSame(journal, Cut) /\ Cut \in Seq(LineSet)
  <2>1. CASE Cut = journal
    BY <1>2, <2>1 DEF SaysSame
  <2>2. CASE Cut = Append(journal, Torn)
    BY <1>2, <2>2, PieceSays
  <2>3. QED
    BY <2>1, <2>2 DEF Cut
<1> HIDE DEF v
<1>5. Grows(journal, journal', {v}) /\ CommitsOf(journal') = CommitsOf(journal)
  <2>1. CASE journal' = journal \/ journal' = Cut \/ journal' = Append(journal, Corrupt)
    <3>1. SaysSame(journal, journal')
      BY <1>2, <1>4, <2>1, PieceSays DEF SaysSame
    <3>2. QED
      BY <3>1, SaidGrows DEF SaysSame
  <2>2. CASE journal' \in Appended(AbortedLine(p))
    <3>1. /\ Grown(journal, journal')
          /\ Len(journal') = Len(journal)
               \/ (Len(journal') = Len(journal) + 1 /\ journal'[Len(journal')] = AbortedLine(p))
      BY <1>2, <2>2, AppendedGrows
    <3>2. QED
      BY <1>2, <3>1, AbortGrows
  <2>3. CASE journal' = Append(Cut, AbortedLine(p))
    <3>1. Grows(Cut, journal', {v}) /\ CommitsOf(journal') = CommitsOf(Cut)
      BY <1>2, <1>4, <2>3, AbortedSays
    <3>2. QED
      BY <1>4, <3>1, SaidGrows DEF SaysSame
  <2>4. QED
    BY <1>1, <2>1, <2>2, <2>3
<1>6. QED
  BY <1>1, <1>3, <1>5, UncommittedSurvives DEF v

(* The file of a stream that commits is there to be renamed.               *)
LEMMA MaterializedThere ==
  ASSUME DriveInv, SurvivalInv, NEW p \in Put, Finishing(p), StateOf(p) = "pending"
  PROVE  /\ Materialized(p)[put[p].sha] # None
         /\ \A s \in Sha : cas[s] # None => Materialized(p)[s] # None
<1>1. Writing(p) /\ put[p].upload \in Upload /\ put[p].sha \in Sha
  BY FinishingOK, FreshVersion
<1>2. staging[put[p].upload] # None
  BY <1>1 DEF SurvivalInv, Staged, StateOf
<1>3. cas \in [Sha -> Put \cup {None}]
  BY DEF DriveInv, FilesOK
<1>4. QED
  BY <1>1, <1>2, <1>3 DEF Materialized

(* A commit: its line, its version and its file, in one step.              *)
LEMMA PutCommittedSurvives ==
  ASSUME DriveInv, SurvivalInv, NEW p \in Put, PutCommitted(p)
  PROVE  SurvivalInv'
<1> DEFINE u == put[p].upload
           v == VersionOf(p)
           c == Charge(p)
<1>1. /\ Finishing(p) /\ StateOf(p) = "pending" /\ Insertable(db, v)
      /\ db' = Committed(c, u, v) /\ journal' \in Appended(LineOf(p))
      /\ cas' = Materialized(p) /\ staging' = [staging EXCEPT ![u] = None]
      /\ acked' = acked \cup {v} /\ Ends(p) /\ UNCHANGED <<status, purged, unlogged, left>>
  BY DEF PutCommitted, Commits
<1>2. /\ u \in Upload /\ status = "up" /\ db.upload[u].state # "none"
      /\ IndexOK(c) /\ Aside(db, c) /\ Going(db, c)
  BY <1>1, FinishingOK
<1>3. /\ v \in VersionSet /\ v.id = p /\ ~Used(p) /\ v.sha = put[p].sha
      /\ \E n \in Name : LineOf(p) = CommittedLine(v, n)
  BY <1>1, FreshVersion
<1>4. /\ Materialized(p)[put[p].sha] # None
      /\ \A s \in Sha : cas[s] # None => Materialized(p)[s] # None
  BY <1>1, MaterializedThere
<1> HIDE DEF u, c, v
<1>5. /\ Grows(journal, journal', {v}) /\ AbortsOf(journal') = AbortsOf(journal)
  BY <1>1, <1>3, CommitGrows DEF DriveInv
<1>6. ~Called(journal', p)
  BY <1>3, <1>5 DEF Used, Called
<1>7. c.upload[u].state # "none" /\ c \in Index
  BY <1>2 DEF Going, GoesOn, IndexOK
<1>8. /\ db'.versions = c.versions \cup {v} /\ db'.row = c.row
      /\ db'.upload = [c.upload EXCEPT ![u].state = "committed"]
  BY <1>1, <1>7 DEF Committed, Index
<1>9. Going(db, db')
  <2>1. Going(c, db')
    BY <1>1, <1>2, <1>7, GoingSession
  <2>2. QED
    BY <1>2, <2>1, GoingTwice
<1>10. db'.versions = db.versions \cup {v} /\ db'.row = db.row
  BY <1>2, <1>8 DEF Aside
<1>11. Gains({v})
  BY <1>1, <1>9, <1>10 DEF Gains, Insertable
<1>12. LeftOK' /\ left'["loss"] = left["loss"]
  BY <1>1, LeftKept DEF SurvivalInv
<1>13. /\ put'[p].pc = "done" /\ \A q \in Put : put[q].pc = "done" => put'[q].pc = "done"
       /\ \A q \in Put : Writing(q)' => Writing(q) /\ put'[q].upload = put[q].upload
  BY <1>1, OthersGoOn
<1>14. \A w \in Upload : staging[w] # None =>
         staging'[w] # None \/ db'.upload[w].state # "pending"
  BY <1>1, <1>2, <1>7, <1>8 DEF DriveInv, FilesOK, Index, UploadRow
<1>15. Staged'
  BY <1>9, <1>13, <1>14, StagedKept DEF SurvivalInv
<1>16. Adds({v})
  <2>1. v \in db'.versions /\ cas'[v.sha] # None
    BY <1>1, <1>3, <1>4, <1>10
  <2>2. \A s \in Sha : cas[s] # None => cas'[s] # None
    BY <1>1, <1>4
  <2>3. QED
    BY <1>1, <1>5, <1>6, <1>11, <1>12, <1>13, <2>1, <2>2, CommitAdds DEF v
<1>17. QED
  BY <1>12, <1>15, <1>16, AddsKeeps

(* A failed commit leaves a line, and one that calls it off; or the line   *)
(* alone, which the journal is no longer in order for.                     *)
LEMMA PutIoErrorSurvives ==
  ASSUME DriveInv, SurvivalInv, NEW p \in Put, NEW renamed \in BOOLEAN, NEW said \in BOOLEAN,
         PutIoError(p, renamed, said)
  PROVE  SurvivalInv'
<1> DEFINE v == VersionOf(p)
<1>1. /\ Finishing(p) /\ StateOf(p) = "pending" /\ Insertable(db, v)
      /\ Spend("io") /\ GivesUp(p, Charge(p), 1)
      /\ \E j \in Appended(LineOf(p)) :
           IF said THEN journal' = Append(j, AbortedLine(p))
           ELSE journal' = j \/ journal' = Append(j, Torn)
      /\ unlogged' = IF said THEN unlogged ELSE unlogged \cup {v}
      /\ cas' = Materialized(p) \/ cas' = cas
  BY DEF PutIoError, Commits
<1>2. Writing(p) /\ IndexOK(Charge(p)) /\ Aside(db, Charge(p)) /\ Going(db, Charge(p))
  BY <1>1, FinishingOK
<1>3. /\ Staged' /\ Aside(db, db') /\ Going(db, db')
      /\ put'[p].pc = "done" /\ \A q \in Put : put[q].pc = "done" => put'[q].pc = "done"
      /\ status = "up" /\ UNCHANGED <<status, acked, purged>>
  <2>1. 1 \in 0..1
    OBVIOUS
  <2>2. QED
    BY <1>1, <1>2, <2>1, GivesUpQuiet
<1>4. v \in VersionSet /\ v.id = p /\ \E n \in Name : LineOf(p) = CommittedLine(v, n)
  BY <1>1, FreshVersion
<1>5. \A s \in Sha : cas[s] # None => cas'[s] # None
  BY <1>1, MaterializedThere
<1> HIDE DEF v
<1>6. Grows(journal, journal', {v}) /\ (said => Called(journal', p))
  <2>1. PICK n \in Name : LineOf(p) = CommittedLine(v, n)
    BY <1>4
  <2>2. PICK j \in Appended(CommittedLine(v, n)) :
          IF said THEN journal' = Append(j, AbortedLine(p))
          ELSE journal' = j \/ journal' = Append(j, Torn)
    BY <1>1, <2>1
  <2>3. journal \in Seq(LineSet) /\ AbortedLine(p) \in LineSet
    BY DEF DriveInv, LineSet
  <2>4. j \in Seq(LineSet) /\ Grows(journal, j, {v})
    BY <1>4, <2>3, CommitGrows
  <2>5. CASE said
    <3>1. /\ Grown(j, journal') /\ Len(journal') = Len(j) + 1
          /\ journal'[Len(journal')] = AbortedLine(v.id)
      <4>1. LET k == Append(j, AbortedLine(p))
            IN  Grown(j, k) /\ Len(k) = Len(j) + 1 /\ k[Len(k)] = AbortedLine(p)
        BY <2>3, <2>4, AppendGrows
      <4>2. QED
        BY <1>4, <2>2, <2>5, <4>1
    <3>2. QED
      BY <1>4, <2>3, <3>1, CalledOffGrows
  <2>6. CASE ~said
    <3>1. SaysSame(j, journal')
      BY <2>2, <2>4, <2>6, PieceSays DEF SaysSame
    <3>2. QED
      BY <2>4, <2>6, <3>1, SaidGrows
  <2>7. QED
    BY <2>5, <2>6
<1>7. LeftOK' /\ left'["loss"] = left["loss"]
  BY <1>1, SpendOK DEF SurvivalInv
<1>8. Gains({v})
  BY <1>3, AsideGains
<1>9. unlogged \subseteq unlogged' /\ (said \/ unlogged' # {})
  BY <1>1
<1>10. Adds({v})
  BY <1>1, <1>3, <1>5, <1>6, <1>7, <1>8, <1>9, CommitAdds DEF v
<1>11. QED
  BY <1>3, <1>7, <1>10, AddsKeeps

(* A crash in a commit leaves a line that the next boot can take in.       *)
LEMMA CrashInCommitSurvives ==
  ASSUME DriveInv, SurvivalInv, NEW p \in Put, NEW renamed \in BOOLEAN,
         CrashInCommit(p, renamed)
  PROVE  SurvivalInv'
<1> DEFINE v == VersionOf(p)
<1>1. /\ Finishing(p) /\ StateOf(p) = "pending" /\ Insertable(db, v)
      /\ Spend("crash") /\ Dies /\ db' = Charge(p)
      /\ journal' \in Appended(LineOf(p))
      /\ cas' = Materialized(p) \/ cas' = cas
      /\ UNCHANGED <<acked, purged, unlogged>>
  BY DEF CrashInCommit, Commits, historyVars
<1>2. Writing(p) /\ Aside(db, db') /\ Going(db, db')
  BY <1>1, FinishingOK
<1>3. /\ v \in VersionSet /\ v.id = p
      /\ \E n \in Name : LineOf(p) = CommittedLine(v, n)
  BY <1>1, FreshVersion
<1>4. \A s \in Sha : cas[s] # None => cas'[s] # None
  BY <1>1, MaterializedThere
<1> HIDE DEF v
<1>5. Grows(journal, journal', {v})
  BY <1>1, <1>3, CommitGrows DEF DriveInv
<1>6. LeftOK' /\ left'["loss"] = left["loss"]
  BY <1>1, SpendOK DEF SurvivalInv
<1>7. /\ Staged' /\ \A q \in Put : put[q].pc = "done" => put'[q].pc = "done"
  BY <1>1, StagedDies
<1>8. put'[p].pc = "done"
  BY <1>1, <1>2 DEF Dies, Idle, Writing
<1>9. status' = "down" /\ ~Conflicts(db', v)
  <2>1. ~Conflicts(db, v)
    BY <1>1 DEF Insertable
  <2>2. QED
    BY <1>1, <1>2, <2>1 DEF Aside, Conflicts, Dies
<1>10. Gains({v})
  BY <1>2, AsideGains
<1>11. Adds({v})
  BY <1>1, <1>4, <1>5, <1>6, <1>7, <1>8, <1>9, <1>10, CommitAdds DEF v
<1>12. QED
  BY <1>6, <1>7, <1>11, AddsKeeps

-----------------------------------------------------------------------------
(* Collections.                                                            *)

(* What is collected of the index and the files.                           *)
LEMMA CollectedIndex ==
  ASSUME DriveInv, NEW C \in SUBSET Artifact, NEW L \in SUBSET Sha,
         NEW B \in SUBSET Unreferenced(ChainsPurged(db, C)), NEW F \in SUBSET B,
         Collects(C, L, B, F)
  PROVE  /\ db'.versions = db.versions \ Dropped(db, C) /\ db'.upload = db.upload
         /\ db'.row = [a \in Artifact |-> IF a \in C THEN None ELSE db.row[a]]
         /\ SaysSame(journal, journal')
         /\ \A w \in db'.versions : w.sha \in Sha => cas'[w.sha] = cas[w.sha]
<1> DEFINE d == ChainsPurged(db, C)
           R == [a \in Artifact |-> IF a \in C THEN None ELSE db.row[a]]
<1>1. IndexOK(d) /\ RefsExact(d) /\ d.versions = db.versions \ Dropped(db, C)
  BY ChainsPurgedOK DEF DriveInv
<1>2. d.upload = db.upload /\ d.row = R
  <2>1. db \in Index
    BY DEF DriveInv, IndexOK
  <2>2. db.row \in [Artifact -> Name \cup {None}]
    BY <2>1 DEF Index
  <2> HIDE DEF R
  <2>3. \E V, S : d = [db EXCEPT !.versions = V, !.row = R, !.refs = S]
    BY <2>1 DEF ChainsPurged, Index, R
  <2> HIDE DEF d
  <2>4. QED
    BY <2>1, <2>3 DEF Index
<1>3. B \in SUBSET Unreferenced(d) /\ db' = BlobsPurged(d, B)
  BY DEF Collects
<1> HIDE DEF d, R
<1>4. db'.versions = d.versions /\ db'.upload = d.upload /\ db'.row = d.row
  BY <1>1, <1>3 DEF BlobsPurged, IndexOK, Index
<1>5. SaysSame(journal, journal')
  <2>1. \E q \in PurgeLines(L) :
          IF q = <<>> THEN UNCHANGED journal
          ELSE \E j \in Appended(Head(q)) : journal' = j \o Tail(q)
    BY DEF Collects
  <2>2. journal \in Seq(LineSet)
    BY DEF DriveInv
  <2>3. QED
    BY <2>1, <2>2, CollectedSays
<1>6. ASSUME NEW w \in db'.versions, w.sha \in Sha PROVE cas'[w.sha] = cas[w.sha]
  <2>1. w.sha \notin F
    <3>1. SUFFICES ASSUME w.sha \in F PROVE FALSE
      OBVIOUS
    <3>2. w.sha \in Unreferenced(d)
      BY <1>3, <3>1
    <3>3. d.refs[w.sha] = 0
      BY <3>2 DEF Unreferenced
    <3>4. 0 # -1
      OBVIOUS
    <3>5. Cardinality(Uses(d, w.sha)) = 0
      BY <1>1, <1>6, <3>3, <3>4 DEF RefsExact
    <3>6. Uses(d, w.sha) = {}
      BY <1>1, <3>5, UsesFinite, FS_EmptySet
    <3>7. w \in Uses(d, w.sha)
      BY <1>4 DEF Uses
    <3>8. QED
      BY <3>6, <3>7
  <2>2. QED
    BY <1>6, <2>1 DEF Collects
<1>7. QED
  BY <1>1, <1>2, <1>4, <1>5, <1>6 DEF R

(* What is collected was deleted by an operator, and the journal knows it  *)
(* by the artifact's missing row.                                          *)
LEMMA CollectsSurvives ==
  ASSUME DriveInv, SurvivalInv, NEW C \in SUBSET Artifact, NEW L \in SUBSET Sha,
         NEW B \in SUBSET Unreferenced(ChainsPurged(db, C)), NEW F \in SUBSET B,
         Collects(C, L, B, F), LeftOK', left'["loss"] = left["loss"], Staged',
         \A p \in Put : put[p].pc = "done" => put'[p].pc = "done"
  PROVE  SurvivalInv'
<1> DEFINE D == Dropped(db, C)
<1>1. /\ db'.versions = db.versions \ D /\ db'.upload = db.upload
      /\ db'.row = [a \in Artifact |-> IF a \in C THEN None ELSE db.row[a]]
      /\ CommitsOf(journal') = CommitsOf(journal) /\ AbortsOf(journal') = AbortsOf(journal)
      /\ \A w \in db'.versions : w.sha \in Sha => cas'[w.sha] = cas[w.sha]
  BY CollectedIndex DEF SaysSame
<1>2. /\ status = "up" /\ purged' = purged \cup {v.id : v \in D} /\ acked' = acked
      /\ unlogged' = unlogged
  BY DEF Collects
<1>3. \A w \in db.versions : w \in D <=> w.art \in C
  BY DEF Dropped, RowsOf
<1> HIDE DEF D
<1>4. \A id : Called(journal', id) <=> Called(journal, id)
  BY <1>1 DEF Called
<1>5. \A w \in db.versions : w.art \in Artifact
  BY DEF DriveInv, IndexOK, Index, VersionSet, MarkerSet
<1>6. ASSUME Intact' PROVE InOrder(journal') /\ JournalKept'
  <2>1. Intact
    BY <1>2, <1>6 DEF Intact
  <2>2. InOrder(journal) /\ JournalKept
    BY <2>1 DEF SurvivalInv
  <2>3. InOrder(journal')
    BY <1>1, <2>2 DEF InOrder, CalledBy
  <2>4. ASSUME NEW c \in CommitsOf(journal')
        PROVE  Called(journal', c[2].id) \/ Retained(c[2])'
    <3>1. Called(journal, c[2].id) \/ Retained(c[2])
      BY <1>1, <2>2 DEF JournalKept
    <3>2. c[2].art \in Artifact
      BY DEF CommitsOf, VersionSet
    <3>3. CASE c[2] \in D /\ c[2] \in db.versions
      <4>1. purged' # {} /\ db'.row[c[2].art] = None
        BY <1>1, <1>2, <1>3, <3>2, <3>3
      <4>2. QED
        BY <4>1 DEF Retained
    <3>4. CASE c[2] \notin D /\ c[2] \in db.versions
      BY <1>1, <3>4 DEF Retained
    <3>5. CASE purged # {} /\ db.row[c[2].art] = None
      <4>1. purged' # {} /\ db'.row[c[2].art] = None
        BY <1>1, <1>2, <3>2, <3>5
      <4>2. QED
        BY <4>1 DEF Retained
    <3>6. QED
      BY <1>2, <1>4, <3>1, <3>3, <3>4, <3>5 DEF Retained
  <2>5. QED
    BY <2>3, <2>4 DEF JournalKept
<1>7. SessionsKnown'
  BY <1>1 DEF SurvivalInv, SessionsKnown, OfSession
<1>8. Rooted(db')
  BY <1>1, <1>3, <1>5 DEF SurvivalInv, Rooted
<1>9. IdsOK'
  BY <1>1 DEF SurvivalInv, IdsOK, Placed
<1>10. DoneOK'
  <2>1. \A p : Used(p)' => Used(p)
    BY <1>1, <1>2, <1>4 DEF Used
  <2>2. QED
    BY <2>1 DEF SurvivalInv, DoneOK
<1>11. AnswersStand'
  BY <1>2, <1>4 DEF SurvivalInv, AnswersStand
<1>12. Stored'
  <2> SUFFICES ASSUME NEW w \in acked
               PROVE  w.id \in purged' \/ (w \in db'.versions /\ cas'[w.sha] # None)
    BY <1>2 DEF Stored
  <2>1. w.id \in purged \/ (w \in db.versions /\ cas[w.sha] # None)
    BY <1>2 DEF SurvivalInv, Stored, Restorable
  <2>2. w.sha \in Sha
    BY DEF DriveInv, AnsweredOK, VersionSet
  <2>3. CASE w \in D
    BY <1>2, <2>3
  <2>4. QED
    BY <1>1, <1>2, <2>1, <2>2, <2>3
<1>13. QED
  BY <1>6, <1>7, <1>8, <1>9, <1>10, <1>11, <1>12 DEF SurvivalInv

(* A whole purge.                                                          *)
LEMMA GcPhase2Survives ==
  ASSUME DriveInv, SurvivalInv, GcPhase2
  PROVE  SurvivalInv'
<1> DEFINE C == Chains(db)
           B == Unreferenced(ChainsPurged(db, C))
<1>1. C \in SUBSET Artifact /\ B \in SUBSET Sha
  BY DEF Chains, Unreferenced
<1>2. Collects(C, B, B, B) /\ Spend("purge") /\ UNCHANGED <<put, status>>
  BY DEF GcPhase2
<1>3. LeftOK' /\ left'["loss"] = left["loss"]
  BY <1>2, SpendOK DEF SurvivalInv
<1>4. Going(db, db') /\ staging' = staging
  BY <1>1, <1>2, CollectsOK DEF Onward
<1>5. Staged'
  BY <1>2, <1>4, SameStreams, StagedKept DEF SurvivalInv
<1>6. B \in SUBSET Unreferenced(ChainsPurged(db, C)) /\ B \in SUBSET B
  OBVIOUS
<1> HIDE DEF C, B
<1>7. QED
  BY <1>1, <1>2, <1>3, <1>5, <1>6, SameStreams, CollectsSurvives

(* A purge cut short.                                                      *)
LEMMA CrashInGcSurvives ==
  ASSUME DriveInv, SurvivalInv, NEW C \in SUBSET Artifact, NEW L \in SUBSET Sha,
         NEW B \in SUBSET Sha, NEW F \in SUBSET Sha, CrashInGc(C, L, B, F)
  PROVE  SurvivalInv'
<1>1. /\ Dies /\ Collects(C, L, B, F) /\ left["crash"] > 0 /\ left["purge"] > 0
      /\ left' = [left EXCEPT !["crash"] = @ - 1, !["purge"] = @ - 1]
      /\ B \in SUBSET Unreferenced(ChainsPurged(db, C)) /\ F \in SUBSET B
  BY DEF CrashInGc
<1>2. LeftOK' /\ left'["loss"] = left["loss"]
  <2>1. left \in [{"crash", "torn", "loss", "io", "purge", "operator"} -> Nat]
    BY DEF SurvivalInv, LeftOK
  <2>2. left["crash"] - 1 \in Nat /\ left["purge"] - 1 \in Nat
    BY <1>1, <2>1
  <2>3. left' \in [{"crash", "torn", "loss", "io", "purge", "operator"} -> Nat]
    BY <1>1, <2>1, <2>2
  <2>4. left'["loss"] = left["loss"]
    BY <1>1, <2>1
  <2>5. QED
    BY <2>3, <2>4 DEF SurvivalInv, LeftOK
<1>3. Staged' /\ \A p \in Put : put[p].pc = "done" => put'[p].pc = "done"
  BY <1>1, StagedDies
<1>4. QED
  BY <1>1, <1>2, <1>3, CollectsSurvives

-----------------------------------------------------------------------------
(* The index is lost.                                                      *)

(* The first time, or before anything is purged.                           *)
LEMMA LoseIndexSurvives ==
  ASSUME DriveInv, SurvivalInv, LoseIndex, Intact
  PROVE  SurvivalInv'
<1>1. /\ status # "up" /\ Spend("loss") /\ db' = EmptyIndex /\ status' = "down"
      /\ UNCHANGED <<journal, staging, cas, put, acked, purged, unlogged>>
  BY DEF LoseIndex, fileVars, historyVars
<1>2. EmptyIndex.versions = {}
  BY DEF EmptyIndex
<1>3. LeftOK' /\ left'["loss"] < left["loss"]
  BY <1>1, SpendOK DEF SurvivalInv
<1>4. left'["loss"] # Bound["loss"]
  BY <1>3, DriveAssumption DEF SurvivalInv, LeftOK
<1>5. InOrder(journal)
  BY DEF SurvivalInv
<1>6. JournalKept'
  BY <1>1, <1>2 DEF JournalKept, Retained, Conflicts
<1>7. SessionsKnown'
  BY <1>4 DEF SessionsKnown
<1>8. Rooted(db') /\ IdsOK'
  BY <1>1, <1>2 DEF Rooted, IdsOK, SurvivalInv
<1>9. DoneOK'
  <2>1. \A p : Used(p)' => Used(p)
    BY <1>1, <1>2 DEF Used
  <2>2. QED
    BY <1>1, <2>1 DEF SurvivalInv, DoneOK
<1>10. AnswersStand'
  BY <1>1 DEF SurvivalInv, AnswersStand
<1>11. Staged'
  <2>1. \A p \in Put : ~Writing(p)
    BY <1>1 DEF DriveInv, PutOK
  <2>2. QED
    BY <1>1, <2>1 DEF Staged, Writing
<1>12. Restorable'
  BY <1>1, <1>5 DEF SurvivalInv, Restorable, Stored
<1>13. QED
  BY <1>1, <1>3, <1>5, <1>6, <1>7, <1>8, <1>9, <1>10, <1>11, <1>12 DEF SurvivalInv

-----------------------------------------------------------------------------
(* The replay, line by line.                                               *)

(* A row, once there, stays.                                               *)
LEMMA WithRowsKeep ==
  ASSUME NEW d, IndexOK(d), NEW v \in VersionSet, NEW n \in Name
  PROVE  LET e == WithRows(d, CommittedLine(v, n))
         IN  \A a \in Artifact : d.row[a] # None => e.row[a] # None
<1> DEFINE line == CommittedLine(v, n)
           e == WithRows(d, line)
           A == [d.row EXCEPT ![v.art] = IF \E b \in Artifact : d.row[b] = n THEN @ ELSE n]
           R == [d.refs EXCEPT ![v.sha] = IF @ = -1 THEN 0 ELSE @]
<1>1. line.v = v /\ line.name = n
  BY DEF CommittedLine
<1>2. e = [d EXCEPT !.row = A, !.refs = R]
  BY <1>1 DEF WithRows, IndexOK, Index
<1>3. e.row = A
  <2> HIDE DEF A, R, e, line
  <2>1. QED
    BY <1>2 DEF IndexOK, Index
<1>4. n # None
  BY DriveAssumption
<1>5. \A a \in Artifact : d.row[a] # None => A[a] # None
  BY <1>4 DEF IndexOK, Index
<1>6. QED
  BY <1>3, <1>5

(* A replayed commit finds its artifact, or has a version in its place.    *)
LEMMA AppliedRooted ==
  ASSUME NEW d, IndexOK(d), Named(d), Rooted(d), NEW v \in VersionSet, NEW n \in Name,
         ~Throws(d, CommittedLine(v, n))
  PROVE  Rooted(ApplyCommitted(d, CommittedLine(v, n)))
<1> DEFINE line == CommittedLine(v, n)
           w == WithRows(d, line)
           i == Inserted(w, v)
           e == ApplyCommitted(d, line)
<1>1. line.v = v /\ line.type = "committed"
  BY DEF CommittedLine
<1>2. IndexOK(w) /\ Named(w) /\ w.versions = d.versions /\ w.refs[v.sha] # -1
  BY WithRowsOK
<1>3. \A a \in Artifact : d.row[a] # None => w.row[a] # None
  BY WithRowsKeep
<1>4. w.row[v.art] # None \/ Conflicts(d, v)
  BY <1>1 DEF Throws
<1>5. \A x \in d.versions : x.art \in Artifact
  BY DEF IndexOK, Index, VersionSet, MarkerSet
<1>6. Conflicts(w, v) = Conflicts(d, v)
  BY <1>2 DEF Conflicts
<1>7. i.row = w.row /\ i \in Index
  <2> HIDE DEF w
  <2>1. i \in Index
    BY <1>2, InsertedOK DEF IndexOK
  <2>2. i.row = w.row
    BY <1>2 DEF Inserted, IndexOK, Index
  <2>3. QED
    BY <2>1, <2>2
<1>8. e.row = i.row
  <2>1. e = [i EXCEPT !.current[v.art] =
                        IF i.row[v.art] # None /\ v.seq > CurrentSeq(i, v.art) THEN v.id ELSE @,
                      !.fence = Raised(d, v.token)]
    BY <1>1 DEF ApplyCommitted
  <2> HIDE DEF i, e
  <2>2. QED
    BY <1>7, <2>1 DEF Index
<1>9. e.versions = IF Conflicts(d, v) THEN d.versions ELSE d.versions \cup {v}
  BY AppliedCommit
<1> HIDE DEF e, i, w
<1>10. \A x \in d.versions : e.row[x.art] # None
  BY <1>3, <1>5, <1>7, <1>8 DEF Rooted
<1>11. ~Conflicts(d, v) => e.row[v.art] # None
  BY <1>4, <1>7, <1>8
<1>12. Rooted(e)
  BY <1>9, <1>10, <1>11 DEF Rooted
<1>13. QED
  BY <1>12 DEF e

(* What a line does to the versions.                                       *)
Adopts(d, e, line) ==
  /\ e.upload = d.upload /\ (Rooted(d) => Rooted(e))
  /\ line.type = "committed" =>
       e.versions = IF Conflicts(d, line.v) THEN d.versions ELSE d.versions \cup {line.v}
  /\ line.type = "aborted" => e.versions = {w \in d.versions : w.id # line.id}
  /\ Plain(line) => e.versions = d.versions

(* Every line that does not throw does that.                               *)
LEMMA AppliedAdopts ==
  ASSUME NEW d, IndexOK(d), Named(d), NEW line \in LineSet, ~Throws(d, line)
  PROVE  Adopts(d, Applied(d, line), line)
<1> DEFINE e == Applied(d, line)
<1>1. ASSUME NEW v \in VersionSet, NEW n \in Name, line = CommittedLine(v, n)
      PROVE  Adopts(d, e, line)
  <2>1. line.type = "committed" /\ line.v = v /\ e = ApplyCommitted(d, line)
    BY <1>1 DEF CommittedLine, Applied
  <2> DEFINE f == ApplyCommitted(d, CommittedLine(v, n))
  <2>2. /\ f.upload = d.upload
        /\ f.versions = IF Conflicts(d, v) THEN d.versions ELSE d.versions \cup {v}
    BY AppliedCommit
  <2>3. Rooted(d) => Rooted(f)
    BY <1>1, AppliedRooted
  <2> HIDE DEF e, f
  <2>4. e = f
    BY <1>1, <2>1 DEF f
  <2>5. QED
    BY <2>1, <2>2, <2>3, <2>4 DEF Adopts, Plain
<1>2. ASSUME NEW p \in Put, line = AbortedLine(p) PROVE Adopts(d, e, line)
  <2>1. line.type = "aborted" /\ line.id = p /\ e = Cancelled(d, p)
    BY <1>2 DEF AbortedLine, Applied
  <2>2. e.versions = {w \in d.versions : w.id # p} /\ e.row = d.row /\ e.upload = d.upload
    BY <2>1 DEF Cancelled, IndexOK, Index
  <2> HIDE DEF e
  <2>3. QED
    BY <2>1, <2>2 DEF Adopts, Plain, Rooted
<1>3. ASSUME Plain(line), e.versions = d.versions, e.row = d.row, e.upload = d.upload
      PROVE  Adopts(d, e, line)
  <2> HIDE DEF e
  <2>1. QED
    BY <1>3 DEF Adopts, Plain, Rooted
<1>4. CASE line = Torn
  <2>1. e = d /\ line.type = "torn"
    BY <1>4 DEF Torn, Applied
  <2>2. QED
    BY <1>3, <2>1 DEF Plain
<1>5. ASSUME NEW a \in Artifact, NEW id, e = PointerSet(d, a, id), Plain(line)
      PROVE  Adopts(d, e, line)
  <2>1. e.versions = d.versions /\ e.row = d.row /\ e.upload = d.upload
    BY <1>5 DEF PointerSet, IndexOK, Index
  <2>2. QED
    BY <1>3, <1>5, <2>1
<1>6. ASSUME NEW a \in Artifact, line = DeleteLine(a) PROVE Adopts(d, e, line)
  <2>1. line.type = "delete" /\ e = PointerSet(d, a, None)
    BY <1>6 DEF DeleteLine, Applied
  <2>2. QED
    BY <1>5, <2>1 DEF Plain
<1>7. ASSUME NEW a \in Artifact, NEW p \in Put, line = MoveLine(a, p)
      PROVE  Adopts(d, e, line)
  <2>1. line.type = "move" /\ e = PointerSet(d, a, p)
    BY <1>7 DEF MoveLine, Applied
  <2>2. QED
    BY <1>5, <2>1 DEF Plain
<1>8. ASSUME NEW s \in Sha, line = PurgeLine(s) PROVE Adopts(d, e, line)
  <2>1. line.type = "purge" /\ e = [d EXCEPT !.refs[s] = -1]
    BY <1>8 DEF PurgeLine, Applied
  <2>2. e.versions = d.versions /\ e.row = d.row /\ e.upload = d.upload
    BY <2>1 DEF IndexOK, Index
  <2>3. QED
    BY <1>3, <2>1, <2>2 DEF Plain
<1>9. line # Corrupt
  BY DEF Throws
<1>10. QED
  BY <1>1, <1>2, <1>4, <1>6, <1>7, <1>8, <1>9, LineCases

(* What the journal says at a place is what its line says.                 *)
LEMMA SaidAt ==
  ASSUME journal \in Seq(LineSet), NEW m \in DOMAIN journal
  PROVE  /\ \A c \in CommitsOf(journal) : c[1] = m =>
              journal[m].type = "committed" /\ journal[m].v = c[2]
         /\ \A x \in AbortsOf(journal) : x[1] = m =>
              journal[m].type = "aborted" /\ journal[m].id = x[2]
         /\ journal[m].type = "committed" => <<m, journal[m].v>> \in CommitsOf(journal)
         /\ journal[m].type = "aborted" => <<m, journal[m].id>> \in AbortsOf(journal)
<1>1. journal[m] \in LineSet
  BY ElementOfSeq
<1>2. m \in Nat
  BY LenProperties
<1>3. ASSUME NEW c \in CommitsOf(journal), c[1] = m
      PROVE  journal[m].type = "committed" /\ journal[m].v = c[2]
  BY <1>3 DEF CommitsOf, CommittedLine
<1>4. ASSUME NEW x \in AbortsOf(journal), x[1] = m
      PROVE  journal[m].type = "aborted" /\ journal[m].id = x[2]
  BY <1>4 DEF AbortsOf, AbortedLine
<1>5. ASSUME journal[m].type = "committed" PROVE <<m, journal[m].v>> \in CommitsOf(journal)
  <2>1. PICK v \in VersionSet, n \in Name : journal[m] = CommittedLine(v, n)
    BY <1>1, <1>5, LineCases DEF Torn, Corrupt, AbortedLine, DeleteLine, MoveLine, PurgeLine
  <2>2. journal[m].v = v
    BY <2>1 DEF CommittedLine
  <2>3. QED
    BY <1>2, <2>1, <2>2 DEF CommitsOf
<1>6. ASSUME journal[m].type = "aborted" PROVE <<m, journal[m].id>> \in AbortsOf(journal)
  <2>1. PICK p \in Put : journal[m] = AbortedLine(p)
    BY <1>1, <1>6, LineCases DEF Torn, Corrupt, CommittedLine, DeleteLine, MoveLine, PurgeLine
  <2>2. journal[m].id = p
    BY <2>1 DEF AbortedLine
  <2>3. QED
    BY <1>2, <2>1, <2>2 DEF AbortsOf
<1>7. QED
  BY <1>3, <1>4, <1>5, <1>6

(* An index that a replay of this journal can complete: what it lacks, and *)
(* was not called off, clashes with nothing it has.                        *)
Takes(d) ==
  /\ InOrder(journal)
  /\ \A c \in CommitsOf(journal) :
       Called(journal, c[2].id) \/ c[2] \in d.versions \/ ~Conflicts(d, c[2])

(* What the index d holds after n lines of a replay into the index b.      *)
FromLines(w, n) ==
  \E c \in CommitsOf(journal) : c[1] <= n /\ c[2] = w /\ ~CalledBy(journal, w.id, n + 1)
Follows(b, d, n) ==
  /\ d.upload = b.upload /\ Rooted(d)
  /\ \A w \in d.versions : w \in b.versions \/ FromLines(w, n)
  /\ \A w \in b.versions : w \in d.versions \/ Called(journal, w.id)
  /\ Takes(b) => \A c \in CommitsOf(journal) :
                   c[1] <= n => Called(journal, c[2].id) \/ c[2] \in d.versions

(* The line of a commit is taken in, when the index can be completed.      *)
LEMMA FollowsCommit ==
  ASSUME journal \in Seq(LineSet), Placed(journal), NEW n \in Nat, n + 1 \in DOMAIN journal,
         journal[n + 1].type = "committed", NEW b, NEW d, Follows(b, d, n),
         NEW e, Adopts(d, e, journal[n + 1])
  PROVE  Follows(b, e, n + 1)
<1> DEFINE v == journal[n + 1].v
           m == n + 1
<1>1. /\ <<m, v>> \in CommitsOf(journal) /\ \A x \in AbortsOf(journal) : x[1] # m
      /\ \A c \in CommitsOf(journal) : c[1] = m => c[2] = v
  BY SaidAt
<1>2. /\ e.upload = d.upload /\ Rooted(e)
      /\ e.versions = IF Conflicts(d, v) THEN d.versions ELSE d.versions \cup {v}
  BY DEF Adopts, Follows
<1>3. /\ \A c \in CommitsOf(journal) : c[1] \in Nat
      /\ \A x \in AbortsOf(journal) : x[1] \in Nat
  BY DEF CommitsOf, AbortsOf
<1> HIDE DEF v
<1>4. \A id : CalledBy(journal, id, m + 1) => CalledBy(journal, id, m)
  <2> SUFFICES ASSUME NEW id, NEW x \in AbortsOf(journal), x[1] < m + 1, x[2] = id
               PROVE  CalledBy(journal, id, m)
    BY DEF CalledBy
  <2>1. x[1] < m
    BY <1>1, <1>3
  <2>2. QED
    BY <2>1 DEF CalledBy
<1>5. \A w : FromLines(w, n) => FromLines(w, m)
  <2> SUFFICES ASSUME NEW w, FromLines(w, n) PROVE FromLines(w, m)
    OBVIOUS
  <2>1. PICK c \in CommitsOf(journal) :
          c[1] <= n /\ c[2] = w /\ ~CalledBy(journal, w.id, n + 1)
    BY DEF FromLines
  <2>2. c[1] <= m /\ ~CalledBy(journal, w.id, m + 1)
    BY <1>3, <1>4, <2>1
  <2>3. QED
    BY <2>1, <2>2 DEF FromLines
<1>6. FromLines(v, m)
  <2>1. <<m, v>>[1] = m /\ <<m, v>>[2] = v
    OBVIOUS
  <2>2. \A x \in AbortsOf(journal) : x[2] = v.id => m < x[1]
    BY <1>1, <2>1 DEF Placed
  <2>3. ~CalledBy(journal, v.id, m + 1)
    BY <1>3, <2>2 DEF CalledBy
  <2>4. QED
    BY <1>1, <2>1, <2>3 DEF FromLines
<1>7. ASSUME NEW w \in e.versions PROVE w \in b.versions \/ FromLines(w, m)
  BY <1>2, <1>5, <1>6 DEF Follows
<1>8. ASSUME NEW w \in b.versions PROVE w \in e.versions \/ Called(journal, w.id)
  BY <1>2 DEF Follows
<1>9. ASSUME Takes(b), NEW c \in CommitsOf(journal), c[1] <= m, ~Called(journal, c[2].id)
      PROVE  c[2] \in e.versions
  <2>1. CASE c[1] <= n
    BY <1>2, <1>9, <2>1 DEF Follows
  <2>2. CASE c[1] = m
    <3>1. c[2] = v
      BY <1>1, <2>2
    <3>2. CASE c[2] \in b.versions
      BY <1>8, <1>9, <3>2
    <3>3. CASE ~Conflicts(b, c[2])
      <4>1. ASSUME Conflicts(d, v) PROVE FALSE
        <5>1. PICK w \in d.versions : Clash(w, v)
          BY <4>1 DEF Conflicts, Clash
        <5>2. w \notin b.versions
          BY <3>1, <3>3, <5>1, ClashConflicts
        <5>3. FromLines(w, n)
          BY <5>2 DEF Follows
        <5>4. PICK y \in CommitsOf(journal) :
                y[1] <= n /\ y[2] = w /\ ~CalledBy(journal, w.id, m)
          BY <5>3 DEF FromLines
        <5>5. y[1] < c[1]
          BY <1>3, <2>2, <5>4
        <5>6. CalledBy(journal, w.id, m)
          BY <1>9, <2>2, <3>1, <5>1, <5>4, <5>5 DEF Takes, InOrder
        <5>7. QED
          BY <5>4, <5>6
      <4>2. QED
        BY <1>2, <3>1, <4>1
    <3>4. QED
      BY <1>9, <3>2, <3>3 DEF Takes
  <2>3. QED
    BY <1>3, <1>9, <2>1, <2>2
<1>10. QED
  BY <1>2, <1>7, <1>8, <1>9 DEF Follows

(* So do the lines that call off, and the others.                          *)
LEMMA FollowsOther ==
  ASSUME journal \in Seq(LineSet), NEW n \in Nat, n + 1 \in DOMAIN journal,
         journal[n + 1].type # "committed", NEW b, NEW d, Follows(b, d, n),
         NEW e, Adopts(d, e, journal[n + 1])
  PROVE  Follows(b, e, n + 1)
<1> DEFINE line == journal[n + 1]
           m == n + 1
<1>1. /\ \A c \in CommitsOf(journal) : c[1] # m
      /\ \A x \in AbortsOf(journal) : x[1] = m => line.type = "aborted" /\ line.id = x[2]
      /\ line.type = "aborted" => <<m, line.id>> \in AbortsOf(journal)
  BY SaidAt
<1>2. /\ e.upload = d.upload /\ Rooted(e)
      /\ line.type = "aborted" => e.versions = {w \in d.versions : w.id # line.id}
      /\ line.type # "aborted" => e.versions = d.versions
  BY DEF Adopts, Follows, Plain
<1>3. /\ \A c \in CommitsOf(journal) : c[1] \in Nat
      /\ \A x \in AbortsOf(journal) : x[1] \in Nat
  BY DEF CommitsOf, AbortsOf
<1> HIDE DEF line
<1>4. ASSUME NEW w \in e.versions PROVE w \in b.versions \/ FromLines(w, m)
  <2>1. CASE w \in b.versions
    BY <2>1
  <2>2. CASE FromLines(w, n)
    <3>1. PICK c \in CommitsOf(journal) :
            c[1] <= n /\ c[2] = w /\ ~CalledBy(journal, w.id, m)
      BY <2>2 DEF FromLines
    <3>2. ASSUME NEW x \in AbortsOf(journal), x[1] < m + 1, x[2] = w.id PROVE FALSE
      <4>1. x[1] = m
        BY <1>3, <3>1, <3>2 DEF CalledBy
      <4>2. QED
        BY <1>1, <1>2, <3>2, <4>1
    <3>3. ~CalledBy(journal, w.id, m + 1)
      BY <3>2 DEF CalledBy
    <3>4. c[1] <= m
      BY <1>3, <3>1
    <3>5. QED
      BY <3>1, <3>3, <3>4 DEF FromLines
  <2>3. QED
    BY <1>2, <2>1, <2>2 DEF Follows
<1>5. ASSUME NEW w \in d.versions PROVE w \in e.versions \/ Called(journal, w.id)
  <2>1. CASE line.type = "aborted" /\ w.id = line.id
    <3>1. <<m, line.id>>[2] = line.id
      OBVIOUS
    <3>2. QED
      BY <1>1, <2>1, <3>1 DEF Called
  <2>2. QED
    BY <1>2, <2>1
<1>6. ASSUME NEW w \in b.versions PROVE w \in e.versions \/ Called(journal, w.id)
  BY <1>5 DEF Follows
<1>7. ASSUME Takes(b), NEW c \in CommitsOf(journal), c[1] <= m
      PROVE  Called(journal, c[2].id) \/ c[2] \in e.versions
  <2>1. c[1] <= n
    BY <1>1, <1>3, <1>7
  <2>2. QED
    BY <1>5, <1>7, <2>1 DEF Follows
<1>8. QED
  BY <1>2, <1>4, <1>6, <1>7 DEF Follows

(* Before the first line, the index is the one there was.                  *)
LEMMA FollowsNone ==
  ASSUME NEW b, Rooted(b), journal \in Seq(LineSet)
  PROVE  Follows(b, b, 0)
<1>1. \A c \in CommitsOf(journal) : ~(c[1] <= 0)
  BY LenProperties DEF CommitsOf
<1>2. QED
  BY <1>1 DEF Follows

(* A replay to the end.                                                    *)
LEMMA ReplayFollows ==
  ASSUME journal \in Seq(LineSet), Placed(journal), NEW b, IndexOK(b), Named(b), Rooted(b),
         Replay(b).ok
  PROVE  Follows(b, Replay(b).d, Len(journal))
<1> DEFINE L == Len(journal)
           Fine(r, n) == SoFar(r, n) /\ (r.ok => Follows(b, r.d, n))
           G == {n \in 0..L : Fine(Stages(b)[n], n)}
<1>1. L \in Nat /\ DOMAIN journal = 1..L
  BY LenProperties
<1>2. /\ Stages(b)[0] = [ok |-> TRUE, d |-> b]
      /\ \A n \in 0..L : n # L => Stages(b)[n + 1] = Step(Stages(b)[n], journal[n + 1])
  BY <1>1, StagesStep
<1>3. 0 \in G
  <2>1. \A i \in 1..0 : FALSE
    OBVIOUS
  <2>2. Covered(b, 0)
    BY <2>1, Zenon DEF Covered
  <2>3. Follows(b, b, 0)
    BY FollowsNone
  <2>4. Fine([ok |-> TRUE, d |-> b], 0)
    BY <2>2, <2>3 DEF SoFar
  <2>5. 0 \in 0..L
    BY <1>1
  <2> HIDE DEF Fine, L
  <2>6. QED
    BY <1>2, <2>4, <2>5
<1>4. ASSUME NEW n \in 0..L, n # L, n \in G PROVE n + 1 \in G
  <2> DEFINE r == Stages(b)[n]
             line == journal[n + 1]
             q == Step(r, line)
  <2>1. n + 1 \in 0..L /\ n + 1 \in DOMAIN journal /\ n \in Nat
    <3> HIDE DEF L, G
    <3>1. QED
      BY <1>1, <1>4
  <2>2. SoFar(r, n) /\ (r.ok => Follows(b, r.d, n))
    BY <1>4
  <2>3. Stages(b)[n + 1] = q
    BY <1>2, <1>4
  <2> HIDE DEF r
  <2>4. SoFar(q, n + 1)
    BY <2>1, <2>2, StepOK
  <2>5. line \in LineSet
    BY <2>1, ElementOfSeq
  <2>6. ASSUME q.ok PROVE Follows(b, q.d, n + 1)
    <3>1. r = [ok |-> r.ok, d |-> r.d]
      BY <2>2 DEF SoFar
    <3>2. r.ok /\ ~Throws(r.d, line)
      <4>1. CASE ~r.ok \/ Throws(r.d, line)
        <5>1. q = [ok |-> FALSE, d |-> r.d]
          BY <3>1, <4>1 DEF Step
        <5>2. QED
          BY <2>6, <5>1
      <4>2. QED
        BY <4>1
    <3>3. q = [ok |-> r.ok, d |-> Applied(r.d, line)]
      BY <3>1, <3>2 DEF Step
    <3>4. IndexOK(r.d) /\ Named(r.d) /\ Follows(b, r.d, n)
      BY <2>2, <3>2 DEF SoFar, Covered
    <3>5. Adopts(r.d, q.d, line)
      BY <2>5, <3>2, <3>3, <3>4, AppliedAdopts
    <3> HIDE DEF q
    <3>6. QED
      BY <2>1, <3>4, <3>5, FollowsCommit, FollowsOther
  <2> HIDE DEF q
  <2>7. QED
    BY <2>1, <2>3, <2>4, <2>6
<1>5. 0..L \subseteq G
  <2> HIDE DEF G, L
  <2>1. QED
    BY <1>1, <1>3, <1>4, UpTo
<1>6. Fine(Stages(b)[L], L)
  <2>1. L \in 0..L
    BY <1>1
  <2> HIDE DEF Fine, L
  <2>2. QED
    BY <1>5, <2>1
<1>7. QED
  BY <1>6 DEF Replay

-----------------------------------------------------------------------------
(* The boot.                                                               *)

(* The index that a boot finds can be completed, unless it was lost after  *)
(* a purge and filled again.                                               *)
LEMMA BootTakes ==
  ASSUME DriveInv, SurvivalInv, status # "up", Intact \/ Restorable
  PROVE  Takes(db)
<1>1. InOrder(journal)
  BY DEF SurvivalInv, Restorable
<1>2. CASE Restorable
  <2>1. db.versions = {}
    BY <1>2 DEF Restorable, EmptyIndex
  <2>2. QED
    BY <1>1, <2>1 DEF Takes, Conflicts
<1>3. CASE Intact
  <2> SUFFICES ASSUME NEW c \in CommitsOf(journal), ~Called(journal, c[2].id),
                      c[2] \notin db.versions, Conflicts(db, c[2])
               PROVE  FALSE
    BY <1>1 DEF Takes
  <2>1. Retained(c[2])
    BY <1>3 DEF SurvivalInv, JournalKept
  <2>2. purged # {} /\ db.row[c[2].art] = None
    BY <2>1 DEF Retained
  <2>3. left["loss"] = Bound["loss"]
    BY <1>3, <2>2 DEF Intact
  <2>4. PICK w \in db.versions : Clash(w, c[2])
    BY DEF Conflicts, Clash
  <2>5. db.row[w.art] # None
    BY DEF SurvivalInv, Rooted
  <2>6. w.art # c[2].art
    BY <2>2, <2>5
  <2>7. c[2] \in VersionSet
    BY DEF CommitsOf
  <2>8. w.id # c[2].id
    BY DEF SurvivalInv, IdsOK
  <2>9. w.op = c[2].op
    BY <2>4, <2>6, <2>8 DEF Clash
  <2>10. w \in VersionSet
    <3>1. w \in VersionSet \cup MarkerSet
      BY DEF DriveInv, IndexOK, Index
    <3>2. QED
      BY <2>7, <2>9, <3>1, MarkersApart
  <2>11. w.sha # None
    BY <2>10, DriveAssumption DEF VersionSet
  <2>12. OfSession(db, c[2]) /\ OfSession(db, w)
    BY <2>3, <2>11 DEF SurvivalInv, SessionsKnown
  <2>13. QED
    BY <2>6, <2>9, <2>12 DEF OfSession
<1>4. QED
  BY <1>2, <1>3

(* A boot that refuses leaves all as it was.                               *)
LEMMA RefusedSurvives ==
  ASSUME DriveInv, SurvivalInv, status # "up", status' # "up",
         UNCHANGED <<db, journal, staging, cas, put, acked, purged, unlogged, left>>
  PROVE  SurvivalInv'
<1>1. \A w : Retained(w) => Retained(w)'
  BY DEF Retained
<1>2. JournalKept => JournalKept'
  BY <1>1 DEF JournalKept
<1>3. DoneOK' /\ IdsOK' /\ AnswersStand' /\ SessionsKnown' /\ LeftOK'
  BY DEF SurvivalInv, DoneOK, Used, IdsOK, AnswersStand, SessionsKnown, LeftOK
<1>4. Staged' /\ Rooted(db')
  BY DEF SurvivalInv, Staged, Writing
<1>5. Stored' \/ Restorable'
  BY DEF SurvivalInv, Stored, Restorable
<1>6. QED
  BY <1>2, <1>3, <1>4, <1>5 DEF SurvivalInv, Intact

(* A boot that succeeds has every version that was not called off, of the  *)
(* index and of the journal.                                               *)
LEMMA BootSurvives ==
  ASSUME DriveInv, SurvivalInv, Boot
  PROVE  SurvivalInv'
<1> DEFINE r == Replay(db)
<1>1. /\ status = "down" /\ status' \in {"up", "refused"}
      /\ status' = "refused" => db' = db
      /\ status' = "up" => r.ok /\ db' = Recounted(r.d)
      /\ UNCHANGED <<journal, staging, cas, put, acked, purged, unlogged, left>>
  BY DEF Boot, fileVars, historyVars
<1>2. CASE status' = "refused"
  BY <1>1, <1>2, RefusedSurvives
<1>3. CASE status' = "up"
  <2> DEFINE d == r.d
  <2>1. Rooted(db) /\ IdsOK /\ journal \in Seq(LineSet) /\ IndexOK(db) /\ RefsExact(db)
    BY DEF SurvivalInv, DriveInv
  <2>2. Covered(d, Len(journal)) /\ Follows(db, d, Len(journal))
    BY <1>1, <1>3, <2>1, ExactNamed, ReplayCovers, ReplayFollows DEF IdsOK
  <2>3. db' = Recounted(d)
    BY <1>1, <1>3
  <2> HIDE DEF r, d
  <2>4. db'.versions = d.versions /\ db'.row = d.row /\ db'.upload = d.upload
    BY <2>2, <2>3 DEF Recounted, Covered, IndexOK, Index
  <2>5. \A c \in CommitsOf(journal) : c[1] <= Len(journal)
    BY LenProperties, <2>1 DEF CommitsOf
  <2>6. /\ db'.upload = db.upload /\ Rooted(db')
        /\ \A w \in db'.versions :
             w \in db.versions \/ \E c \in CommitsOf(journal) : c[2] = w
        /\ \A w \in db.versions : w \in db'.versions \/ Called(journal, w.id)
        /\ Takes(db) => \A c \in CommitsOf(journal) :
                          Called(journal, c[2].id) \/ c[2] \in db'.versions
    BY <2>2, <2>4, <2>5 DEF Follows, FromLines, Rooted
  <2>7. Intact' => InOrder(journal') /\ JournalKept'
    <3> SUFFICES ASSUME Intact' PROVE InOrder(journal') /\ JournalKept'
      OBVIOUS
    <3>1. Intact
      BY <1>1 DEF Intact
    <3>2. Takes(db)
      BY <1>1, <3>1, BootTakes
    <3>3. QED
      BY <1>1, <2>6, <3>2 DEF Takes, JournalKept, Retained
  <2>8. SessionsKnown'
    BY <1>1, <2>6 DEF SurvivalInv, SessionsKnown, OfSession
  <2>9. IdsOK'
    BY <1>1, <2>6 DEF SurvivalInv, IdsOK, Placed
  <2>10. DoneOK'
    <3>1. \A p : Used(p)' => Used(p)
      BY <1>1, <2>6 DEF Used
    <3>2. QED
      BY <1>1, <3>1 DEF SurvivalInv, DoneOK
  <2>11. AnswersStand' /\ LeftOK'
    BY <1>1 DEF SurvivalInv, AnswersStand, LeftOK
  <2>12. Staged'
    <3>1. \A p \in Put : ~Writing(p)
      BY <1>1 DEF DriveInv, PutOK
    <3>2. QED
      BY <1>1, <3>1 DEF Staged, Writing
  <2>13. Stored'
    <3> SUFFICES ASSUME NEW w \in acked
                 PROVE  w.id \in purged \/ (w \in db'.versions /\ cas[w.sha] # None)
      BY <1>1 DEF Stored
    <3>1. ~Called(journal, w.id)
      BY DEF SurvivalInv, AnswersStand
    <3>2. CASE Stored
      BY <2>6, <3>1, <3>2 DEF Stored
    <3>3. CASE Restorable
      <4>1. Takes(db)
        BY <1>1, <3>3, BootTakes
      <4>2. w \in VersionSet /\ Written(journal, w)
        BY DEF DriveInv, AnsweredOK
      <4>3. \A i \in DOMAIN journal : journal[i] # Corrupt
        BY <1>3, <2>1, BootOK
      <4>4. PICK n \in Name, i \in DOMAIN journal : journal[i] = CommittedLine(w, n)
        BY <4>2, <4>3 DEF Written, Holds
      <4>5. <<i, w>> \in CommitsOf(journal)
        BY <2>1, <4>2, <4>4, LenProperties DEF CommitsOf
      <4>6. w \in db'.versions
        BY <2>6, <3>1, <4>1, <4>5
      <4>7. QED
        BY <3>3, <4>6 DEF Restorable
    <3>4. QED
      BY <3>2, <3>3 DEF SurvivalInv
  <2>14. QED
    BY <2>6, <2>7, <2>8, <2>9, <2>10, <2>11, <2>12, <2>13 DEF SurvivalInv
<1>4. QED
  BY <1>1, <1>2, <1>3

-----------------------------------------------------------------------------
(* All steps.                                                              *)

(* A new volume has nothing to lose.                                       *)
LEMMA SurvivalStarts == Init => SurvivalInv
<1> SUFFICES ASSUME Init PROVE SurvivalInv
  OBVIOUS
<1>1. /\ db = EmptyIndex /\ journal = <<>> /\ put = [p \in Put |-> Idle] /\ status = "up"
      /\ acked = {} /\ purged = {} /\ left = Bound
  BY DEF Init
<1>2. CommitsOf(journal) = {} /\ AbortsOf(journal) = {}
  BY <1>1 DEF CommitsOf, AbortsOf
<1>3. db.versions = {}
  BY <1>1 DEF EmptyIndex
<1>4. LeftOK
  BY <1>1, DriveAssumption DEF LeftOK
<1>5. InOrder(journal) /\ JournalKept /\ SessionsKnown /\ Rooted(db) /\ IdsOK
  BY <1>2, <1>3 DEF InOrder, JournalKept, SessionsKnown, Rooted, IdsOK, Placed
<1>6. DoneOK /\ AnswersStand /\ Stored
  BY <1>1, <1>2, <1>3 DEF DoneOK, Used, Called, AnswersStand, Stored
<1>7. Staged
  BY <1>1 DEF Staged, Writing, Idle
<1>8. QED
  BY <1>4, <1>5, <1>6, <1>7 DEF SurvivalInv

(* A stutter changes nothing of it.                                        *)
LEMMA SurvivalStutters == ASSUME SurvivalInv, UNCHANGED vars PROVE SurvivalInv'
<1>1. UNCHANGED <<db, journal, staging, cas, put, status, acked, purged, unlogged, left>>
  BY DEF vars, fileVars, historyVars
<1>2. \A w : Retained(w) => Retained(w)'
  BY <1>1 DEF Retained
<1>3. JournalKept => JournalKept'
  BY <1>1, <1>2 DEF JournalKept
<1>4. DoneOK' /\ IdsOK' /\ AnswersStand' /\ SessionsKnown' /\ LeftOK'
  BY <1>1 DEF SurvivalInv, DoneOK, Used, IdsOK, AnswersStand, SessionsKnown, LeftOK
<1>5. Staged' /\ Rooted(db')
  BY <1>1 DEF SurvivalInv, Staged, Writing
<1>6. Stored' \/ Restorable'
  BY <1>1 DEF SurvivalInv, Stored, Restorable
<1>7. QED
  BY <1>1, <1>3, <1>4, <1>5, <1>6 DEF SurvivalInv, Intact

(* What a PUT does.                                                        *)
LEMMA StreamsSurvive ==
  ASSUME DriveInv, SurvivalInv, NEW p \in Put, Streams(p)
  PROVE  SurvivalInv'
BY PutOpenSurvives, PutBytesSurvives, PutFailSurvives, PutReplayedSurvives,
   PutRefusedSurvives, PutBlockedSurvives, PutUnwrittenSurvives, PutCommittedSurvives,
   PutIoErrorSurvives,
   CrashInCommitSurvives, CrashInAppendSurvives DEF Streams

(* What an operator and the collector do.                                  *)
LEMMA OperatesSurvives ==
  ASSUME DriveInv, SurvivalInv, Operates
  PROVE  SurvivalInv'
<1>1. ASSUME NEW a \in Artifact, DeleteMarker(a) \/ CrashInPointer(DeleteLine(a))
      PROVE  SurvivalInv'
  <2>1. DeleteLine(a) \in LineSet /\ Plain(DeleteLine(a))
    BY DEF LineSet, Plain, DeleteLine
  <2>2. QED
    BY <1>1, <2>1, DeleteMarkerSurvives, CrashInPointerSurvives
<1>2. ASSUME NEW v \in db.versions,
             Restore(v) \/ (v.sha # None /\ CrashInPointer(MoveLine(v.art, v.id)))
      PROVE  SurvivalInv'
  <2>1. Plain(MoveLine(v.art, v.id))
    BY DEF Plain, MoveLine
  <2>2. QED
    BY <1>2, <2>1, MoveLineOK, RestoreSurvives, CrashInPointerSurvives
<1>3. QED
  BY <1>1, <1>2, GcPhase2Survives, CrashInGcSurvives DEF Operates

(* Every step keeps it, when the index is not lost again after a purge.    *)
LEMMA SurvivalSteps ==
  DriveInv /\ SurvivalInv /\ [Next]_vars /\ (LoseIndex => Intact) => SurvivalInv'
<1> SUFFICES ASSUME DriveInv, SurvivalInv, [Next]_vars, LoseIndex => Intact
             PROVE  SurvivalInv'
  OBVIOUS
<1>1. CASE UNCHANGED vars
  BY <1>1, SurvivalStutters
<1>2. CASE Next
  BY <1>2, RegisterSurvives, StreamsSurvive, AbortUploadSurvives, ElapseSurvives,
     SweepSurvives, OperatesSurvives, CrashIdleSurvives, LoseIndexSurvives, BootSurvives
     DEF Next
<1>3. QED
  BY <1>1, <1>2

(* The first loss of an index, while every failed commit was called off,   *)
(* leaves what SurvivalInv speaks of.                                      *)
LEMMA FirstLoss ==
  ASSUME SurvivalInv, LoseIndex, unlogged = {}, Bound["loss"] <= 1
  PROVE  Intact
<1>1. left["loss"] > 0 /\ left["loss"] <= Bound["loss"] /\ left["loss"] \in Nat
  BY DEF LoseIndex, Spend, SurvivalInv, LeftOK
<1>2. Bound["loss"] \in Nat
  BY DriveAssumption
<1>3. left["loss"] = Bound["loss"]
  BY <1>1, <1>2
<1>4. QED
  BY <1>3 DEF Intact

(* Two answers to one operation are one, unless a purge took them.         *)
OneAnswer == \A v, w \in acked : v.op = w.op /\ {v.id, w.id} \cap purged = {} => v = w

(* Only a commit answers with a new version, and purges are not undone.    *)
LEMMA OnlyCommitsAnswer ==
  ASSUME [Next]_vars
  PROVE  /\ acked' = acked \/ \E p \in Put : PutCommitted(p)
         /\ purged \subseteq purged'
BY DEF Next, Streams, Operates, Register, PutOpen, PutBytes, PutFail, PutReplayed, PutRefused,
       PutBlocked, PutCommitted, PutIoError, PutUnwritten, GivesUp, CrashInCommit, CrashInAppend,
       DeleteMarker, CrashInPointer, Restore, GcPhase2, CrashInGc, Collects, AbortUpload,
       Elapse, Sweep, CrashIdle, LoseIndex, Boot, vars, historyVars

(* An operation that has an answer in the index gets no other.             *)
LEMMA OneVersionSteps ==
  DriveInv /\ SurvivalInv /\ OneAnswer /\ [Next]_vars => OneAnswer'
<1> SUFFICES ASSUME DriveInv, SurvivalInv, OneAnswer, [Next]_vars
             PROVE  OneAnswer'
  OBVIOUS
<1>1. purged \subseteq purged'
  BY OnlyCommitsAnswer
<1>2. ASSUME NEW v \in acked, NEW w \in acked, v.op = w.op, {v.id, w.id} \cap purged' = {}
      PROVE  v = w
  BY <1>1, <1>2 DEF OneAnswer
<1>3. CASE acked' = acked
  BY <1>2, <1>3 DEF OneAnswer
<1>4. ASSUME NEW p \in Put, PutCommitted(p) PROVE OneAnswer'
  <2> DEFINE n == VersionOf(p)
  <2>1. acked' = acked \cup {n} /\ ~Conflicts(db, n) /\ Finishing(p)
    BY <1>4 DEF PutCommitted, Commits, Insertable
  <2> HIDE DEF n
  <2>2. Stored
    BY <2>1, FinishingOK DEF SurvivalInv, Restorable
  <2>3. ASSUME NEW w \in acked, w.id \notin purged' PROVE w.op # n.op
    BY <1>1, <2>1, <2>2, <2>3 DEF Stored, Conflicts
  <2>4. ASSUME NEW v \in acked', NEW w \in acked', v.op = w.op, {v.id, w.id} \cap purged' = {}
        PROVE  v = w
    BY <1>2, <2>1, <2>3, <2>4
  <2>5. QED
    BY <2>4 DEF OneAnswer
<1>5. QED
  BY <1>3, <1>4, OnlyCommitsAnswer

(* Nothing has been answered yet.                                          *)
LEMMA OneVersionStarts == Init => OneAnswer
BY DEF Init, OneAnswer

-----------------------------------------------------------------------------
(* The bytes behind a name.                                                *)

(* A file is of one upload, or of hashes.                                  *)
FilesApart ==
  /\ \A u, w \in Upload : staging[u] = staging[w] /\ staging[u] # None => u = w
  /\ \A u \in Upload, s \in Sha : staging[u] = cas[s] => staging[u] = None

(* A stream writes the file of its upload while that is pending.  A file   *)
(* that another stream has, or a hash, was once open twice.                *)
FilesOwned ==
  \A p \in Put : Writing(p) =>
    /\ db.upload[put[p].upload].state = "pending" => staging[put[p].upload] = put[p].file
    /\ \A q \in Put : Writing(q) /\ put[q].file = put[p].file => p = q \/ put[p].file \in shared
    /\ \A s \in Sha : cas[s] = put[p].file => put[p].file \in shared

(* The file a stream will create is nobody's yet.                          *)
FilesNew ==
  \A f \in Put : put[f].pc = "idle" =>
    /\ \A u \in Upload : staging[u] # f
    /\ \A s \in Sha : cas[s] # f
    /\ \A p \in Put : Writing(p) => put[p].file # f

(* A whole body, and the file of a hash, hash to what they say, unless two *)
(* streams had the file open.                                              *)
BlobsOK ==
  /\ \A p \in Put : put[p].pc = "sent" =>
       put[p].file \in shared \/ content[put[p].file] = put[p].sha
  /\ \A s \in Sha : cas[s] # None => cas[s] \in shared \/ content[cas[s]] = s

BytesOK == FilesApart /\ FilesOwned /\ FilesNew /\ BlobsOK
BytesInv == DriveInv /\ BytesOK

(* An empty volume has no file.                                            *)
LEMMA BytesStart == Init => BytesInv
<1> SUFFICES ASSUME Init PROVE BytesOK
  BY DriveStarts DEF BytesInv
<1>1. FilesApart /\ FilesOwned /\ FilesNew /\ BlobsOK
  BY DriveAssumption
  DEF Init, Idle, Writing, FilesApart, FilesOwned, FilesNew, BlobsOK
<1>2. QED
  BY <1>1 DEF BytesOK

(* Streams end, uploads and hashes lose files, and no byte is written.     *)
Lessens ==
  /\ content' = content /\ shared' = shared
  /\ \A u \in Upload : staging'[u] \in {staging[u], None}
  /\ \A p \in Put : put'[p] = put[p] \/ (~Writing(p)' /\ put'[p].pc # "sent")
  /\ \A p \in Put : put'[p].pc = "idle" => put[p].pc = "idle"
  /\ \A p \in Put : Writing(p)' /\ db'.upload[put[p].upload].state = "pending" =>
       /\ db.upload[put[p].upload].state = "pending"
       /\ staging'[put[p].upload] = staging[put[p].upload]

(* That leaves whose files they are as it was.                             *)
LEMMA Lessened ==
  ASSUME BytesInv, Lessens, \A s \in Sha : cas'[s] \in {cas[s], None}
  PROVE  BytesOK'
<1>0. \A p \in Put : Writing(p)' => Writing(p) /\ put'[p] = put[p] /\ put[p].file # None
  BY DriveAssumption DEF Lessens, Writing, BytesInv, DriveInv, PutOK
<1>1. FilesApart'
  BY DEF Lessens, BytesInv, BytesOK, FilesApart
<1>2. FilesOwned'
  <2> SUFFICES ASSUME NEW p \in Put, Writing(p)'
               PROVE  /\ db'.upload[put'[p].upload].state = "pending" =>
                           staging'[put'[p].upload] = put'[p].file
                      /\ \A q \in Put : Writing(q)' /\ put'[q].file = put'[p].file =>
                           p = q \/ put'[p].file \in shared'
                      /\ \A s \in Sha : cas'[s] = put'[p].file => put'[p].file \in shared'
    BY DEF FilesOwned
  <2>1. Writing(p) /\ put'[p] = put[p] /\ put[p].file # None
    BY <1>0
  <2>2. db'.upload[put[p].upload].state = "pending" =>
          /\ db.upload[put[p].upload].state = "pending"
          /\ staging'[put[p].upload] = staging[put[p].upload]
    BY DEF Lessens
  <2>3. /\ db.upload[put[p].upload].state = "pending" => staging[put[p].upload] = put[p].file
        /\ \A q \in Put : Writing(q) /\ put[q].file = put[p].file =>
             p = q \/ put[p].file \in shared
        /\ \A s \in Sha : cas[s] = put[p].file => put[p].file \in shared
    BY <2>1 DEF BytesInv, BytesOK, FilesOwned
  <2>4. shared' = shared
    BY DEF Lessens
  <2>5. QED
    BY <1>0, <2>1, <2>2, <2>3, <2>4
<1>3. FilesNew'
  BY <1>0, DriveAssumption DEF Lessens, BytesInv, BytesOK, FilesNew
<1>4. BlobsOK'
  BY DEF Lessens, BytesInv, BytesOK, BlobsOK
<1>5. QED
  BY <1>1, <1>2, <1>3, <1>4 DEF BytesOK

(* A stream's file goes under its hash, unless that has one.               *)
LEMMA Published ==
  ASSUME BytesInv, Lessens, NEW p \in Put, Finishing(p), StateOf(p) = "pending",
         cas' = Materialized(p), staging' = [staging EXCEPT ![put[p].upload] = None],
         ~Writing(p)'
  PROVE  BytesOK'
<1> DEFINE u == put[p].upload
           s == put[p].sha
<1>1. CASE cas[s] # None
  BY <1>1, Lessened DEF Materialized
<1>2. CASE cas[s] = None
  <2>0. /\ \A q \in Put : Writing(q)' =>
             Writing(q) /\ put'[q] = put[q] /\ put[q].file # None
        /\ Writing(p) /\ put[p].pc = "sent" /\ put[p].file \in Put
        /\ u \in Upload /\ s \in Sha /\ None \notin Put
    BY DriveAssumption DEF Lessens, Finishing, Writing, BytesInv, DriveInv, PutOK
  <2>1. staging[u] = put[p].file
    BY <2>0 DEF BytesInv, BytesOK, FilesOwned, StateOf
  <2>2. cas' = [cas EXCEPT ![s] = put[p].file] /\ staging' = [staging EXCEPT ![u] = None]
    BY <1>2, <2>1 DEF Materialized
  <2>3. cas \in [Sha -> Put \cup {None}] /\ staging \in [Upload -> Put \cup {None}]
    BY DEF BytesInv, DriveInv, FilesOK
  <2>4. content' = content /\ shared' = shared
    BY DEF Lessens
  <2> HIDE DEF u, s
  <2>5. FilesApart'
    <3> SUFFICES ASSUME NEW w \in Upload, NEW t \in Sha, staging'[w] = cas'[t]
                 PROVE  staging'[w] = None
      BY <2>2, <2>3 DEF FilesApart, BytesInv, BytesOK
    <3>1. CASE w = u
      BY <2>2, <2>3, <3>1
    <3>2. CASE w # u /\ t = s
      BY <2>0, <2>1, <2>2, <2>3, <3>2 DEF FilesApart, BytesInv, BytesOK
    <3>3. CASE w # u /\ t # s
      BY <2>2, <2>3, <3>3 DEF FilesApart, BytesInv, BytesOK
    <3>4. QED
      BY <3>1, <3>2, <3>3
  <2>6. FilesOwned'
    <3> SUFFICES ASSUME NEW q \in Put, Writing(q)'
                 PROVE  /\ db'.upload[put'[q].upload].state = "pending" =>
                             staging'[put'[q].upload] = put'[q].file
                        /\ \A r \in Put : Writing(r)' /\ put'[r].file = put'[q].file =>
                             q = r \/ put'[q].file \in shared'
                        /\ \A t \in Sha : cas'[t] = put'[q].file => put'[q].file \in shared'
      BY DEF FilesOwned
    <3>1. Writing(q) /\ put'[q] = put[q] /\ q # p
      BY <2>0
    <3>2. db'.upload[put[q].upload].state = "pending" =>
            /\ db.upload[put[q].upload].state = "pending"
            /\ staging'[put[q].upload] = staging[put[q].upload]
      BY DEF Lessens
    <3>3. /\ db.upload[put[q].upload].state = "pending" => staging[put[q].upload] = put[q].file
          /\ \A r \in Put : Writing(r) /\ put[r].file = put[q].file =>
               q = r \/ put[q].file \in shared
          /\ \A t \in Sha : cas[t] = put[q].file => put[q].file \in shared
      BY <3>1 DEF BytesInv, BytesOK, FilesOwned
    <3>4. put[q].file = put[p].file => put[q].file \in shared
      BY <2>0, <3>1, <3>3
    <3>5. \A t \in Sha : cas'[t] = put[q].file => put[q].file \in shared
      BY <2>2, <2>3, <3>3, <3>4
    <3>6. QED
      BY <2>0, <2>4, <3>1, <3>2, <3>3, <3>5
  <2>7. FilesNew'
    <3>1. ASSUME NEW f \in Put, put'[f].pc = "idle"
          PROVE  /\ put[f].pc = "idle" /\ \A w \in Upload : staging[w] # f
                 /\ \A t \in Sha : cas[t] # f
                 /\ \A q \in Put : Writing(q) => put[q].file # f
      BY <3>1 DEF Lessens, BytesInv, BytesOK, FilesNew
    <3>2. ASSUME NEW f \in Put, put'[f].pc = "idle"
          PROVE  /\ \A w \in Upload : staging'[w] # f
                 /\ \A t \in Sha : cas'[t] # f
                 /\ \A q \in Put : Writing(q)' => put'[q].file # f
      BY <2>0, <2>2, <2>3, <3>1, <3>2
    <3>3. QED
      BY <3>2 DEF FilesNew
  <2>8. BlobsOK'
    <3>1. put[p].file \in shared \/ content[put[p].file] = s
      BY <2>0 DEF BytesInv, BytesOK, BlobsOK, s
    <3>2. \A t \in Sha : cas'[t] # None => cas'[t] \in shared \/ content[cas'[t]] = t
      BY <2>2, <2>3, <3>1 DEF BytesInv, BytesOK, BlobsOK
    <3>3. \A q \in Put : put'[q].pc = "sent" =>
            put'[q].file \in shared \/ content[put'[q].file] = put'[q].sha
      BY DEF Lessens, BytesInv, BytesOK, BlobsOK
    <3>4. QED
      BY <2>4, <3>2, <3>3 DEF BlobsOK
  <2>9. QED
    BY <2>5, <2>6, <2>7, <2>8 DEF BytesOK
<1>3. QED
  BY <1>1, <1>2

(* A stream cuts the file it opens: its own, or one that is open already   *)
(* and counts as shared from here on, or one left of an earlier stream.    *)
LEMMA PutOpenBytes ==
  ASSUME BytesInv, NEW p \in Put, NEW u \in Upload, NEW s \in Sha, PutOpen(p, u, s)
  PROVE  BytesOK'
<1> DEFINE file == IF staging[u] = None THEN p ELSE staging[u]
           r == [pc |-> "open", upload |-> u, sha |-> s, file |-> file, charged |-> 0]
<1>1. /\ put[p].pc = "idle" /\ staging' = [staging EXCEPT ![u] = file]
      /\ content' = [content EXCEPT ![file] = "short"] /\ put' = [put EXCEPT ![p] = r]
      /\ shared' = shared \cup
           {put[q].file : q \in {x \in Put : Writing(x) /\ put[x].file = file}}
      /\ db' = db /\ cas' = cas
  BY DEF PutOpen
<1>2. /\ put \in [Put -> PutRow] /\ staging \in [Upload -> Put \cup {None}]
      /\ content \in [Put -> Sha \cup {None, "short"}] /\ None \notin Put
  BY DriveAssumption DEF BytesInv, DriveInv, FilesOK
<1>3. /\ r.pc = "open" /\ r.upload = u /\ r.sha = s /\ r.file = file
      /\ file \in Put /\ file # None /\ (staging[u] = file \/ (staging[u] = None /\ file = p))
  BY <1>2
<1>4. /\ \A w \in Upload : staging[w] = file => w = u
      /\ \A t \in Sha : cas[t] # file
  <2>1. CASE staging[u] = file
    BY <1>2, <1>3, <2>1 DEF BytesInv, BytesOK, FilesApart
  <2>2. CASE file = p
    BY <1>1, <2>2 DEF BytesInv, BytesOK, FilesNew
  <2>3. QED
    BY <1>3, <2>1, <2>2
<1>5. /\ \A q \in Put : q # p => put'[q] = put[q] /\ (Writing(q)' <=> Writing(q))
      /\ put'[p] = r /\ ~Writing(p) /\ shared \subseteq shared'
      /\ \A q \in Put : Writing(q) /\ put[q].file = file => file \in shared'
  <2> HIDE DEF file, r
  <2>1. QED
    BY <1>1, <1>2 DEF Writing
<1>6. \A q \in Put : Writing(q) /\ db.upload[put[q].upload].state = "pending" =>
        staging'[put[q].upload] = put[q].file
  <2> SUFFICES ASSUME NEW q \in Put, Writing(q),
                      db.upload[put[q].upload].state = "pending"
               PROVE  staging'[put[q].upload] = put[q].file
    OBVIOUS
  <2>1. staging[put[q].upload] = put[q].file /\ put[q].file # None /\ put[q].upload \in Upload
    BY <1>2 DEF BytesInv, BytesOK, FilesOwned, DriveInv, PutOK
  <2> HIDE DEF file
  <2>2. CASE put[q].upload = u
    BY <1>1, <1>2, <1>3, <2>1, <2>2
  <2>3. CASE put[q].upload # u
    BY <1>1, <1>2, <2>1, <2>3
  <2>4. QED
    BY <2>2, <2>3
<1> HIDE DEF file, r
<1>7. FilesApart'
  BY <1>1, <1>2, <1>3, <1>4 DEF BytesInv, BytesOK, FilesApart
<1>8. FilesOwned'
  <2> SUFFICES ASSUME NEW q \in Put, Writing(q)'
               PROVE  /\ db'.upload[put'[q].upload].state = "pending" =>
                           staging'[put'[q].upload] = put'[q].file
                      /\ \A x \in Put : Writing(x)' /\ put'[x].file = put'[q].file =>
                           q = x \/ put'[q].file \in shared'
                      /\ \A t \in Sha : cas'[t] = put'[q].file => put'[q].file \in shared'
    BY DEF FilesOwned
  <2>1. CASE q = p
    <3>1. put'[q].upload = u /\ put'[q].file = file /\ staging'[u] = file
      BY <1>1, <1>2, <1>3, <1>5, <2>1
    <3>2. \A x \in Put : x # p /\ Writing(x)' /\ put'[x].file = file => file \in shared'
      BY <1>5
    <3>3. QED
      BY <1>1, <1>4, <2>1, <3>1, <3>2
  <2>2. CASE q # p
    <3>1. put'[q] = put[q] /\ Writing(q)
      BY <1>5, <2>2
    <3>2. /\ \A x \in Put : Writing(x) /\ put[x].file = put[q].file =>
               q = x \/ put[q].file \in shared
          /\ \A t \in Sha : cas[t] = put[q].file => put[q].file \in shared
      BY <3>1 DEF BytesInv, BytesOK, FilesOwned
    <3>3. put[q].file = file => file \in shared'
      BY <1>5, <3>1
    <3>4. \A x \in Put : Writing(x)' /\ put'[x].file = put[q].file =>
            q = x \/ put[q].file \in shared'
      <4> SUFFICES ASSUME NEW x \in Put, Writing(x)', put'[x].file = put[q].file, q # x
                   PROVE  put[q].file \in shared'
        OBVIOUS
      <4>1. CASE x = p
        BY <1>3, <1>5, <3>3, <4>1
      <4>2. CASE x # p
        BY <1>5, <3>2, <4>2
      <4>3. QED
        BY <4>1, <4>2
    <3>5. QED
      BY <1>1, <1>5, <1>6, <3>1, <3>2, <3>4
  <2>3. QED
    BY <2>1, <2>2
<1>9. FilesNew'
  <2> SUFFICES ASSUME NEW f \in Put, put'[f].pc = "idle"
               PROVE  /\ \A w \in Upload : staging'[w] # f
                      /\ \A t \in Sha : cas'[t] # f
                      /\ \A q \in Put : Writing(q)' => put'[q].file # f
    BY DEF FilesNew
  <2>1. f # p /\ put[f].pc = "idle"
    BY <1>3, <1>5
  <2>2. /\ \A w \in Upload : staging[w] # f
        /\ \A t \in Sha : cas[t] # f
        /\ \A q \in Put : Writing(q) => put[q].file # f
    BY <2>1 DEF BytesInv, BytesOK, FilesNew
  <2>3. file # f
    BY <1>3, <2>1, <2>2
  <2>4. QED
    BY <1>1, <1>2, <1>3, <1>5, <2>2, <2>3
<1>10. BlobsOK'
  <2>1. ASSUME NEW q \in Put, put'[q].pc = "sent"
        PROVE  put'[q].file \in shared' \/ content'[put'[q].file] = put'[q].sha
    <3>1. q # p /\ put'[q] = put[q] /\ put[q].pc = "sent" /\ Writing(q)
      BY <1>3, <1>5, <2>1 DEF Writing
    <3>2. put[q].file \in Put /\ (put[q].file \in shared \/ content[put[q].file] = put[q].sha)
      BY <3>1 DEF BytesInv, BytesOK, BlobsOK, DriveInv, PutOK
    <3>3. CASE put[q].file = file
      BY <1>5, <3>1, <3>3
    <3>4. CASE put[q].file # file
      BY <1>1, <1>2, <1>5, <3>1, <3>2, <3>4
    <3>5. QED
      BY <3>3, <3>4
  <2>2. ASSUME NEW t \in Sha, cas'[t] # None
        PROVE  cas'[t] \in shared' \/ content'[cas'[t]] = t
    <3>1. cas'[t] = cas[t] /\ cas[t] \in Put /\ cas[t] # file
      BY <1>1, <1>4, <2>2 DEF BytesInv, DriveInv, FilesOK
    <3>2. cas[t] \in shared \/ content[cas[t]] = t
      BY <2>2, <3>1 DEF BytesInv, BytesOK, BlobsOK
    <3>3. QED
      BY <1>1, <1>2, <1>5, <3>1, <3>2
  <2>3. QED
    BY <2>1, <2>2 DEF BlobsOK
<1>11. QED
  BY <1>7, <1>8, <1>9, <1>10 DEF BytesOK

(* The bytes of a stream reach its file; who else has it, shares it.       *)
LEMMA PutBytesBytes ==
  ASSUME BytesInv, NEW p \in Put, NEW flushes \in BOOLEAN, PutBytes(p, flushes)
  PROVE  BytesOK'
<1> DEFINE file == put[p].file
<1>1. /\ put[p].pc = "open" /\ (flushes => MayCharge(p))
      /\ content' = [content EXCEPT ![file] = put[p].sha]
      /\ \E c : put' = [put EXCEPT ![p].pc = "sent", ![p].charged = c]
      /\ db' = IF flushes THEN Charge(p) ELSE db
      /\ UNCHANGED <<staging, cas, shared>>
  BY DEF PutBytes, historyVars
<1>2. /\ put \in [Put -> PutRow] /\ content \in [Put -> Sha \cup {None, "short"}]
      /\ cas \in [Sha -> Put \cup {None}] /\ None \notin Put
  BY DriveAssumption DEF BytesInv, DriveInv, FilesOK
<1>3. Writing(p) /\ file \in Put
  BY <1>1 DEF Writing, BytesInv, DriveInv, PutOK
<1>4. Going(db, db')
  BY <1>1, <1>3, ChargedStream, SameGoes DEF BytesInv
<1>5. /\ \A q \in Put : /\ Writing(q)' <=> Writing(q)
                        /\ put'[q].upload = put[q].upload /\ put'[q].sha = put[q].sha
                        /\ put'[q].file = put[q].file
                        /\ put'[q].pc = "idle" => put[q].pc = "idle"
                        /\ put'[q].pc = "sent" => q = p \/ put[q].pc = "sent"
  BY <1>1, <1>2 DEF Writing, PutRow
<1>6. \A q \in Put : Writing(q) /\ db'.upload[put[q].upload].state = "pending" =>
        db.upload[put[q].upload].state = "pending"
  BY <1>4 DEF BytesInv, DriveInv, PutOK, Going, GoesOn
<1>7. FilesApart'
  BY <1>1 DEF BytesInv, BytesOK, FilesApart
<1>8. FilesOwned'
  <2> SUFFICES ASSUME NEW q \in Put, Writing(q)'
               PROVE  /\ db'.upload[put'[q].upload].state = "pending" =>
                           staging'[put'[q].upload] = put'[q].file
                      /\ \A x \in Put : Writing(x)' /\ put'[x].file = put'[q].file =>
                           q = x \/ put'[q].file \in shared'
                      /\ \A t \in Sha : cas'[t] = put'[q].file => put'[q].file \in shared'
    BY DEF FilesOwned
  <2>1. Writing(q) /\ put'[q].upload = put[q].upload /\ put'[q].file = put[q].file
    BY <1>5
  <2>2. /\ db.upload[put[q].upload].state = "pending" => staging[put[q].upload] = put[q].file
        /\ \A x \in Put : Writing(x) /\ put[x].file = put[q].file =>
             q = x \/ put[q].file \in shared
        /\ \A t \in Sha : cas[t] = put[q].file => put[q].file \in shared
    BY <2>1 DEF BytesInv, BytesOK, FilesOwned
  <2>3. staging' = staging /\ cas' = cas /\ shared' = shared
    BY <1>1
  <2>4. \A x \in Put : (Writing(x)' <=> Writing(x)) /\ put'[x].file = put[x].file
    BY <1>5
  <2>5. QED
    BY <1>6, <2>1, <2>2, <2>3, <2>4
<1>9. FilesNew'
  <2> SUFFICES ASSUME NEW f \in Put, put'[f].pc = "idle"
               PROVE  /\ \A w \in Upload : staging'[w] # f
                      /\ \A t \in Sha : cas'[t] # f
                      /\ \A q \in Put : Writing(q)' => put'[q].file # f
    BY DEF FilesNew
  <2>1. put[f].pc = "idle"
    BY <1>5
  <2>2. /\ \A w \in Upload : staging[w] # f
        /\ \A t \in Sha : cas[t] # f
        /\ \A q \in Put : Writing(q) => put[q].file # f
    BY <2>1 DEF BytesInv, BytesOK, FilesNew
  <2>3. staging' = staging /\ cas' = cas
    BY <1>1
  <2>4. \A q \in Put : Writing(q)' => Writing(q) /\ put'[q].file = put[q].file
    BY <1>5
  <2>5. QED
    BY <2>2, <2>3, <2>4
<1>10. BlobsOK'
  <2>1. ASSUME NEW q \in Put, put'[q].pc = "sent"
        PROVE  put'[q].file \in shared' \/ content'[put'[q].file] = put'[q].sha
    <3>1. CASE put[q].file = file
      <4>1. q = p \/ file \in shared
        BY <1>3, <1>5, <2>1, <3>1 DEF Writing, BytesInv, BytesOK, FilesOwned
      <4>2. content'[file] = put[p].sha
        BY <1>1, <1>2, <1>3
      <4>3. QED
        BY <1>1, <1>5, <3>1, <4>1, <4>2
    <3>2. CASE put[q].file # file
      <4>1. q # p /\ put[q].pc = "sent" /\ Writing(q)
        BY <1>5, <2>1, <3>2 DEF Writing
      <4>2. put[q].file \in shared \/ content[put[q].file] = put[q].sha
        BY <4>1 DEF BytesInv, BytesOK, BlobsOK
      <4>3. put[q].file \in Put
        BY <4>1 DEF BytesInv, DriveInv, PutOK
      <4>4. QED
        BY <1>1, <1>2, <1>5, <3>2, <4>2, <4>3
    <3>3. QED
      BY <3>1, <3>2
  <2>2. ASSUME NEW t \in Sha, cas'[t] # None
        PROVE  cas'[t] \in shared' \/ content'[cas'[t]] = t
    <3>1. cas'[t] = cas[t] /\ cas[t] \in Put
      BY <1>1, <1>2, <2>2
    <3>2. cas[t] \in shared \/ content[cas[t]] = t
      BY <2>2, <3>1 DEF BytesInv, BytesOK, BlobsOK
    <3>3. cas[t] = file => file \in shared
      BY <1>3 DEF BytesInv, BytesOK, FilesOwned
    <3>4. QED
      BY <1>1, <1>2, <3>1, <3>2, <3>3
  <2>3. QED
    BY <2>1, <2>2 DEF BlobsOK
<1>11. QED
  BY <1>7, <1>8, <1>9, <1>10 DEF BytesOK

(* What a step that only touches sessions and ends streams has to show.    *)
LEMMA SessionsLessen ==
  ASSUME DriveInv, Going(db, db'), content' = content, shared' = shared,
         \A u \in Upload : staging'[u] = staging[u] \/
                           (staging'[u] = None /\ db'.upload[u].state # "pending"),
         \A p \in Put : put'[p] = put[p] \/ put'[p].pc = "done"
  PROVE  Lessens
<1>1. \A p \in Put : Writing(p)' => Writing(p) /\ put'[p] = put[p]
  BY DEF Writing
<1>2. \A p \in Put : Writing(p)' =>
        put[p].upload \in Upload /\ db.upload[put[p].upload].state # "none"
  BY <1>1 DEF DriveInv, PutOK
<1>3. \A p \in Put : Writing(p)' /\ db'.upload[put[p].upload].state = "pending" =>
        /\ db.upload[put[p].upload].state = "pending"
        /\ staging'[put[p].upload] = staging[put[p].upload]
  BY <1>2 DEF Going, GoesOn
<1>4. \A p \in Put : put'[p] = put[p] \/ (~Writing(p)' /\ put'[p].pc # "sent")
  BY DEF Writing
<1>5. QED
  BY <1>3, <1>4 DEF Lessens

(* One stream ends.                                                        *)
LEMMA EndsAlone ==
  ASSUME DriveInv, NEW p \in Put, Ends(p)
  PROVE  put'[p].pc = "done" /\ \A q \in Put : put'[q] = put[q] \/ put'[q].pc = "done"
BY DEF DriveInv, FilesOK, Ends, Idle

(* The file of an upload given up.                                         *)
LEMMA DiscardedFile ==
  ASSUME DriveInv, NEW d, NEW u \in Upload, NEW e, staging' = Discarded(d, u),
         e.upload[u].state # "pending"
  PROVE  \A w \in Upload : staging'[w] = staging[w] \/
                           (staging'[w] = None /\ e.upload[w].state # "pending")
BY DEF DriveInv, FilesOK, Discarded

(* The handler's catch.                                                    *)
LEMMA GivesUpLessens ==
  ASSUME DriveInv, NEW p \in Put, Writing(p), NEW n \in 0..1,
         NEW d, IndexOK(d), Aside(db, d), Going(db, d), GivesUp(p, d, n)
  PROVE  Lessens /\ ~Writing(p)'
<1>1. /\ Going(db, db') /\ put[p].upload \in Upload
      /\ db'.upload[put[p].upload].state # "pending"
  BY GivesUpIndex
<1>2. /\ staging' = Discarded(d, put[p].upload) /\ Ends(p)
      /\ content' = content /\ shared' = shared
  BY DEF GivesUp
<1>3. put'[p].pc = "done" /\ \A q \in Put : put'[q] = put[q] \/ put'[q].pc = "done"
  BY <1>2, EndsAlone
<1>4. \A w \in Upload : staging'[w] = staging[w] \/
                        (staging'[w] = None /\ db'.upload[w].state # "pending")
  BY <1>1, <1>2, DiscardedFile
<1>5. Lessens
  BY <1>1, <1>2, <1>3, <1>4, SessionsLessen
<1>6. QED
  BY <1>3, <1>5 DEF Writing

(* A crash ends every stream.                                              *)
LEMMA DiesLessens ==
  ASSUME DriveInv, Dies, content' = content, shared' = shared,
         \A u \in Upload : staging'[u] \in {staging[u], None}
  PROVE  Lessens /\ \A p \in Put : ~Writing(p)'
<1> DEFINE r == [Idle EXCEPT !.pc = "done"]
<1>1. r.pc = "done" /\ Idle.pc = "idle"
  BY DEF Idle
<1>2. put' = [p \in Put |-> IF put[p].pc = "idle" THEN Idle ELSE r]
  BY DEF Dies
<1> HIDE DEF r
<1>3. \A p \in Put : put'[p].pc \in {"idle", "done"} /\ (put'[p].pc = "idle" => put[p].pc = "idle")
  BY <1>1, <1>2
<1>4. \A p \in Put : ~Writing(p)' /\ put'[p].pc # "sent"
  BY <1>3 DEF Writing
<1>5. QED
  BY <1>3, <1>4 DEF Lessens

(* Nothing writes while the service is down, and a boot writes no file.    *)
LEMMA DownLessens ==
  ASSUME DriveInv, status # "up", UNCHANGED <<put, content, shared, staging>>
  PROVE  Lessens
<1>1. \A p \in Put : ~Writing(p) /\ ~Writing(p)'
  BY DEF DriveInv, PutOK, Writing
<1>2. QED
  BY <1>1 DEF Lessens

(* The steps of a PUT that end it without a new blob.                      *)
LEMMA PutEndsBytes ==
  ASSUME BytesInv, NEW p \in Put,
         PutFail(p) \/ PutReplayed(p) \/ PutRefused(p) \/ PutBlocked(p) \/ PutUnwritten(p)
  PROVE  BytesOK'
<1>1. cas' = cas
  BY DEF PutFail, PutReplayed, PutRefused, PutBlocked, PutUnwritten, fileVars
<1>2. CASE PutFail(p)
  <2>1. Writing(p) /\ GivesUp(p, db, put[p].charged)
    BY <1>2 DEF PutFail
  <2>2. put[p].charged \in 0..1 /\ IndexOK(db) /\ Aside(db, db) /\ Going(db, db)
    BY <2>1, SameGoes DEF BytesInv, DriveInv, PutOK
  <2>3. Lessens
    BY <2>1, <2>2, GivesUpLessens DEF BytesInv
  <2>4. QED
    BY <1>1, <2>3, Lessened
<1>3. CASE PutReplayed(p)
  <2>1. /\ Finishing(p) /\ db' = Charge(p) /\ Ends(p)
        /\ UNCHANGED <<staging, content, shared>>
    BY <1>3 DEF PutReplayed, fileVars, historyVars
  <2>2. Going(db, db')
    BY <2>1, FinishingOK DEF BytesInv
  <2>3. Lessens
    BY <2>1, <2>2, EndsAlone, SessionsLessen DEF BytesInv
  <2>4. QED
    BY <1>1, <2>3, Lessened
<1>4. CASE PutRefused(p) \/ PutBlocked(p) \/ PutUnwritten(p)
  <2>1. Finishing(p) /\ GivesUp(p, Charge(p), 1) /\ 1 \in 0..1
    BY <1>4 DEF PutRefused, PutBlocked, PutUnwritten
  <2>2. Lessens
    BY <2>1, FinishingOK, GivesUpLessens DEF BytesInv
  <2>3. QED
    BY <1>1, <2>2, Lessened
<1>5. QED
  BY <1>2, <1>3, <1>4

(* A commit gives its hash a file with its bytes.                          *)
LEMMA PutCommittedBytes ==
  ASSUME BytesInv, NEW p \in Put, PutCommitted(p)
  PROVE  BytesOK'
<1> DEFINE u == put[p].upload
           c == Charge(p)
<1>1. /\ Finishing(p) /\ StateOf(p) = "pending" /\ db' = Committed(c, u, VersionOf(p))
      /\ cas' = Materialized(p) /\ staging' = [staging EXCEPT ![u] = None] /\ Ends(p)
      /\ content' = content /\ shared' = shared
  BY DEF PutCommitted, Commits
<1>2. /\ u \in Upload /\ db.upload[u].state # "none"
      /\ c \in Index /\ Going(db, c)
  BY <1>1, FinishingOK DEF BytesInv, IndexOK
<1>3. c.upload[u].state # "none"
  BY <1>2 DEF Going, GoesOn
<1> HIDE DEF c, u
<1>4. Going(db, db')
  BY <1>1, <1>2, <1>3, GoingSession, GoingTwice
<1>5. db'.upload[u].state # "pending"
  BY <1>1, <1>2 DEF Committed, Index, UploadRow
<1>6. put'[p].pc = "done" /\ \A q \in Put : put'[q] = put[q] \/ put'[q].pc = "done"
  BY <1>1, EndsAlone DEF BytesInv
<1>7. \A w \in Upload : staging'[w] = staging[w] \/
                        (staging'[w] = None /\ db'.upload[w].state # "pending")
  BY <1>1, <1>5 DEF BytesInv, DriveInv, FilesOK
<1>8. Lessens /\ ~Writing(p)'
  BY <1>1, <1>4, <1>6, <1>7, SessionsLessen DEF BytesInv, Writing
<1>9. QED
  BY <1>1, <1>8, Published DEF u

(* A commit that fails leaves a blob, or none.                             *)
LEMMA PutIoErrorBytes ==
  ASSUME BytesInv, NEW p \in Put, NEW renamed \in BOOLEAN, NEW said \in BOOLEAN,
         PutIoError(p, renamed, said)
  PROVE  BytesOK'
<1> DEFINE u == put[p].upload
<1>1. /\ Finishing(p) /\ StateOf(p) = "pending" /\ GivesUp(p, Charge(p), 1)
      /\ cas' = Materialized(p) \/ cas' = cas
  BY DEF PutIoError, Commits
<1>2. 1 \in 0..1 /\ Writing(p)
  BY <1>1, FinishingOK DEF BytesInv
<1>3. Lessens /\ ~Writing(p)'
  BY <1>1, <1>2, FinishingOK, GivesUpLessens DEF BytesInv
<1>4. staging' = [staging EXCEPT ![u] = None]
  <2>1. /\ IndexOK(db) /\ MayCharge(p) /\ put[p].charged \in 0..1
        /\ u \in Upload /\ db.upload[u].state # "none"
    BY <1>1, <1>2, FinishingOK DEF BytesInv, DriveInv, PutOK, Finishing
  <2>2. Charge(p).upload[u].state = "pending"
    BY <1>1, <2>1, ChargeOK DEF StateOf
  <2>3. QED
    BY <1>1, <2>2 DEF GivesUp, Discarded
<1>5. CASE cas' = Materialized(p)
  BY <1>1, <1>3, <1>4, <1>5, Published
<1>6. CASE cas' = cas
  BY <1>3, <1>6, Lessened
<1>7. QED
  BY <1>1, <1>5, <1>6

(* A crash in a commit, or in its line, does too.                          *)
LEMMA CrashesBytes ==
  ASSUME BytesInv, NEW p \in Put,
         CrashInAppend(p) \/ \E renamed \in BOOLEAN : CrashInCommit(p, renamed)
  PROVE  BytesOK'
<1>1. /\ Dies /\ content' = content /\ shared' = shared
      /\ Finishing(p) /\ StateOf(p) = "pending"
      /\ \/ cas' = cas /\ staging' = staging
         \/ cas' = Materialized(p) /\ staging' = [staging EXCEPT ![put[p].upload] = None]
  BY DEF CrashInAppend, CrashInCommit, Commits, fileVars, historyVars
<1>2. Lessens /\ \A q \in Put : ~Writing(q)'
  BY <1>1, DiesLessens DEF BytesInv, DriveInv, FilesOK
<1>3. QED
  BY <1>1, <1>2, Lessened, Published

(* The calls that write no file.                                           *)
LEMMA CallsBytes ==
  ASSUME BytesInv,
         \/ \E u \in Upload, n \in Name, a \in Artifact, t \in Tokens : Register(u, n, a, t)
         \/ \E u \in Upload : AbortUpload(u) \/ Elapse(u)
         \/ Sweep
  PROVE  BytesOK'
<1>1. UNCHANGED <<cas, content, shared, put>>
  BY DEF Register, AbortUpload, Elapse, Sweep, fileVars, historyVars
<1>2. ASSUME NEW u \in Upload, NEW n \in Name, NEW a \in Artifact, NEW t \in Tokens,
             Register(u, n, a, t)
      PROVE  Lessens
  <2>1. staging' = staging
    BY <1>2 DEF Register, fileVars
  <2>2. Going(db, db')
    <3>1. \A w \in Upload : db.upload[w].state # "none" => db'.upload[w] = db.upload[w]
      BY <1>2, RegisterOK DEF BytesInv, DriveInv
    <3>2. QED
      BY <3>1 DEF Going, GoesOn
  <2>3. QED
    BY <1>1, <2>1, <2>2, SessionsLessen DEF BytesInv
<1>3. ASSUME NEW u \in Upload, AbortUpload(u) PROVE Lessens
  <2>1. db.upload[u].state # "none" /\ db' = Aborted(db, u) /\ staging' = Discarded(db, u)
    BY <1>3 DEF AbortUpload
  <2>2. Going(db, db') /\ db'.upload[u].state # "pending"
    BY <2>1, GoingSession, AbortEnds DEF BytesInv, DriveInv, IndexOK
  <2>3. \A w \in Upload : staging'[w] = staging[w] \/
                          (staging'[w] = None /\ db'.upload[w].state # "pending")
    BY <2>1, <2>2, DiscardedFile DEF BytesInv
  <2>4. QED
    BY <1>1, <2>2, <2>3, SessionsLessen DEF BytesInv
<1>4. ASSUME NEW u \in Upload, Elapse(u) PROVE Lessens
  <2>1. staging' = staging
    BY <1>4 DEF Elapse, fileVars
  <2>2. Going(db, db')
    BY <1>4, ElapseOK DEF BytesInv, DriveInv, Going, GoesOn
  <2>3. QED
    BY <1>1, <2>1, <2>2, SessionsLessen DEF BytesInv
<1>5. ASSUME Sweep PROVE Lessens
  <2> DEFINE gone == {u \in Upload : db.upload[u].state \in {"aborted", "expired"}}
                       \cup Expirable
  <2>1. \A w \in Upload :
          /\ db.upload[w].state # "none" => db'.upload[w].state # "none"
          /\ db'.upload[w].art = db.upload[w].art
          /\ db'.upload[w].state = "pending" => db.upload[w].state = "pending"
    BY <1>5, SweepOK DEF BytesInv, DriveInv
  <2>2. Going(db, db')
    BY <2>1 DEF Going, GoesOn
  <2>3. staging' = [u \in Upload |-> IF u \in gone THEN None ELSE staging[u]]
    BY <1>5 DEF Sweep
  <2>4. \A w \in Upload : w \in gone => db'.upload[w].state # "pending"
    BY <1>5, <2>1, SweptExpire DEF BytesInv
  <2> HIDE DEF gone
  <2>5. \A w \in Upload : staging'[w] = staging[w] \/
                          (staging'[w] = None /\ db'.upload[w].state # "pending")
    BY <2>3, <2>4
  <2>6. QED
    BY <1>1, <2>2, <2>5, SessionsLessen DEF BytesInv
<1>6. Lessens
  BY <1>2, <1>3, <1>4, <1>5
<1>7. QED
  BY <1>1, <1>6, Lessened

(* A collection takes files of hashes away.                                *)
LEMMA CollectsBytes ==
  ASSUME BytesInv, NEW C \in SUBSET Artifact, NEW L \in SUBSET Sha, NEW F,
         NEW B \in SUBSET Unreferenced(ChainsPurged(db, C)), Collects(C, L, B, F),
         put' = put \/ Dies
  PROVE  BytesOK'
<1>1. /\ Going(db, db') /\ UNCHANGED <<staging, content, shared>>
  BY CollectsOK DEF BytesInv, Onward, Collects
<1>2. \A s \in Sha : cas'[s] \in {cas[s], None}
  BY DEF Collects
<1>3. CASE put' = put
  BY <1>1, <1>2, <1>3, SessionsLessen, Lessened DEF BytesInv
<1>4. CASE Dies
  BY <1>1, <1>2, <1>4, DiesLessens, Lessened DEF BytesInv
<1>5. QED
  BY <1>3, <1>4

(* An operator's calls move no file, a collection removes some.            *)
LEMMA OperatesBytes ==
  ASSUME BytesInv, Operates
  PROVE  BytesOK'
<1>1. ASSUME NEW a \in Artifact, DeleteMarker(a) PROVE BytesOK'
  <2>1. UNCHANGED <<staging, cas, content, put, shared>> /\ db'.upload = db.upload
    BY <1>1 DEF DeleteMarker, fileVars, historyVars, BytesInv, DriveInv, IndexOK, Index
  <2>2. QED
    BY <2>1, SessionsLessen, Lessened DEF BytesInv, Going, GoesOn
<1>2. ASSUME NEW v \in db.versions, Restore(v) PROVE BytesOK'
  <2>1. UNCHANGED <<staging, cas, content, put, shared>> /\ db'.upload = db.upload
    BY <1>2 DEF Restore, fileVars, historyVars, BytesInv, DriveInv, IndexOK, Index
  <2>2. QED
    BY <2>1, SessionsLessen, Lessened DEF BytesInv, Going, GoesOn
<1>3. ASSUME NEW line, CrashInPointer(line) PROVE BytesOK'
  <2>1. Dies /\ UNCHANGED <<staging, cas, content, shared>>
    BY <1>3 DEF CrashInPointer, fileVars, historyVars
  <2>2. QED
    BY <2>1, DiesLessens, Lessened DEF BytesInv
<1>4. CASE GcPhase2
  <2> DEFINE C == Chains(db)
             B == Unreferenced(ChainsPurged(db, C))
  <2>1. C \in SUBSET Artifact /\ B \in SUBSET Sha
    BY DEF Chains, Unreferenced
  <2>2. Collects(C, B, B, B) /\ put' = put
    BY <1>4 DEF GcPhase2
  <2> HIDE DEF C
  <2>3. QED
    BY <2>1, <2>2, CollectsBytes
<1>5. ASSUME NEW C \in SUBSET Artifact, NEW L \in SUBSET Sha, NEW B \in SUBSET Sha,
             NEW F \in SUBSET Sha, CrashInGc(C, L, B, F)
      PROVE  BytesOK'
  <2>1. Dies /\ Collects(C, L, B, F) /\ B \in SUBSET Unreferenced(ChainsPurged(db, C))
    BY <1>5 DEF CrashInGc
  <2>2. QED
    BY <2>1, CollectsBytes
<1>6. QED
  BY <1>1, <1>2, <1>3, <1>4, <1>5 DEF Operates

(* Every step keeps the bytes behind their names.                          *)
LEMMA BytesSteps == BytesInv /\ [Next]_vars => BytesInv'
<1> SUFFICES ASSUME BytesInv, [Next]_vars PROVE BytesOK'
  BY DriveSteps DEF BytesInv
<1>1. CASE UNCHANGED vars
  BY <1>1 DEF vars, fileVars, historyVars, BytesInv, BytesOK, FilesApart, FilesOwned,
              FilesNew, BlobsOK, Writing
<1>2. ASSUME NEW p \in Put, Streams(p) PROVE BytesOK'
  BY <1>2, PutOpenBytes, PutBytesBytes, PutEndsBytes, PutCommittedBytes, PutIoErrorBytes,
     CrashesBytes DEF Streams
<1>3. CASE CrashIdle
  <2>1. Dies /\ UNCHANGED <<staging, cas, content, shared>>
    BY <1>3 DEF CrashIdle, fileVars, historyVars
  <2>2. QED
    BY <2>1, DiesLessens, Lessened DEF BytesInv
<1>4. CASE LoseIndex \/ Boot
  <2>1. status # "up" /\ UNCHANGED <<put, content, shared, staging, cas>>
    BY <1>4 DEF LoseIndex, Boot, fileVars, historyVars
  <2>2. QED
    BY <2>1, DownLessens, Lessened DEF BytesInv
<1>5. QED
  BY <1>1, <1>2, <1>3, <1>4, CallsBytes, OperatesBytes DEF Next

(* At every moment: the file of a hash holds the bytes of that hash, or    *)
(* two streams had it open at once; a stream writes nobody else's file but *)
(* one of those.                                                           *)
THEOREM BytesInvariant == Spec => []BytesInv
BY BytesStart, BytesSteps, PTL DEF Spec

-----------------------------------------------------------------------------
(* The theorems, on what survives.                                         *)

(* No failed commit is without its aborted line when the index is lost,    *)
(* and nothing is purged or the index has not been lost before: the losses *)
(* the next theorems speak of.                                             *)
LossesFindItIntact == [][LoseIndex => Intact]_vars

(* At every moment: every committed version that was not called off is in  *)
(* the index, was purged with its artifact, or waits for a boot that will  *)
(* take it in, as long as no failed commit left its line alone; and the    *)
(* answers are in the index, or in a journal and files that give it back.  *)
THEOREM SurvivalInvariant == Spec /\ LossesFindItIntact => [](DriveInv /\ SurvivalInv)
<1>1. DriveInv /\ SurvivalInv /\ [Next]_vars /\ [LoseIndex => Intact]_vars => SurvivalInv'
  <2>1. CASE UNCHANGED vars
    BY <2>1, SurvivalStutters
  <2>2. QED
    BY <2>1, SurvivalSteps
<1>2. QED
  BY <1>1, SurvivalStarts, DriveInvariant, PTL DEF Spec, LossesFindItIntact

(* What was answered with 201 is in the index, and the blob it names holds *)
(* its bytes or was written by two streams at once, whenever the service   *)
(* runs: for any number of crashes, torn appends, failed commits and       *)
(* purges, and any losses of the index but one behind a line that was not  *)
(* called off, and one after a purge and an earlier loss.                  *)
THEOREM AcknowledgedAreKept == Spec /\ LossesFindItIntact => []AcknowledgedSurvives
<1>1. SurvivalInv /\ BytesInv => AcknowledgedSurvives
  <2> SUFFICES ASSUME SurvivalInv, BytesInv, status = "up", NEW v \in acked, v.id \notin purged
               PROVE  /\ v \in db.versions /\ cas[v.sha] # None
                      /\ cas[v.sha] \in shared \/ content[cas[v.sha]] = v.sha
    BY DEF AcknowledgedSurvives
  <2>1. v \in db.versions /\ cas[v.sha] # None
    BY DEF SurvivalInv, Stored, Restorable
  <2>2. v.sha \in Sha
    BY DEF BytesInv, DriveInv, AnsweredOK, VersionSet
  <2>3. QED
    BY <2>1, <2>2 DEF BytesInv, BytesOK, BlobsOK
<1>2. QED
  BY <1>1, SurvivalInvariant, BytesInvariant, PTL

(* No operation is answered with two versions that were not purged, in the *)
(* same behaviours.                                                        *)
THEOREM OperationsAnswerOnce == Spec /\ LossesFindItIntact => []OneVersionPerOperation
<1>1. Spec /\ LossesFindItIntact => [](DriveInv /\ SurvivalInv)
  BY SurvivalInvariant
<1>2. OneAnswer => OneVersionPerOperation
  BY DEF OneAnswer, OneVersionPerOperation
<1>3. QED
  BY <1>1, <1>2, OneVersionStarts, OneVersionSteps, PTL DEF Spec

(* Every commit that failed was called off when the index is lost.         *)
CalledOffBefore == [][LoseIndex => unlogged = {}]_vars

(* With at most one loss of the index, and none behind a line that was not *)
(* called off, nothing answered is lost and no operation is answered       *)
(* twice; the instance of the run has one loss.                            *)
THEOREM OneLossIsSurvived ==
  ASSUME Bound["loss"] <= 1
  PROVE  Spec /\ CalledOffBefore => [](AcknowledgedSurvives /\ OneVersionPerOperation)
<1>1. /\ DriveInv /\ SurvivalInv /\ [Next]_vars /\ [LoseIndex => unlogged = {}]_vars
           => SurvivalInv'
      /\ SurvivalInv /\ [LoseIndex => unlogged = {}]_vars => [LoseIndex => Intact]_vars
  <2>1. CASE UNCHANGED vars
    BY <2>1, SurvivalStutters
  <2>2. QED
    BY <2>1, SurvivalSteps, FirstLoss
<1>2. Spec /\ CalledOffBefore => LossesFindItIntact
  BY <1>1, SurvivalStarts, DriveInvariant, PTL DEF Spec, LossesFindItIntact, CalledOffBefore
<1>3. QED
  BY <1>2, AcknowledgedAreKept, OperationsAnswerOnce, PTL

-----------------------------------------------------------------------------
(* What a journal without faults says of the index.                        *)

(* The lines that move an artifact's pointer, and where to.                *)
Moves(line, a) == line.type \in {"delete", "move"} /\ line.art = a
Concerns(line, a) == Moves(line, a) \/ (line.type = "committed" /\ line.v.art = a)
Says(line) ==
  CASE line.type = "committed" -> line.v.id [] line.type = "move" -> line.id [] OTHER -> None

(* After n lines the pointer of a is where the last one moved it that      *)
(* concerns a.                                                             *)
Shows(j, n, a, x) ==
  \/ x = None /\ \A i \in 1..n : ~Concerns(j[i], a)
  \/ \E i \in 1..n : /\ Concerns(j[i], a) /\ x = Says(j[i])
                     /\ \A k \in (i + 1)..n : ~Concerns(j[k], a)

(* No line is cut, no commit called off; an artifact's numbers rise, it    *)
(* has one name, which no other has, and is restored to what it committed. *)
WellWritten(j) ==
  /\ \A i \in DOMAIN j : j[i].type \in {"committed", "aborted", "delete", "move"}
  /\ \A c \in CommitsOf(j) : ~Called(j, c[2].id)
  /\ \A c, e \in CommitsOf(j) :
       /\ c[1] < e[1] /\ c[2].art = e[2].art => c[2].seq < e[2].seq
       /\ j[c[1]].name = j[e[1]].name <=> c[2].art = e[2].art
  /\ \A i \in DOMAIN j : j[i].type = "move" =>
       \E c \in CommitsOf(j) : c[1] < i /\ c[2].id = j[i].id /\ c[2].art = j[i].art

(* What is in the index comes from the journal.                            *)
Drawn(d, j) ==
  /\ \A w \in Kept(d) : \E c \in CommitsOf(j) : c[2] = w
  /\ \A s \in Sha : d.refs[s] # -1 => \E c \in CommitsOf(j) : c[2].sha = s
  /\ d.fence = -1 \/ \E c \in CommitsOf(j) : c[2].token # None /\ d.fence = c[2].token
  /\ \A a \in Artifact : d.row[a] = None => d.current[a] = None
  /\ \A a, b \in Artifact : d.row[a] # None /\ d.row[a] = d.row[b] => a = b
  /\ \A a \in Artifact, c \in CommitsOf(j) :
       d.row[a] # None => (d.row[a] = j[c[1]].name <=> a = c[2].art)

(* What the first m lines say is in the index, and its pointers are where  *)
(* they left them.                                                         *)
Has(d, v) ==
  v \in d.versions /\ d.row[v.art] # None /\ (v.token # None => d.fence >= v.token)
Read(d, j, m) ==
  /\ \A c \in CommitsOf(j) : c[1] <= m => Has(d, c[2])
  /\ \A a \in Artifact : Shows(j, m, a, d.current[a])

(* A registered upload has the name of its artifact.                       *)
Titled(d) ==
  \A u \in Upload : d.upload[u].state # "none" => d.row[d.upload[u].art] = d.upload[u].name

(* The index has read the journal: all of it while the service runs, all   *)
(* but the line of a crash or nothing at all while it is down.             *)
Canon ==
  /\ purged = {} /\ WellWritten(journal) /\ Drawn(db, journal) /\ Titled(db)
  /\ \E m \in 0..Len(journal) :
       Read(db, journal, m) /\ (status = "up" => m = Len(journal))
CanonInv == Untouched => unlogged = {} /\ SurvivalInv /\ Canon

-----------------------------------------------------------------------------
(* Pointers.                                                               *)

(* A pointer is shown in one place.                                        *)
LEMMA ShowsOne ==
  ASSUME NEW j, NEW n \in Nat, NEW a, NEW x, NEW y, Shows(j, n, a, x), Shows(j, n, a, y)
  PROVE  x = y
<1>1. CASE \A i \in 1..n : ~Concerns(j[i], a)
  BY <1>1 DEF Shows
<1>2. CASE \E i \in 1..n : Concerns(j[i], a)
  <2>1. PICK i \in 1..n : /\ Concerns(j[i], a) /\ x = Says(j[i])
                          /\ \A k \in (i + 1)..n : ~Concerns(j[k], a)
    BY <1>2 DEF Shows
  <2>2. PICK l \in 1..n : /\ Concerns(j[l], a) /\ y = Says(j[l])
                          /\ \A k \in (l + 1)..n : ~Concerns(j[k], a)
    BY <1>2 DEF Shows
  <2>3. ~(l > i) /\ ~(i > l)
    BY <2>1, <2>2
  <2>4. i = l
    BY <2>3
  <2>5. QED
    BY <2>1, <2>2, <2>4
<1>3. QED
  BY <1>1, <1>2

(* A line that does not concern it leaves it where it is.                  *)
LEMMA ShowsNext ==
  ASSUME NEW j, NEW n \in Nat, NEW a, NEW x, Shows(j, n, a, x), ~Concerns(j[n + 1], a)
  PROVE  Shows(j, n + 1, a, x)
<1>1. \A i \in 1..(n + 1) : i \in 1..n \/ i = n + 1
  OBVIOUS
<1>2. CASE x = None /\ \A i \in 1..n : ~Concerns(j[i], a)
  BY <1>1, <1>2 DEF Shows
<1>3. CASE \E i \in 1..n : /\ Concerns(j[i], a) /\ x = Says(j[i])
                           /\ \A k \in (i + 1)..n : ~Concerns(j[k], a)
  <2>1. PICK i \in 1..n : /\ Concerns(j[i], a) /\ x = Says(j[i])
                          /\ \A k \in (i + 1)..n : ~Concerns(j[k], a)
    BY <1>3
  <2>2. i \in 1..(n + 1) /\ \A k \in (i + 1)..(n + 1) : k \in (i + 1)..n \/ k = n + 1
    OBVIOUS
  <2>3. \A k \in (i + 1)..(n + 1) : ~Concerns(j[k], a)
    BY <2>1, <2>2
  <2>4. QED
    BY <2>1, <2>2, <2>3 DEF Shows
<1>4. QED
  BY <1>2, <1>3 DEF Shows

(* One that does moves it.                                                 *)
LEMMA ShowsLast ==
  ASSUME NEW j, NEW n \in Nat, NEW a, Concerns(j[n + 1], a)
  PROVE  Shows(j, n + 1, a, Says(j[n + 1]))
<1>1. n + 1 \in 1..(n + 1) /\ \A k \in ((n + 1) + 1)..(n + 1) : FALSE
  OBVIOUS
<1>2. QED
  BY <1>1 DEF Shows

(* The same lines show the same.                                           *)
LEMMA ShowsSame ==
  ASSUME NEW j, NEW k, NEW n \in Nat, \A i \in 1..n : k[i] = j[i], NEW a, NEW x, Shows(j, n, a, x)
  PROVE  Shows(k, n, a, x)
<1>1. CASE x = None /\ \A i \in 1..n : ~Concerns(j[i], a)
  BY <1>1 DEF Shows
<1>2. CASE \E i \in 1..n : /\ Concerns(j[i], a) /\ x = Says(j[i])
                           /\ \A l \in (i + 1)..n : ~Concerns(j[l], a)
  <2>1. PICK i \in 1..n : /\ Concerns(j[i], a) /\ x = Says(j[i])
                          /\ \A l \in (i + 1)..n : ~Concerns(j[l], a)
    BY <1>2
  <2>2. \A l \in (i + 1)..n : l \in 1..n
    OBVIOUS
  <2>3. QED
    BY <2>1, <2>2 DEF Shows
<1>3. QED
  BY <1>1, <1>2 DEF Shows

(* The number of a pointer that leads nowhere, and of one that leads to a  *)
(* version.                                                                *)
LEMMA NoCurrentSeq ==
  ASSUME NEW d, NEW a, \A w \in d.versions : w.id # d.current[a]
  PROVE  CurrentSeq(d, a) = -1
<1>1. CurrentSeq(d, a) = Max({-1})
  <2>1. {-1} \cup {v.seq : v \in {w \in d.versions : w.id = d.current[a]}} = {-1}
    OBVIOUS
  <2>2. QED
    BY <2>1 DEF CurrentSeq
<1>2. Max({-1, -1}) \in {-1, -1}
  BY MaxOfTwo
<1>3. {-1, -1} = {-1}
  OBVIOUS
<1>4. QED
  BY <1>1, <1>2, <1>3

(* Where a version with the pointer's id is there, it is that one's number. *)
LEMMA CurrentSeqOf ==
  ASSUME NEW d, NEW a, NEW w \in d.versions, w.id = d.current[a], w.seq \in Nat,
         \A x \in d.versions : x.id = w.id => x = w
  PROVE  CurrentSeq(d, a) = w.seq
<1>1. {-1} \cup {v.seq : v \in {x \in d.versions : x.id = d.current[a]}} = {-1, w.seq}
  OBVIOUS
<1>2. CurrentSeq(d, a) = Max({-1, w.seq})
  BY <1>1 DEF CurrentSeq
<1>3. w.seq \in Int /\ -1 \in Int
  OBVIOUS
<1>4. Max({-1, w.seq}) \in {-1, w.seq} /\ Max({-1, w.seq}) >= w.seq
  BY <1>3, MaxOfTwo
<1>5. QED
  BY <1>2, <1>4

(* What a replayed commit does to rows, refcounts and pointers.            *)
Tables(d, line, v, n, i, e) ==
  /\ WithRows(d, line).row = e.row
  /\ (\E b \in Artifact : d.row[b] = n) => e.row[v.art] = d.row[v.art]
  /\ (\A b \in Artifact : d.row[b] # n) => e.row[v.art] = n
  /\ \A s \in Sha : e.refs[s] # -1 => s = v.sha \/ d.refs[s] # -1
  /\ \A a \in Artifact : a # v.art => e.row[a] = d.row[a] /\ e.current[a] = d.current[a]
  /\ e.row[v.art] # None =>
       e.current[v.art] = IF v.seq > CurrentSeq(i, v.art) THEN v.id ELSE d.current[v.art]
  /\ i.current = d.current
  /\ i.versions = IF Conflicts(d, v) THEN d.versions ELSE d.versions \cup {v}

(* Committed, a line changes them so.                                      *)
LEMMA AppliedTables ==
  ASSUME NEW d, IndexOK(d), Named(d), NEW v \in VersionSet, NEW n \in Name,
         NEW line, line = CommittedLine(v, n),
         NEW i, i = Inserted(WithRows(d, line), v), NEW e, e = ApplyCommitted(d, line)
  PROVE  Tables(d, line, v, n, i, e)
<1> DEFINE w == WithRows(d, line)
           A == [d.row EXCEPT ![v.art] = IF \E b \in Artifact : d.row[b] = n THEN @ ELSE n]
           R == [d.refs EXCEPT ![v.sha] = IF @ = -1 THEN 0 ELSE @]
           C == [i.current EXCEPT ![v.art] =
                   IF i.row[v.art] # None /\ v.seq > CurrentSeq(i, v.art) THEN v.id ELSE @]
           F == Raised(d, v.token)
<1>1. line.v = v /\ line.name = n /\ i = Inserted(w, v)
  BY DEF CommittedLine
<1>2. w = [d EXCEPT !.row = A, !.refs = R]
  BY <1>1 DEF WithRows, IndexOK, Index
<1>3. /\ IndexOK(w) /\ Named(w) /\ w.versions = d.versions /\ w.refs[v.sha] # -1
  BY WithRowsOK
<1>4. w.row = A /\ w.refs = R /\ w.current = d.current
  <2> HIDE DEF A, R, w
  <2>1. QED
    BY <1>2 DEF IndexOK, Index
<1>5. Conflicts(w, v) = Conflicts(d, v)
  BY <1>3 DEF Conflicts
<1>6. i.versions = IF Conflicts(d, v) THEN d.versions ELSE d.versions \cup {v}
  <2> HIDE DEF w
  <2>1. QED
    BY <1>1, <1>3, <1>5, InsertedOK
<1>7. i.row = w.row /\ i.refs = w.refs /\ i.current = w.current /\ i \in Index
  <2> HIDE DEF w
  <2>1. i \in Index
    <3>1. IndexOK(Inserted(w, v))
      BY <1>3, InsertedOK
    <3>2. QED
      BY <1>1, <3>1 DEF IndexOK
  <2>2. i.row = w.row /\ i.refs = w.refs /\ i.current = w.current
    BY <1>1, <1>3 DEF Inserted, IndexOK, Index
  <2>3. QED
    BY <2>1, <2>2
<1>8. e = [i EXCEPT !.current = C, !.fence = F]
  <2>1. e = [i EXCEPT !.current[v.art] =
                        IF i.row[v.art] # None /\ v.seq > CurrentSeq(i, v.art) THEN v.id ELSE @,
                      !.fence = F]
    BY <1>1 DEF ApplyCommitted
  <2> HIDE DEF F
  <2>2. QED
    BY <1>7, <2>1 DEF Index
<1>9. e.row = i.row /\ e.refs = i.refs /\ e.current = C
  <2> HIDE DEF C, F
  <2>1. QED
    BY <1>7, <1>8 DEF Index
<1>10. /\ d.row \in [Artifact -> Name \cup {None}] /\ d.refs \in [Sha -> Nat \cup {-1}]
       /\ d.current \in [Artifact -> VersionId \cup {None}] /\ v.art \in Artifact
  BY DEF IndexOK, Index, VersionSet
<1>11. e.row = A /\ e.refs = R /\ WithRows(d, line).row = e.row
  BY <1>4, <1>7, <1>9
<1>12. i.current = d.current /\ i.row = e.row
  BY <1>4, <1>7, <1>9
<1>13. /\ (\E b \in Artifact : d.row[b] = n) => A[v.art] = d.row[v.art]
       /\ (\A b \in Artifact : d.row[b] # n) => A[v.art] = n
       /\ \A s \in Sha : R[s] # -1 => s = v.sha \/ d.refs[s] # -1
       /\ \A a \in Artifact : a # v.art => A[a] = d.row[a]
  BY <1>10
<1>14. /\ \A a \in Artifact : a # v.art => e.current[a] = d.current[a]
       /\ e.row[v.art] # None =>
            e.current[v.art] = IF v.seq > CurrentSeq(i, v.art) THEN v.id ELSE d.current[v.art]
  <2> HIDE DEF w, A, R, F
  <2>1. QED
    BY <1>9, <1>10, <1>12
<1>15. QED
  <2> HIDE DEF w, A, R, C, F
  <2>1. QED
    BY <1>6, <1>11, <1>12, <1>13, <1>14 DEF Tables

-----------------------------------------------------------------------------
(* A journal without faults, replayed line by line into an index that has  *)
(* read its first m lines.                                                 *)

(* A line from place lo on, up to hi, deletes or restores a.               *)
Pointed(a, lo, hi) == \E i \in lo..hi : Moves(journal[i], a)

(* Where a pointer is after n lines: where they leave it; or, when they    *)
(* only commit, where all m left it, or a line to come will move it.       *)
Tracks(d, m, n, a) ==
  \/ Shows(journal, n, a, d.current[a]) /\ (n >= m \/ Pointed(a, 1, n))
  \/ /\ n < m /\ ~Pointed(a, 1, n)
     /\ Shows(journal, m, a, d.current[a]) \/ Pointed(a, n + 1, m)
Holding(d, m, n) ==
  /\ IndexOK(d) /\ Named(d) /\ Drawn(d, journal) /\ Takes(d)
  /\ \A c \in CommitsOf(journal) : c[1] <= m \/ c[1] <= n => Has(d, c[2])

(* A row that is there stays as it is.                                     *)
KeepsRows(d, e) == \A a \in Artifact : d.row[a] # None => e.row[a] = d.row[a]

(* The fence is the one there was, or the token.                           *)
LEMMA RaisedIs ==
  ASSUME NEW d, d.fence \in Nat \cup {-1}, NEW t \in Tokens \cup {None}
  PROVE  Raised(d, t) = d.fence \/ (t # None /\ Raised(d, t) = t)
<1>1. CASE t = None
  BY <1>1 DEF Raised
<1>2. CASE t # None
  <2>1. t \in Int /\ d.fence \in Int
    BY <1>2, DriveAssumption
  <2>2. Raised(d, t) = Max({d.fence, t})
    BY <1>2 DEF Raised
  <2>3. QED
    BY <1>2, <2>1, <2>2, MaxOfTwo
<1>3. QED
  BY <1>1, <1>2

(* An index that gives more of the same has what the other has.            *)
LEMMA HasMore ==
  ASSUME NEW d, NEW e, d \in Index, e \in Index, d.versions \subseteq e.versions,
         \A a \in Artifact : d.row[a] # None => e.row[a] # None, e.fence >= d.fence,
         NEW v \in VersionSet, Has(d, v)
  PROVE  Has(e, v)
<1>1. v.art \in Artifact /\ v.token \in Tokens
  BY DEF VersionSet
<1>2. d.fence \in Int /\ e.fence \in Int /\ (v.token # None => v.token \in Int)
  BY <1>1, TokenIsNumber DEF Index
<1>3. v.token # None => e.fence >= v.token
  BY <1>2 DEF Has
<1>4. QED
  BY <1>1, <1>3 DEF Has

(* The row a replayed commit finds or makes is the one of its line.        *)
LEMMA RowOfLine ==
  ASSUME NEW d, IndexOK(d), WellWritten(journal), Drawn(d, journal),
         NEW c \in CommitsOf(journal), NEW n \in Name, journal[c[1]].name = n,
         NEW e, (\E b \in Artifact : d.row[b] = n) => e.row[c[2].art] = d.row[c[2].art],
         (\A b \in Artifact : d.row[b] # n) => e.row[c[2].art] = n,
         \A a \in Artifact : a # c[2].art => e.row[a] = d.row[a]
  PROVE  /\ e.row[c[2].art] = n
         /\ \A a, b \in Artifact : e.row[a] # None /\ e.row[a] = e.row[b] => a = b
         /\ \A a \in Artifact, x \in CommitsOf(journal) :
              e.row[a] # None => (e.row[a] = journal[x[1]].name <=> a = x[2].art)
<1> DEFINE o == c[2].art
<1>1. o \in Artifact /\ n # None
  BY DriveAssumption DEF CommitsOf, VersionSet
<1>2. \A b \in Artifact : d.row[b] = n => b = o
  BY <1>1 DEF Drawn
<1>3. e.row[o] = n /\ \A a \in Artifact : a # o => e.row[a] = d.row[a]
  BY <1>1, <1>2
<1>4. ASSUME NEW a \in Artifact, NEW b \in Artifact, e.row[a] # None, e.row[a] = e.row[b]
      PROVE  a = b
  <2>1. CASE a = o \/ b = o
    BY <1>2, <1>3, <1>4, <2>1
  <2>2. CASE a # o /\ b # o
    BY <1>3, <1>4, <2>2 DEF Drawn
  <2>3. QED
    BY <2>1, <2>2
<1>5. ASSUME NEW a \in Artifact, NEW x \in CommitsOf(journal), e.row[a] # None
      PROVE  e.row[a] = journal[x[1]].name <=> a = x[2].art
  <2>1. CASE a = o
    BY <1>3, <2>1 DEF WellWritten
  <2>2. CASE a # o
    BY <1>3, <1>5, <2>2 DEF Drawn
  <2>3. QED
    BY <2>1, <2>2
<1>6. QED
  BY <1>3, <1>4, <1>5

(* What the line of a commit is.                                           *)
LEMMA SaidOf ==
  ASSUME NEW c \in CommitsOf(journal)
  PROVE  /\ journal[c[1]].type = "committed" /\ journal[c[1]].v = c[2]
         /\ journal[c[1]].name \in Name /\ c[1] \in DOMAIN journal /\ c[2] \in VersionSet
         /\ c[1] \in Nat
BY DEF CommitsOf, CommittedLine

(* A commit of the journal that the index has not taken in yet clashes     *)
(* with none of the others.                                                *)
LEMMA TakesOne ==
  ASSUME journal \in Seq(LineSet), WellWritten(journal), NEW d, Takes(d),
         NEW c \in CommitsOf(journal), NEW e, e.versions = d.versions \cup {c[2]}
  PROVE  Takes(e)
<1> SUFFICES ASSUME NEW x \in CommitsOf(journal), x[2] \notin e.versions,
                    Conflicts(e, x[2])
             PROVE  FALSE
  BY DEF Takes
<1>1. PICK w \in e.versions : Clash(w, x[2])
  BY DEF Conflicts, Clash
<1>2. ~Called(journal, x[2].id) /\ ~Called(journal, c[2].id)
  BY DEF WellWritten
<1>3. ~Conflicts(d, x[2])
  BY <1>2 DEF Takes
<1>4. w = c[2]
  BY <1>1, <1>3, ClashConflicts
<1>5. c[1] \in Nat /\ x[1] \in Nat /\ Clash(c[2], x[2]) /\ Clash(x[2], c[2])
  BY <1>1, <1>4 DEF CommitsOf, Clash
<1>6. c[1] # x[1]
  <2>1. journal[c[1]].v = c[2] /\ journal[x[1]].v = x[2]
    BY SaidOf
  <2>2. c[2] # x[2]
    OBVIOUS
  <2>3. QED
    BY <2>1, <2>2
<1>7. CASE c[1] < x[1]
  <2>1. CalledBy(journal, c[2].id, x[1])
    BY <1>5, <1>7 DEF Takes, InOrder
  <2>2. QED
    BY <1>2, <2>1 DEF Called, CalledBy
<1>8. CASE x[1] < c[1]
  <2>1. CalledBy(journal, x[2].id, c[1])
    BY <1>5, <1>8 DEF Takes, InOrder
  <2>2. QED
    BY <1>2, <2>1 DEF Called, CalledBy
<1>9. QED
  BY <1>5, <1>6, <1>7, <1>8

(* The line of a commit is taken in: its version, its row, its blob and    *)
(* its token.                                                              *)
LEMMA ReplaysCommit ==
  ASSUME journal \in Seq(LineSet), WellWritten(journal), NEW m \in Nat, NEW n \in Nat,
         n + 1 \in DOMAIN journal, NEW v \in VersionSet, NEW name \in Name,
         journal[n + 1] = CommittedLine(v, name), NEW d, Holding(d, m, n)
  PROVE  LET e == ApplyCommitted(d, CommittedLine(v, name))
         IN  /\ ~Throws(d, CommittedLine(v, name)) /\ Holding(e, m, n + 1) /\ KeepsRows(d, e)
             /\ \A a \in Artifact : a # v.art => e.current[a] = d.current[a]
             /\ \E i : /\ i.versions = e.versions /\ i.current = d.current
                       /\ e.current[v.art] = IF v.seq > CurrentSeq(i, v.art) THEN v.id
                                             ELSE d.current[v.art]
<1> DEFINE line == CommittedLine(v, name)
           e == ApplyCommitted(d, line)
           i == Inserted(WithRows(d, line), v)
           c == <<n + 1, v>>
<1>1. c \in CommitsOf(journal) /\ c[1] = n + 1 /\ c[2] = v
  BY DEF CommitsOf
<1>2. IndexOK(d) /\ Named(d) /\ Drawn(d, journal) /\ Takes(d)
  BY DEF Holding
<1>3. /\ line.v = v /\ line.name = name /\ line.type = "committed" /\ journal[c[1]].name = name
      /\ journal[n + 1] = line
  BY <1>1 DEF CommittedLine
<1>4. /\ WithRows(d, line).row = e.row
      /\ (\E b \in Artifact : d.row[b] = name) => e.row[v.art] = d.row[v.art]
      /\ (\A b \in Artifact : d.row[b] # name) => e.row[v.art] = name
      /\ \A s \in Sha : e.refs[s] # -1 => s = v.sha \/ d.refs[s] # -1
      /\ \A a \in Artifact : a # v.art => e.row[a] = d.row[a] /\ e.current[a] = d.current[a]
      /\ e.row[v.art] # None =>
           e.current[v.art] = IF v.seq > CurrentSeq(i, v.art) THEN v.id ELSE d.current[v.art]
      /\ i.current = d.current
      /\ i.versions = IF Conflicts(d, v) THEN d.versions ELSE d.versions \cup {v}
  <2>1. i = Inserted(WithRows(d, line), v) /\ e = ApplyCommitted(d, line)
        /\ line = CommittedLine(v, name)
    OBVIOUS
  <2> HIDE DEF e, i, line
  <2>2. Tables(d, line, v, name, i, e)
    BY <1>2, <2>1, AppliedTables
  <2>3. QED
    BY <2>2 DEF Tables
<1>5. /\ IndexOK(e) /\ Named(e) /\ e.fence = Raised(d, v.token)
      /\ e.versions = IF Conflicts(d, v) THEN d.versions ELSE d.versions \cup {v}
  BY <1>2, AppliedCommit
<1>6. Conflicts(d, v) => v \in d.versions
  BY <1>1, <1>2 DEF Takes, WellWritten
<1>7. e.versions = d.versions \cup {v} /\ i.versions = e.versions
  <2> HIDE DEF e, i
  <2>1. QED
    BY <1>4, <1>5, <1>6
<1>9. /\ v.art \in Artifact /\ v.sha \in Sha /\ v.token \in Tokens /\ v.id \in Put
       /\ v.seq \in Nat /\ name # None
       /\ d.row \in [Artifact -> Name \cup {None}] /\ d.refs \in [Sha -> Nat \cup {-1}]
       /\ d.current \in [Artifact -> VersionId \cup {None}] /\ d.fence \in Nat \cup {-1}
       /\ d \in Index /\ e \in Index
  BY <1>2, <1>5, DriveAssumption DEF VersionSet, IndexOK, Index
<1>10. \A a \in Artifact : a # v.art => e.row[a] = d.row[a]
  BY <1>4, <1>9
<1>11. /\ e.row[v.art] = name
       /\ \A a, b \in Artifact : e.row[a] # None /\ e.row[a] = e.row[b] => a = b
       /\ \A a \in Artifact, x \in CommitsOf(journal) :
            e.row[a] # None => (e.row[a] = journal[x[1]].name <=> a = x[2].art)
  <2>1. (\E b \in Artifact : d.row[b] = name) => e.row[v.art] = d.row[v.art]
    BY <1>4, <1>9
  <2>2. (\A b \in Artifact : d.row[b] # name) => e.row[v.art] = name
    BY <1>4, <1>9
  <2> HIDE DEF c
  <2>3. QED
    BY <1>1, <1>2, <1>3, <1>10, <2>1, <2>2, RowOfLine
<1>12. ~Throws(d, line)
  <2>1. line # Corrupt
    BY <1>3 DEF Corrupt
  <2>2. WithRows(d, line).row[v.art] # None
    BY <1>4, <1>9, <1>11
  <2>3. QED
    BY <1>3, <2>1, <2>2 DEF Throws
<1>13. e.fence >= d.fence /\ (v.token # None => e.fence >= v.token)
       /\ (e.fence = d.fence \/ (v.token # None /\ e.fence = v.token))
  BY <1>5, <1>9, FenceRises, RaisedIs
<1>14. Drawn(e, journal)
  <2>1. ASSUME NEW w \in Kept(e) PROVE \E x \in CommitsOf(journal) : x[2] = w
    <3>1. w \in Kept(d) \/ w = v
      BY <1>7 DEF Kept
    <3>2. QED
      BY <1>1, <1>2, <3>1 DEF Drawn
  <2>2. ASSUME NEW s \in Sha, e.refs[s] # -1 PROVE \E x \in CommitsOf(journal) : x[2].sha = s
    <3>1. d.refs[s] # -1 \/ s = v.sha
      BY <1>4, <1>9, <2>2
    <3>2. QED
      BY <1>1, <1>2, <3>1 DEF Drawn
  <2>3. e.fence = -1 \/ \E x \in CommitsOf(journal) : x[2].token # None /\ e.fence = x[2].token
    BY <1>1, <1>2, <1>13 DEF Drawn
  <2>4. ASSUME NEW a \in Artifact, e.row[a] = None PROVE e.current[a] = None
    <3>1. a # v.art /\ d.row[a] = None
      BY <1>9, <1>10, <1>11, <2>4
    <3>2. e.current[a] = d.current[a]
      BY <1>4, <1>9, <3>1
    <3>3. QED
      BY <1>2, <3>1, <3>2 DEF Drawn
  <2>5. QED
    BY <1>11, <2>1, <2>2, <2>3, <2>4 DEF Drawn
<1>15. Takes(e)
  BY <1>1, <1>2, <1>7, TakesOne
<1>16. ASSUME NEW x \in CommitsOf(journal), x[1] <= m \/ x[1] <= n + 1 PROVE Has(e, x[2])
  <2>1. x[1] \in Nat /\ x[2] \in VersionSet
    BY DEF CommitsOf
  <2>2. CASE x[1] <= m \/ x[1] <= n
    <3>1. Has(d, x[2])
      BY <2>2 DEF Holding
    <3>2. \A a \in Artifact : d.row[a] # None => e.row[a] # None
      BY <1>9, <1>10, <1>11
    <3>3. QED
      BY <1>7, <1>9, <1>13, <2>1, <3>1, <3>2, HasMore
  <2>3. CASE x[1] = n + 1
    <3>1. x[2] = v
      BY <1>1, <1>3, <2>3, SaidOf
    <3>2. QED
      BY <1>7, <1>9, <1>10, <1>11, <1>13, <3>1 DEF Has
  <2>4. QED
    BY <1>16, <2>1, <2>2, <2>3
<1>17. Holding(e, m, n + 1)
  BY <1>5, <1>14, <1>15, <1>16 DEF Holding
<1>18. e.current[v.art] = IF v.seq > CurrentSeq(i, v.art) THEN v.id ELSE d.current[v.art]
  BY <1>4, <1>9, <1>10, <1>11
<1>19. KeepsRows(d, e)
  <2>1. d.row[v.art] # None => d.row[v.art] = name
    BY <1>1, <1>2, <1>3, <1>9 DEF Drawn
  <2>2. QED
    BY <1>10, <1>11, <2>1 DEF KeepsRows
<1>20. QED
  BY <1>4, <1>7, <1>12, <1>17, <1>18, <1>19 DEF e, line

(* A pointer that leads to a version leads to one that was committed.      *)
LEMMA ShownCommit ==
  ASSUME journal \in Seq(LineSet), WellWritten(journal), NEW k \in 0..Len(journal),
         NEW a, NEW x, x # None, Shows(journal, k, a, x)
  PROVE  \E c \in CommitsOf(journal) : c[1] <= k /\ c[2].id = x /\ c[2].art = a
<1>1. Len(journal) \in Nat /\ DOMAIN journal = 1..Len(journal)
  BY LenProperties
<1>2. PICK i \in 1..k : Concerns(journal[i], a) /\ x = Says(journal[i])
  BY DEF Shows
<1>3. i \in DOMAIN journal /\ i \in Nat /\ i <= k
  BY <1>1, <1>2
<1>4. CASE journal[i].type = "committed"
  <2>1. <<i, journal[i].v>> \in CommitsOf(journal)
    BY <1>3, <1>4, SaidAt
  <2>2. x = journal[i].v.id /\ journal[i].v.art = a
    BY <1>2, <1>4 DEF Says, Concerns, Moves
  <2>3. QED
    BY <1>3, <2>1, <2>2
<1>5. CASE journal[i].type = "move"
  <2>1. x = journal[i].id /\ journal[i].art = a
    BY <1>2, <1>5 DEF Says, Concerns, Moves
  <2>2. PICK c \in CommitsOf(journal) :
          c[1] < i /\ c[2].id = journal[i].id /\ c[2].art = journal[i].art
    BY <1>3, <1>5 DEF WellWritten
  <2>3. c[1] \in Nat
    BY DEF CommitsOf
  <2>4. c[1] <= k
    BY <1>1, <1>3, <2>2, <2>3
  <2>5. QED
    BY <2>1, <2>2, <2>4
<1>6. CASE journal[i].type = "delete"
  <2>1. x = None
    BY <1>2, <1>6 DEF Says
  <2>2. QED
    BY <2>1
<1>7. QED
  BY <1>2, <1>4, <1>5, <1>6 DEF Concerns, Moves

(* An id in the index is of one version, and a marker's is no commit's.    *)
LEMMA IdOfOne ==
  ASSUME Placed(journal), NEW d, IndexOK(d), Drawn(d, journal), NEW c \in CommitsOf(journal),
         NEW w \in d.versions, w.id = c[2].id
  PROVE  w = c[2]
<1>1. c[2] \in VersionSet /\ w \in VersionSet \cup MarkerSet
  BY DEF CommitsOf, IndexOK, Index
<1>2. w \in VersionSet
  BY <1>1, MarkersApart
<1>3. w \in Kept(d)
  BY <1>2, DriveAssumption DEF Kept, VersionSet
<1>4. PICK e \in CommitsOf(journal) : e[2] = w
  BY <1>3 DEF Drawn
<1>5. e = c
  BY <1>4 DEF Placed
<1>6. QED
  BY <1>4, <1>5

(* No version, and no marker, is called None.                              *)
LEMMA IdsNotNone ==
  ASSUME NEW d, IndexOK(d), NEW w \in d.versions
  PROVE  w.id # None
BY DriveAssumption DEF IndexOK, Index, VersionSet, MarkerSet

(* The number of the version that a pointer shows: the one of its commit,  *)
(* or none.                                                                *)
LEMMA SeqShown ==
  ASSUME journal \in Seq(LineSet), WellWritten(journal), Placed(journal),
         NEW k \in 0..Len(journal), NEW d, IndexOK(d), Drawn(d, journal),
         \A c \in CommitsOf(journal) : c[1] <= k => c[2] \in d.versions,
         NEW i, i.versions = d.versions, NEW a, Shows(journal, k, a, i.current[a])
  PROVE  \/ CurrentSeq(i, a) = -1
         \/ \E c \in CommitsOf(journal) :
              /\ c[1] <= k /\ c[2].id = i.current[a] /\ c[2].art = a
              /\ CurrentSeq(i, a) = c[2].seq
<1>1. CASE i.current[a] = None
  BY <1>1, IdsNotNone, NoCurrentSeq
<1>2. CASE i.current[a] # None
  <2>1. PICK c \in CommitsOf(journal) : c[1] <= k /\ c[2].id = i.current[a] /\ c[2].art = a
    BY <1>2, ShownCommit
  <2>2. c[2] \in i.versions /\ c[2].seq \in Nat
    BY <2>1 DEF CommitsOf, VersionSet
  <2>3. \A x \in i.versions : x.id = c[2].id => x = c[2]
    BY IdOfOne
  <2>4. CurrentSeq(i, a) = c[2].seq
    BY <2>1, <2>2, <2>3, CurrentSeqOf
  <2>5. QED
    BY <2>1, <2>4
<1>3. QED
  BY <1>1, <1>2

(* A line that concerns a and is no commit moves the pointer of a.         *)
LEMMA TracksMoved ==
  ASSUME NEW m \in Nat, NEW n \in Nat, NEW a, Moves(journal[n + 1], a), NEW e,
         e.current[a] = Says(journal[n + 1])
  PROVE  Tracks(e, m, n + 1, a)
<1>1. n + 1 \in 1..(n + 1) /\ n + 1 \in Nat
  OBVIOUS
<1>2. Shows(journal, n + 1, a, e.current[a])
  BY ShowsLast DEF Concerns
<1>3. Pointed(a, 1, n + 1)
  BY <1>1 DEF Pointed
<1>4. QED
  BY <1>2, <1>3 DEF Tracks

(* The lines to come are those after the next, and the next.               *)
LEMMA PointedNext ==
  ASSUME NEW a, NEW n \in Nat, NEW m \in Nat, ~Moves(journal[n + 1], a)
  PROVE  /\ Pointed(a, 1, n + 1) => Pointed(a, 1, n)
         /\ Pointed(a, 1, n) => Pointed(a, 1, n + 1)
         /\ n < m /\ Pointed(a, n + 1, m) => n + 1 < m /\ Pointed(a, (n + 1) + 1, m)
<1>1. \A i \in 1..(n + 1) : i \in 1..n \/ i = n + 1
  OBVIOUS
<1>2. 1..n \subseteq 1..(n + 1)
  OBVIOUS
<1>3. \A i \in (n + 1)..m : i = n + 1 \/ (n + 1 < m /\ i \in ((n + 1) + 1)..m)
  OBVIOUS
<1>4. QED
  BY <1>1, <1>2, <1>3 DEF Pointed

(* A line of another artifact leaves it.                                   *)
LEMMA TracksOther ==
  ASSUME NEW m \in Nat, NEW n \in Nat, NEW a, ~Concerns(journal[n + 1], a), NEW d, NEW e,
         Tracks(d, m, n, a), e.current[a] = d.current[a]
  PROVE  Tracks(e, m, n + 1, a)
<1>1. ~Moves(journal[n + 1], a)
  BY DEF Concerns
<1>2. CASE Shows(journal, n, a, d.current[a]) /\ (n >= m \/ Pointed(a, 1, n))
  <2>1. Shows(journal, n + 1, a, e.current[a])
    BY <1>2, ShowsNext
  <2>2. n + 1 >= m \/ Pointed(a, 1, n + 1)
    BY <1>1, <1>2, PointedNext
  <2>3. QED
    BY <2>1, <2>2 DEF Tracks
<1>3. CASE /\ n < m /\ ~Pointed(a, 1, n)
           /\ Shows(journal, m, a, d.current[a]) \/ Pointed(a, n + 1, m)
  <2>1. ~Pointed(a, 1, n + 1)
    BY <1>1, <1>3, PointedNext
  <2>2. Pointed(a, n + 1, m) => n + 1 < m /\ Pointed(a, (n + 1) + 1, m)
    BY <1>1, <1>3, PointedNext
  <2>3. CASE n + 1 < m
    BY <1>3, <2>1, <2>2, <2>3 DEF Tracks
  <2>4. CASE ~(n + 1 < m)
    <3>1. n + 1 = m
      BY <1>3, <2>4
    <3>2. Shows(journal, n + 1, a, e.current[a])
      BY <1>3, <2>2, <2>4, <3>1
    <3>3. QED
      BY <3>1, <3>2 DEF Tracks
  <2>5. QED
    BY <2>3, <2>4
<1>4. QED
  BY <1>2, <1>3 DEF Tracks

(* A commit moves the pointer, unless the pointer has been read already:   *)
(* then it is at a later commit.                                           *)
LEMMA TracksCommit ==
  ASSUME journal \in Seq(LineSet), WellWritten(journal), Placed(journal),
         NEW m \in 0..Len(journal), NEW n \in Nat, n + 1 \in DOMAIN journal,
         NEW v \in VersionSet, NEW name \in Name, journal[n + 1] = CommittedLine(v, name),
         NEW d, Tracks(d, m, n, v.art), NEW e, Holding(e, m, n + 1),
         NEW i, i.versions = e.versions, i.current = d.current,
         e.current[v.art] = IF v.seq > CurrentSeq(i, v.art) THEN v.id ELSE d.current[v.art]
  PROVE  Tracks(e, m, n + 1, v.art)
<1> DEFINE a == v.art
           x == d.current[a]
           L == Len(journal)
           y == <<n + 1, v>>
<1>1. L \in Nat /\ DOMAIN journal = 1..L /\ m \in Nat /\ m <= L /\ n + 1 <= L
  BY LenProperties
<1>2. journal[n + 1].type = "committed" /\ journal[n + 1].v = v
  BY DEF CommittedLine
<1>3. Concerns(journal[n + 1], a) /\ ~Moves(journal[n + 1], a) /\ Says(journal[n + 1]) = v.id
  BY <1>2 DEF Concerns, Moves, Says
<1>4. y \in CommitsOf(journal) /\ y[1] = n + 1 /\ y[2] = v /\ v.seq \in Nat
  BY <1>1 DEF CommitsOf, VersionSet
<1>5. /\ IndexOK(e) /\ Drawn(e, journal)
      /\ \A c \in CommitsOf(journal) : c[1] <= m \/ c[1] <= n + 1 => c[2] \in e.versions
  BY DEF Holding, Has
<1> HIDE DEF y, L
<1>6. CASE Shows(journal, n, a, x) /\ (n >= m \/ Pointed(a, 1, n))
  <2>1. n \in 0..Len(journal)
    BY <1>1 DEF L
  <2>2. \A c \in CommitsOf(journal) : c[1] <= n => c[2] \in e.versions
    <3>1. \A c \in CommitsOf(journal) : c[1] \in Nat
      BY DEF CommitsOf
    <3>2. QED
      BY <1>5, <3>1
  <2>3. \/ CurrentSeq(i, a) = -1
        \/ \E c \in CommitsOf(journal) :
             c[1] <= n /\ c[2].art = a /\ CurrentSeq(i, a) = c[2].seq
    BY <1>5, <1>6, <2>1, <2>2, SeqShown
  <2>4. ASSUME NEW c \in CommitsOf(journal), c[1] <= n, c[2].art = a PROVE v.seq > c[2].seq
    <3>1. c[1] \in Nat /\ c[2].seq \in Nat
      BY DEF CommitsOf, VersionSet
    <3>2. c[1] < y[1] /\ c[2].art = y[2].art
      BY <1>4, <2>4, <3>1
    <3>3. c[2].seq < y[2].seq
      BY <1>4, <3>2 DEF WellWritten
    <3>4. QED
      BY <1>4, <3>1, <3>3
  <2>5. v.seq > CurrentSeq(i, a)
    BY <1>4, <2>3, <2>4
  <2>6. e.current[a] = Says(journal[n + 1])
    BY <1>3, <2>5
  <2>7. Shows(journal, n + 1, a, e.current[a])
    BY <1>3, <2>6, ShowsLast
  <2>8. n + 1 >= m \/ Pointed(a, 1, n + 1)
    BY <1>1, <1>3, <1>6, PointedNext
  <2>9. QED
    BY <2>7, <2>8 DEF Tracks
<1>7. CASE /\ n < m /\ ~Pointed(a, 1, n)
           /\ Shows(journal, m, a, x) \/ Pointed(a, n + 1, m)
  <2>1. ~Pointed(a, 1, n + 1)
    BY <1>3, <1>7, PointedNext
  <2>2. CASE Pointed(a, n + 1, m)
    <3>1. n + 1 < m /\ Pointed(a, (n + 1) + 1, m)
      BY <1>1, <1>3, <1>7, <2>2, PointedNext
    <3>2. QED
      BY <2>1, <3>1 DEF Tracks
  <2>3. CASE ~Pointed(a, n + 1, m) /\ Shows(journal, m, a, x)
    <3>1. n + 1 \in 1..m
      BY <1>1, <1>7
    <3>2. PICK l \in 1..m : /\ Concerns(journal[l], a) /\ x = Says(journal[l])
                            /\ \A k \in (l + 1)..m : ~Concerns(journal[k], a)
      BY <1>3, <2>3, <3>1 DEF Shows
    <3>3. ~(n + 1 > l)
      BY <1>1, <1>3, <1>7, <3>2
    <3>4. l \in (n + 1)..m /\ l \in 1..Len(journal) /\ l \in Nat
      BY <1>1, <3>2, <3>3 DEF L
    <3>5. journal[l].type = "committed" /\ journal[l].v.art = a
      BY <2>3, <3>2, <3>4 DEF Pointed, Concerns
    <3> DEFINE c == <<l, journal[l].v>>
    <3>6. c \in CommitsOf(journal) /\ c[1] = l /\ c[2] = journal[l].v
      BY <1>1, <3>4, <3>5, SaidAt DEF L
    <3> HIDE DEF c
    <3>7. x = c[2].id /\ c[2] \in VersionSet /\ c[2].seq \in Nat
      <4>1. Says(journal[l]) = journal[l].v.id
        BY <3>5 DEF Says
      <4>2. c[2] \in VersionSet
        BY <3>6 DEF CommitsOf
      <4>3. QED
        BY <3>2, <3>6, <4>1, <4>2 DEF VersionSet
    <3>8. c[2] \in i.versions
      BY <1>1, <1>5, <3>4, <3>6
    <3>9. \A w \in i.versions : w.id = c[2].id => w = c[2]
      BY <1>5, <3>6, IdOfOne
    <3>10. CurrentSeq(i, a) = c[2].seq
      BY <3>7, <3>8, <3>9, CurrentSeqOf
    <3>11. c[2].seq >= v.seq
      <4>1. CASE l = n + 1
        BY <1>2, <1>4, <3>6, <4>1
      <4>2. CASE l # n + 1
        <5>1. y[1] < c[1] /\ y[2].art = c[2].art
          BY <1>4, <3>3, <3>4, <3>5, <3>6, <4>2
        <5>2. y[2].seq < c[2].seq
          BY <1>4, <3>6, <5>1 DEF WellWritten
        <5>3. QED
          BY <1>4, <3>7, <5>2
      <4>3. QED
        BY <4>1, <4>2
    <3>12. e.current[a] = x
      BY <1>4, <3>7, <3>10, <3>11
    <3>13. CASE n + 1 < m
      BY <2>1, <2>3, <3>12, <3>13 DEF Tracks
    <3>14. CASE ~(n + 1 < m)
      <4>1. n + 1 = m
        BY <1>1, <1>7, <3>14
      <4>2. Shows(journal, n + 1, a, e.current[a])
        BY <2>3, <3>12, <4>1
      <4>3. QED
        BY <4>1, <4>2 DEF Tracks
    <3>15. QED
      BY <3>13, <3>14
  <2>4. QED
    BY <1>7, <2>2, <2>3
<1>8. QED
  BY <1>6, <1>7 DEF Tracks

(* An index that differs in its pointers alone holds the same.             *)
LEMMA HoldingSame ==
  ASSUME NEW m \in Nat, NEW n \in Nat, NEW d, Holding(d, m, n), NEW e, IndexOK(e), Named(e),
         e.versions = d.versions, e.row = d.row, e.refs = d.refs, e.fence = d.fence,
         \A a \in Artifact : e.row[a] = None => e.current[a] = None,
         \A c \in CommitsOf(journal) : c[1] # n + 1
  PROVE  Holding(e, m, n + 1)
<1>1. Drawn(e, journal)
  BY DEF Holding, Drawn, Kept
<1>2. Takes(e)
  BY DEF Holding, Takes, Conflicts
<1>3. ASSUME NEW c \in CommitsOf(journal), c[1] <= m \/ c[1] <= n + 1 PROVE Has(e, c[2])
  <2>1. c[1] \in Nat /\ c[1] # n + 1
    BY DEF CommitsOf
  <2>2. c[1] <= m \/ c[1] <= n
    BY <1>3, <2>1
  <2>3. QED
    BY <2>2 DEF Holding, Has
<1>4. QED
  BY <1>1, <1>2, <1>3 DEF Holding

Halfway(d, m, n) == Holding(d, m, n) /\ \A a \in Artifact : Tracks(d, m, n, a)

(* A line that moves a pointer.                                            *)
LEMMA ReplaysPointer ==
  ASSUME journal \in Seq(LineSet), NEW m \in Nat, NEW n \in Nat, n + 1 \in DOMAIN journal,
         NEW d, Halfway(d, m, n), NEW a \in Artifact, NEW id \in VersionId \cup {None},
         Moves(journal[n + 1], a), journal[n + 1].art = a, Says(journal[n + 1]) = id,
         d.row[a] = None => id = None
  PROVE  Halfway(PointerSet(d, a, id), m, n + 1) /\ KeepsRows(d, PointerSet(d, a, id))
<1> DEFINE e == PointerSet(d, a, id)
<1>1. IndexOK(d) /\ Named(d) /\ Drawn(d, journal)
  BY DEF Halfway, Holding
<1>2. IndexOK(e) /\ Named(e)
  BY <1>1, PointerSetOK
<1>3. /\ e.versions = d.versions /\ e.row = d.row /\ e.refs = d.refs /\ e.fence = d.fence
      /\ e.current[a] = id
      /\ \A b \in Artifact : b # a => e.current[b] = d.current[b]
  BY <1>1 DEF PointerSet, IndexOK, Index, Drawn
<1> HIDE DEF e
<1>4. \A b \in Artifact : e.row[b] = None => e.current[b] = None
  BY <1>1, <1>3 DEF Drawn
<1>5. \A c \in CommitsOf(journal) : c[1] # n + 1
  BY SaidOf DEF Moves
<1>6. Holding(e, m, n + 1)
  BY <1>2, <1>3, <1>4, <1>5, HoldingSame DEF Halfway
<1>7. ASSUME NEW b \in Artifact PROVE Tracks(e, m, n + 1, b)
  <2>1. CASE b = a
    BY <1>3, <2>1, TracksMoved
  <2>2. CASE b # a
    <3>1. ~Concerns(journal[n + 1], b)
      BY <2>2 DEF Concerns, Moves
    <3>2. QED
      BY <1>3, <2>2, <3>1, TracksOther DEF Halfway
  <2>3. QED
    BY <2>1, <2>2
<1>8. KeepsRows(d, e)
  BY <1>3 DEF KeepsRows
<1>9. QED
  BY <1>6, <1>7, <1>8 DEF Halfway, e

(* A line that calls off finds nothing to take away.                       *)
LEMMA ReplaysAborted ==
  ASSUME journal \in Seq(LineSet), WellWritten(journal), NEW m \in Nat, NEW n \in Nat,
         n + 1 \in DOMAIN journal, NEW p \in Put, journal[n + 1] = AbortedLine(p),
         NEW d, Halfway(d, m, n)
  PROVE  Halfway(Cancelled(d, p), m, n + 1) /\ KeepsRows(d, Cancelled(d, p))
<1> DEFINE e == Cancelled(d, p)
<1>1. IndexOK(d) /\ Named(d) /\ Drawn(d, journal)
  BY DEF Halfway, Holding
<1>2. IndexOK(e) /\ Named(e)
  BY <1>1, CancelledOK
<1>3. journal[n + 1].type = "aborted" /\ journal[n + 1].id = p
  BY DEF AbortedLine
<1>4. Called(journal, p)
  <2>1. <<n + 1, p>> \in AbortsOf(journal)
    BY <1>3, SaidAt
  <2>2. <<n + 1, p>>[2] = p
    OBVIOUS
  <2>3. QED
    BY <2>1, <2>2 DEF Called
<1>5. ASSUME NEW w \in d.versions PROVE w.id # p
  <2>1. CASE w \in VersionSet
    <3>1. w \in Kept(d)
      BY <2>1, DriveAssumption DEF Kept, VersionSet
    <3>2. QED
      BY <1>1, <1>4, <3>1 DEF Drawn, WellWritten
  <2>2. CASE w \in MarkerSet
    BY <2>2, DriveAssumption DEF MarkerSet
  <2>3. QED
    BY <1>1, <2>1, <2>2 DEF IndexOK, Index
<1>6. /\ e.versions = d.versions /\ e.row = d.row /\ e.refs = d.refs /\ e.fence = d.fence
      /\ e.current = d.current
  BY <1>1, <1>5 DEF Cancelled, IndexOK, Index
<1> HIDE DEF e
<1>7. \A b \in Artifact : e.row[b] = None => e.current[b] = None
  BY <1>1, <1>6 DEF Drawn
<1>8. \A c \in CommitsOf(journal) : c[1] # n + 1
  BY <1>3, SaidOf
<1>9. Holding(e, m, n + 1)
  BY <1>2, <1>6, <1>7, <1>8, HoldingSame DEF Halfway
<1>10. ASSUME NEW b \in Artifact PROVE Tracks(e, m, n + 1, b)
  <2>1. ~Concerns(journal[n + 1], b)
    BY <1>3 DEF Concerns, Moves
  <2>2. QED
    BY <1>6, <2>1, TracksOther DEF Halfway
<1>11. KeepsRows(d, e)
  BY <1>6 DEF KeepsRows
<1>12. QED
  BY <1>9, <1>10, <1>11 DEF Halfway, e

(* No line of such a journal throws, and each keeps what is known.         *)
LEMMA ReplaysLine ==
  ASSUME journal \in Seq(LineSet), WellWritten(journal), Placed(journal),
         NEW m \in 0..Len(journal), NEW n \in Nat, n + 1 \in DOMAIN journal,
         NEW d, Halfway(d, m, n)
  PROVE  /\ ~Throws(d, journal[n + 1])
         /\ Halfway(Applied(d, journal[n + 1]), m, n + 1)
         /\ KeepsRows(d, Applied(d, journal[n + 1]))
<1> DEFINE line == journal[n + 1]
           Fine == /\ ~Throws(d, line) /\ Halfway(Applied(d, line), m, n + 1)
                   /\ KeepsRows(d, Applied(d, line))
<1>1. line \in LineSet /\ m \in Nat /\ Len(journal) \in Nat
  BY ElementOfSeq, LenProperties
<1>2. line.type \in {"committed", "aborted", "delete", "move"}
  BY DEF WellWritten
<1>3. ASSUME NEW v \in VersionSet, NEW name \in Name, line = CommittedLine(v, name) PROVE Fine
  <2> DEFINE e == ApplyCommitted(d, CommittedLine(v, name))
  <2>1. /\ ~Throws(d, line) /\ Holding(e, m, n + 1) /\ KeepsRows(d, e)
        /\ \A a \in Artifact : a # v.art => e.current[a] = d.current[a]
        /\ \E i : /\ i.versions = e.versions /\ i.current = d.current
                  /\ e.current[v.art] = IF v.seq > CurrentSeq(i, v.art) THEN v.id
                                        ELSE d.current[v.art]
    BY <1>1, <1>3, ReplaysCommit DEF Halfway
  <2>2. line.type = "committed" /\ line.v = v /\ v.art \in Artifact
    BY <1>3 DEF CommittedLine, VersionSet
  <2>3. Applied(d, line) = e
    BY <1>3, <2>2 DEF Applied
  <2> HIDE DEF e
  <2>4. ASSUME NEW a \in Artifact PROVE Tracks(e, m, n + 1, a)
    <3>1. CASE a = v.art
      <4>1. PICK i : /\ i.versions = e.versions /\ i.current = d.current
                     /\ e.current[v.art] = IF v.seq > CurrentSeq(i, v.art) THEN v.id
                                           ELSE d.current[v.art]
        BY <2>1
      <4>2. Tracks(d, m, n, v.art)
        BY <2>2 DEF Halfway
      <4>3. QED
        BY <1>3, <2>1, <3>1, <4>1, <4>2, TracksCommit
    <3>2. CASE a # v.art
      <4>1. ~Concerns(line, a)
        BY <2>2, <3>2 DEF Concerns, Moves
      <4>2. QED
        BY <1>1, <2>1, <3>2, <4>1, TracksOther DEF Halfway
    <3>3. QED
      BY <3>1, <3>2
  <2>5. Halfway(e, m, n + 1)
    BY <2>1, <2>4 DEF Halfway
  <2>6. QED
    BY <2>1, <2>3, <2>5
<1>4. ASSUME NEW p \in Put, line = AbortedLine(p) PROVE Fine
  <2>1. line.type = "aborted" /\ line.id = p
    BY <1>4 DEF AbortedLine
  <2>2. Applied(d, line) = Cancelled(d, p) /\ ~Throws(d, line)
    BY <2>1 DEF Applied, Throws, Corrupt
  <2>3. Halfway(Cancelled(d, p), m, n + 1) /\ KeepsRows(d, Cancelled(d, p))
    BY <1>1, <1>4, ReplaysAborted
  <2>4. QED
    BY <2>2, <2>3
<1>5. ASSUME NEW a \in Artifact, line = DeleteLine(a) PROVE Fine
  <2>1. line.type = "delete" /\ line.art = a
    BY <1>5 DEF DeleteLine
  <2>2. Applied(d, line) = PointerSet(d, a, None) /\ ~Throws(d, line)
    BY <2>1 DEF Applied, Throws, Corrupt
  <2>3. Moves(line, a) /\ Says(line) = None
    BY <2>1 DEF Moves, Says
  <2>4. Halfway(PointerSet(d, a, None), m, n + 1) /\ KeepsRows(d, PointerSet(d, a, None))
    BY <1>1, <2>1, <2>3, ReplaysPointer
  <2>5. QED
    BY <2>2, <2>4
<1>6. ASSUME NEW a \in Artifact, NEW p \in Put, line = MoveLine(a, p) PROVE Fine
  <2>1. line.type = "move" /\ line.art = a /\ line.id = p
    BY <1>6 DEF MoveLine
  <2>2. Applied(d, line) = PointerSet(d, a, p) /\ ~Throws(d, line)
    BY <2>1 DEF Applied, Throws, Corrupt
  <2>3. Moves(line, a) /\ Says(line) = p /\ p \in VersionId
    BY <2>1 DEF Moves, Says, VersionId
  <2>4. d.row[a] # None
    <3>1. PICK c \in CommitsOf(journal) : c[1] < n + 1 /\ c[2].art = a
      BY <2>1 DEF WellWritten
    <3>2. c[1] \in Nat
      BY DEF CommitsOf
    <3>3. c[1] <= n
      BY <3>1, <3>2
    <3>4. Has(d, c[2])
      BY <3>3 DEF Halfway, Holding
    <3>5. QED
      BY <3>1, <3>4 DEF Has
  <2>5. Halfway(PointerSet(d, a, p), m, n + 1) /\ KeepsRows(d, PointerSet(d, a, p))
    BY <1>1, <2>1, <2>3, <2>4, ReplaysPointer
  <2>6. QED
    BY <2>2, <2>5
<1>7. ~(line = Torn \/ line = Corrupt \/ \E s \in Sha : line = PurgeLine(s))
  <2>1. Torn.type = "torn" /\ Corrupt.type = "corrupt" /\ \A s : PurgeLine(s).type = "purge"
    BY DEF Torn, Corrupt, PurgeLine
  <2> HIDE DEF line
  <2>2. QED
    BY <1>2, <2>1
<1>8. Fine
  BY <1>1, <1>3, <1>4, <1>5, <1>6, <1>7, LineCases
<1>9. QED
  BY <1>8

(* The end: every commit is there, and the pointers are where the journal  *)
(* leaves them.                                                            *)
LEMMA ReplaysAll ==
  ASSUME journal \in Seq(LineSet), WellWritten(journal), Placed(journal),
         NEW b, IndexOK(b), Named(b), Drawn(b, journal), Takes(b),
         NEW m \in 0..Len(journal), Read(b, journal, m)
  PROVE  LET r == Replay(b)
         IN  /\ r.ok /\ IndexOK(r.d) /\ Named(r.d) /\ Drawn(r.d, journal)
             /\ Read(r.d, journal, Len(journal)) /\ KeepsRows(b, r.d)
<1> DEFINE L == Len(journal)
           Fine(r, n) ==
             r = [ok |-> TRUE, d |-> r.d] /\ Halfway(r.d, m, n) /\ KeepsRows(b, r.d)
           G == {n \in 0..L : Fine(Stages(b)[n], n)}
<1>1. L \in Nat /\ DOMAIN journal = 1..L /\ m \in Nat /\ m <= L
  BY LenProperties
<1>2. /\ Stages(b)[0] = [ok |-> TRUE, d |-> b]
      /\ \A n \in 0..L : n # L => Stages(b)[n + 1] = Step(Stages(b)[n], journal[n + 1])
  BY <1>1, StagesStep
<1>3. \A c \in CommitsOf(journal) : c[1] \in 1..L
  BY <1>1 DEF CommitsOf
<1>4. 0 \in G
  <2>1. Holding(b, m, 0)
    <3>1. \A c \in CommitsOf(journal) : c[1] <= m \/ c[1] <= 0 => c[1] <= m
      BY <1>1, <1>3
    <3>2. QED
      BY <3>1 DEF Holding, Read
  <2>2. ASSUME NEW a \in Artifact PROVE Tracks(b, m, 0, a)
    <3>1. Shows(journal, m, a, b.current[a])
      BY DEF Read
    <3>2. \A i \in 1..0 : FALSE
      OBVIOUS
    <3>3. ~Pointed(a, 1, 0)
      BY <3>2, Zenon DEF Pointed
    <3>4. CASE m = 0
      BY <3>1, <3>4 DEF Tracks
    <3>5. CASE 0 < m
      BY <3>1, <3>3, <3>5 DEF Tracks
    <3>6. QED
      BY <1>1, <3>4, <3>5
  <2>3. Fine([ok |-> TRUE, d |-> b], 0)
    BY <2>1, <2>2 DEF Halfway, KeepsRows
  <2>4. 0 \in 0..L
    BY <1>1
  <2> HIDE DEF Fine, L
  <2>5. QED
    BY <1>2, <2>3, <2>4
<1>5. ASSUME NEW n \in 0..L, n # L, n \in G PROVE n + 1 \in G
  <2> DEFINE r == Stages(b)[n]
             line == journal[n + 1]
             q == Step(r, line)
  <2>1. n + 1 \in 0..L /\ n + 1 \in DOMAIN journal /\ n \in Nat
    <3> HIDE DEF L, G
    <3>1. QED
      BY <1>1, <1>5
  <2>2. r = [ok |-> TRUE, d |-> r.d] /\ Halfway(r.d, m, n) /\ KeepsRows(b, r.d)
    BY <1>5
  <2>3. Stages(b)[n + 1] = q
    BY <1>2, <1>5
  <2> HIDE DEF r
  <2>4. /\ ~Throws(r.d, line) /\ Halfway(Applied(r.d, line), m, n + 1)
        /\ KeepsRows(r.d, Applied(r.d, line))
    BY <2>1, <2>2, ReplaysLine
  <2> HIDE DEF line
  <2>5. q = [ok |-> TRUE, d |-> Applied(r.d, line)]
    <3>1. r = [ok |-> r.ok, d |-> r.d] /\ r.ok = TRUE
      BY <2>2
    <3>2. q = [ok |-> r.ok, d |-> Applied(r.d, line)]
      BY <2>4, <3>1 DEF Step
    <3> HIDE DEF q
    <3>3. QED
      BY <3>1, <3>2
  <2> HIDE DEF q, line
  <2>6. Fine(q, n + 1)
    BY <2>2, <2>4, <2>5 DEF KeepsRows
  <2> HIDE DEF Fine
  <2>7. QED
    BY <2>1, <2>3, <2>6
<1>6. 0..L \subseteq G
  <2> HIDE DEF G, L
  <2>1. QED
    BY <1>1, <1>4, <1>5, UpTo
<1>7. Fine(Stages(b)[L], L)
  <2>1. L \in 0..L
    BY <1>1
  <2> HIDE DEF Fine, L
  <2>2. QED
    BY <1>6, <2>1
<1> DEFINE d == Replay(b).d
<1>8. Replay(b).ok /\ Halfway(d, m, L) /\ KeepsRows(b, d)
  BY <1>7 DEF Replay
<1> HIDE DEF d
<1>9. Read(d, journal, L)
  <2>1. ASSUME NEW a \in Artifact PROVE Shows(journal, L, a, d.current[a])
    <3>1. Tracks(d, m, L, a) /\ ~(L < m)
      BY <1>1, <1>8 DEF Halfway
    <3>2. QED
      BY <3>1 DEF Tracks
  <2>2. \A c \in CommitsOf(journal) : Has(d, c[2])
    BY <1>1, <1>3, <1>8 DEF Halfway, Holding
  <2> HIDE DEF L
  <2>3. QED
    BY <2>1, <2>2 DEF Read
<1>10. QED
  BY <1>8, <1>9 DEF Halfway, Holding, d

-----------------------------------------------------------------------------
(* What the journal gives back.                                            *)

(* Two indexes that have read the whole journal are the same.              *)
LEMMA SameRead ==
  ASSUME NEW d, IndexOK(d), Named(d), Drawn(d, journal), Read(d, journal, Len(journal)),
         NEW e, IndexOK(e), Named(e), Drawn(e, journal), Read(e, journal, Len(journal)),
         journal \in Seq(LineSet)
  PROVE  /\ Kept(d) \subseteq Kept(e) /\ \A s \in Sha : d.refs[s] # -1 => e.refs[s] # -1
         /\ e.fence >= d.fence
<1>1. \A c \in CommitsOf(journal) : Has(d, c[2]) /\ Has(e, c[2]) /\ c[2] \in VersionSet
  <2>1. \A c \in CommitsOf(journal) : c[1] <= Len(journal) /\ c[2] \in VersionSet
    BY LenProperties DEF CommitsOf
  <2>2. QED
    BY <2>1 DEF Read
<1>2. ASSUME NEW w \in Kept(d) PROVE w \in Kept(e)
  <2>1. PICK c \in CommitsOf(journal) : c[2] = w
    BY DEF Drawn
  <2>2. w \in e.versions /\ w.sha # None
    BY <1>1, <2>1, DriveAssumption DEF Has, VersionSet
  <2>3. QED
    BY <2>2 DEF Kept
<1>3. ASSUME NEW s \in Sha, d.refs[s] # -1 PROVE e.refs[s] # -1
  <2>1. PICK c \in CommitsOf(journal) : c[2].sha = s
    BY <1>3 DEF Drawn
  <2>2. c[2] \in e.versions
    BY <1>1 DEF Has
  <2>3. QED
    BY <2>1, <2>2 DEF Named
<1>4. d.fence \in Int /\ e.fence \in Int /\ e.fence >= -1
  <2>1. d.fence \in Nat \cup {-1} /\ e.fence \in Nat \cup {-1}
    BY DEF IndexOK, Index
  <2>2. \A n \in Nat \cup {-1} : n \in Int /\ n >= -1
    OBVIOUS
  <2>3. QED
    BY <2>1, <2>2
<1>5. e.fence >= d.fence
  <2>1. CASE d.fence = -1
    BY <1>4, <2>1
  <2>2. CASE d.fence # -1
    <3>1. PICK c \in CommitsOf(journal) : c[2].token # None /\ d.fence = c[2].token
      BY <2>2 DEF Drawn
    <3>2. e.fence >= c[2].token
      BY <1>1, <3>1 DEF Has
    <3>3. QED
      BY <3>1, <3>2
  <2>3. QED
    BY <2>1, <2>2
<1>6. QED
  BY <1>2, <1>3, <1>5

(* The index of a new volume has read nothing and can take all.            *)
LEMMA EmptyReads ==
  ASSUME InOrder(journal), journal \in Seq(LineSet)
  PROVE  /\ IndexOK(EmptyIndex) /\ Named(EmptyIndex) /\ Drawn(EmptyIndex, journal)
         /\ Takes(EmptyIndex) /\ Read(EmptyIndex, journal, 0) /\ 0 \in 0..Len(journal)
<1>1. IndexOK(EmptyIndex) /\ Named(EmptyIndex)
  BY EmptyOK, EmptyExact, ExactNamed
<1>2. /\ EmptyIndex.versions = {} /\ EmptyIndex.fence = -1
      /\ \A s \in Sha : EmptyIndex.refs[s] = -1
      /\ \A a \in Artifact : EmptyIndex.row[a] = None /\ EmptyIndex.current[a] = None
  BY DEF EmptyIndex
<1>3. Drawn(EmptyIndex, journal)
  BY <1>2 DEF Drawn, Kept
<1>4. Takes(EmptyIndex)
  BY <1>2 DEF Takes, Conflicts
<1>5. \A c \in CommitsOf(journal) : ~(c[1] <= 0)
  BY LenProperties DEF CommitsOf
<1>6. \A i \in 1..0 : FALSE
  OBVIOUS
<1>7. \A a \in Artifact : Shows(journal, 0, a, None)
  BY <1>6, Zenon DEF Shows
<1>8. Read(EmptyIndex, journal, 0)
  BY <1>2, <1>5, <1>7 DEF Read
<1>9. QED
  BY <1>1, <1>3, <1>4, <1>8, LenProperties

(* So does what the journal gives back, and so does the index of a running *)
(* service.                                                                *)
LEMMA CanonShows ==
  ASSUME DriveInv, InOrder(journal), Placed(journal), Canon, status = "up"
  PROVE  LET r == Replay(EmptyIndex) e == Recounted(r.d) IN
         /\ r.ok /\ Kept(e) = Kept(db) /\ e.refs = db.refs /\ e.fence = db.fence
         /\ \A v \in Kept(db) : e.current[v.art] = db.current[v.art]
<1> DEFINE r == Replay(EmptyIndex)
           d == r.d
           e == Recounted(d)
<1>1. /\ journal \in Seq(LineSet) /\ WellWritten(journal)
      /\ IndexOK(db) /\ RefsExact(db) /\ Named(db) /\ Drawn(db, journal)
      /\ Read(db, journal, Len(journal))
  BY ExactNamed DEF DriveInv, Canon
<1>2. /\ r.ok /\ IndexOK(d) /\ Named(d) /\ Drawn(d, journal) /\ Read(d, journal, Len(journal))
  BY <1>1, EmptyReads, ReplaysAll
<1> HIDE DEF d
<1>3. /\ e.versions = d.versions /\ e.current = d.current /\ e.fence = d.fence
      /\ e.refs = [s \in Sha |-> IF d.refs[s] = -1 THEN -1 ELSE Cardinality(Uses(d, s))]
  BY <1>2 DEF Recounted, IndexOK, Index
<1> HIDE DEF e
<1>4. /\ Kept(d) = Kept(db) /\ \A s \in Sha : d.refs[s] = -1 <=> db.refs[s] = -1
      /\ d.fence = db.fence
  <2>1. /\ Kept(d) \subseteq Kept(db) /\ \A s \in Sha : d.refs[s] # -1 => db.refs[s] # -1
        /\ db.fence >= d.fence
    BY <1>1, <1>2, SameRead
  <2>2. /\ Kept(db) \subseteq Kept(d) /\ \A s \in Sha : db.refs[s] # -1 => d.refs[s] # -1
        /\ d.fence >= db.fence
    BY <1>1, <1>2, SameRead
  <2>3. d.fence \in Int /\ db.fence \in Int
    BY <1>1, <1>2 DEF IndexOK, Index
  <2>4. d.fence = db.fence
    BY <2>1, <2>2, <2>3
  <2>5. QED
    BY <2>1, <2>2, <2>4
<1>5. \A s \in Sha : Uses(d, s) = Uses(db, s)
  <2>1. \A x : \A s \in Sha : Uses(x, s) = {v \in Kept(x) : v.sha = s}
    BY DriveAssumption DEF Uses, Kept
  <2>2. QED
    BY <1>4, <2>1
<1>6. e.refs = db.refs
  <2>1. db.refs = [s \in Sha |-> db.refs[s]]
    BY <1>1 DEF IndexOK, Index
  <2>2. \A s \in Sha : db.refs[s] = IF d.refs[s] = -1 THEN -1 ELSE Cardinality(Uses(d, s))
    BY <1>1, <1>4, <1>5 DEF RefsExact
  <2>3. QED
    BY <1>3, <2>1, <2>2
<1>7. \A a \in Artifact : e.current[a] = db.current[a]
  <2>1. Len(journal) \in Nat
    BY <1>1, LenProperties
  <2>2. QED
    BY <1>1, <1>2, <1>3, <2>1, ShowsOne DEF Read
<1>8. \A v \in Kept(db) : v.art \in Artifact
  BY <1>1 DEF Kept, IndexOK, Index, VersionSet, MarkerSet
<1>9. Kept(e) = Kept(db)
  BY <1>3, <1>4 DEF Kept
<1>10. QED
  BY <1>2, <1>3, <1>4, <1>6, <1>7, <1>8, <1>9 DEF e, d

-----------------------------------------------------------------------------
(* A line more.                                                            *)

(* The journal k is j with a line more.                                    *)
OneMore(j, k, line) ==
  /\ j \in Seq(LineSet) /\ k \in Seq(LineSet)
  /\ Len(k) = Len(j) + 1 /\ k[Len(k)] = line /\ \A i \in 1..Len(j) : k[i] = j[i]

(* A journal without a cut line gets the line itself.                      *)
LEMMA AppendedOne ==
  ASSUME journal \in Seq(LineSet), WellWritten(journal), NEW line \in LineSet,
         NEW k \in Appended(line)
  PROVE  OneMore(journal, k, line)
<1>1. Len(journal) \in Nat /\ DOMAIN journal = 1..Len(journal)
  BY LenProperties
<1>2. ~TornTail
  <2> SUFFICES ASSUME journal # <<>>, Last(journal) = Torn PROVE FALSE
    BY DEF TornTail
  <2>1. Len(journal) \in DOMAIN journal /\ journal[Len(journal)] = Torn
    BY <1>1, EmptySeq DEF Last
  <2>2. Torn.type = "torn"
    BY DEF Torn
  <2>3. QED
    BY <2>1, <2>2 DEF WellWritten
<1>3. k = Append(journal, line)
  BY <1>2 DEF Appended
<1>4. /\ k \in Seq(LineSet) /\ Len(k) = Len(journal) + 1 /\ k[Len(journal) + 1] = line
      /\ \A i \in 1..Len(journal) : k[i] = journal[i]
  BY <1>3, AppendProperties
<1>5. QED
  BY <1>1, <1>4 DEF OneMore

(* It commits and calls off what j does, and what the line says.           *)
LEMMA OneMoreSays ==
  ASSUME NEW j, NEW k, NEW line, OneMore(j, k, line)
  PROVE  /\ Len(j) \in Nat /\ DOMAIN j = 1..Len(j) /\ DOMAIN k = 1..Len(k)
         /\ \A i \in DOMAIN k : i = Len(k) \/ i \in DOMAIN j
         /\ \A c \in CommitsOf(j) :
              c \in CommitsOf(k) /\ c[1] < Len(k) /\ k[c[1]] = j[c[1]]
         /\ \A c \in CommitsOf(k) :
              \/ c \in CommitsOf(j)
              \/ c[1] = Len(k) /\ \E n \in Name : line = CommittedLine(c[2], n)
         /\ \A x \in AbortsOf(k) : x \in AbortsOf(j) \/ line = AbortedLine(x[2])
         /\ \A x \in AbortsOf(j) : x \in AbortsOf(k)
<1> DEFINE L == Len(j)
           K == Len(k)
<1>1. /\ L \in Nat /\ K = L + 1 /\ DOMAIN j = 1..L /\ DOMAIN k = 1..K /\ k[K] = line
      /\ \A i \in 1..L : k[i] = j[i]
  BY LenProperties DEF OneMore
<1> HIDE DEF L, K
<1>2. \A i \in 1..K : i = K \/ i \in 1..L
  BY <1>1
<1>3. \A i \in 1..L : i \in 1..K /\ i < K
  BY <1>1
<1>4. ASSUME NEW c \in CommitsOf(j)
      PROVE  c \in CommitsOf(k) /\ c[1] < K /\ k[c[1]] = j[c[1]]
  <2>1. c[1] \in 1..L /\ c \in Nat \X VersionSet
    BY <1>1 DEF CommitsOf
  <2>2. c[1] \in 1..K /\ c[1] < K /\ k[c[1]] = j[c[1]]
    BY <1>1, <1>3, <2>1
  <2>3. QED
    BY <1>1, <2>1, <2>2 DEF CommitsOf
<1>5. ASSUME NEW c \in CommitsOf(k), c \notin CommitsOf(j)
      PROVE  c[1] = K /\ \E n \in Name : line = CommittedLine(c[2], n)
  <2>1. c[1] \in 1..K /\ c \in Nat \X VersionSet
    BY <1>1 DEF CommitsOf
  <2>2. c[1] \notin 1..L
    BY <1>1, <1>5, <2>1 DEF CommitsOf
  <2>3. c[1] = K
    BY <1>2, <2>1, <2>2
  <2>4. QED
    BY <1>1, <2>3 DEF CommitsOf
<1>6. ASSUME NEW x \in AbortsOf(k), x \notin AbortsOf(j) PROVE line = AbortedLine(x[2])
  <2>1. x[1] \in 1..K /\ x \in Nat \X Put
    BY <1>1 DEF AbortsOf
  <2>2. x[1] \notin 1..L
    BY <1>1, <1>6, <2>1 DEF AbortsOf
  <2>3. x[1] = K
    BY <1>2, <2>1, <2>2
  <2>4. QED
    BY <1>1, <2>3 DEF AbortsOf
<1>7. ASSUME NEW x \in AbortsOf(j) PROVE x \in AbortsOf(k)
  <2>1. x[1] \in 1..L /\ x \in Nat \X Put
    BY <1>1 DEF AbortsOf
  <2>2. x[1] \in 1..K /\ k[x[1]] = j[x[1]]
    BY <1>1, <1>3, <2>1
  <2>3. QED
    BY <1>1, <2>1, <2>2 DEF AbortsOf
<1>8. QED
  BY <1>1, <1>2, <1>4, <1>5, <1>6, <1>7 DEF L, K

(* What the first lines say is read in it too.                             *)
LEMMA ReadMore ==
  ASSUME NEW j, NEW k, NEW line, OneMore(j, k, line), NEW d, NEW m \in 0..Len(j), Read(d, j, m)
  PROVE  Read(d, k, m) /\ m \in 0..Len(k)
<1>1. /\ Len(j) \in Nat /\ m \in Nat /\ m <= Len(j) /\ Len(k) = Len(j) + 1
      /\ \A i \in 1..m : k[i] = j[i]
  BY OneMoreSays DEF OneMore
<1>2. ASSUME NEW c \in CommitsOf(k), c[1] <= m PROVE c \in CommitsOf(j)
  <2>1. c[1] # Len(k)
    BY <1>1, <1>2
  <2>2. QED
    BY <2>1, OneMoreSays
<1>3. ASSUME NEW a \in Artifact PROVE Shows(k, m, a, d.current[a])
  <2>1. Shows(j, m, a, d.current[a])
    BY DEF Read
  <2>2. QED
    BY <1>1, <2>1, ShowsSame
<1>4. QED
  BY <1>1, <1>2, <1>3 DEF Read

(* An index that takes the line in has read all of it.                     *)
LEMMA ReadLast ==
  ASSUME NEW j, NEW k, NEW line, OneMore(j, k, line), NEW d, Read(d, j, Len(j)),
         NEW e, \A v \in VersionSet : Has(d, v) => Has(e, v),
         \A v, n : line = CommittedLine(v, n) => Has(e, v),
         \A a \in Artifact : e.current[a] = IF Concerns(line, a) THEN Says(line)
                                           ELSE d.current[a]
  PROVE  Read(e, k, Len(k))
<1>1. Len(j) \in Nat /\ Len(k) = Len(j) + 1 /\ k[Len(k)] = line /\ \A i \in 1..Len(j) : k[i] = j[i]
  BY OneMoreSays DEF OneMore
<1>2. ASSUME NEW c \in CommitsOf(k) PROVE Has(e, c[2])
  <2>1. CASE c \in CommitsOf(j)
    <3>1. c[1] <= Len(j) /\ c[2] \in VersionSet
      BY <2>1, OneMoreSays DEF CommitsOf
    <3>2. Has(d, c[2])
      BY <2>1, <3>1 DEF Read
    <3>3. QED
      BY <3>1, <3>2
  <2>2. CASE c \notin CommitsOf(j)
    BY <2>2, OneMoreSays
  <2>3. QED
    BY <2>1, <2>2
<1>3. ASSUME NEW a \in Artifact PROVE Shows(k, Len(k), a, e.current[a])
  <2>1. CASE Concerns(line, a)
    BY <1>1, <2>1, ShowsLast
  <2>2. CASE ~Concerns(line, a)
    <3>1. Shows(j, Len(j), a, d.current[a])
      BY DEF Read
    <3>2. Shows(k, Len(j), a, d.current[a])
      BY <1>1, <3>1, ShowsSame
    <3>3. QED
      BY <1>1, <2>2, <3>2, ShowsNext
  <2>3. QED
    BY <2>1, <2>2
<1>4. QED
  BY <1>2, <1>3 DEF Read

(* An index comes from it when it came from j, and its rows fit the line.  *)
LEMMA DrawnMore ==
  ASSUME NEW j, NEW k, NEW line, OneMore(j, k, line), NEW d, Drawn(d, j),
         \A v, n : line = CommittedLine(v, n) =>
           \A a \in Artifact : d.row[a] # None => (d.row[a] = n <=> a = v.art)
  PROVE  Drawn(d, k)
<1>1. \A c \in CommitsOf(j) : c \in CommitsOf(k)
  BY OneMoreSays
<1>2. ASSUME NEW a \in Artifact, NEW c \in CommitsOf(k), d.row[a] # None
      PROVE  d.row[a] = k[c[1]].name <=> a = c[2].art
  <2>1. CASE c \in CommitsOf(j)
    <3>1. k[c[1]] = j[c[1]]
      BY <2>1, OneMoreSays
    <3>2. QED
      BY <1>2, <2>1, <3>1 DEF Drawn
  <2>2. CASE c \notin CommitsOf(j)
    <3>1. PICK n \in Name : line = CommittedLine(c[2], n) /\ c[1] = Len(k)
      BY <2>2, OneMoreSays
    <3>2. k[c[1]].name = n
      BY <3>1 DEF OneMore, CommittedLine
    <3>3. QED
      BY <1>2, <3>1, <3>2
  <2>3. QED
    BY <2>1, <2>2
<1>3. QED
  BY <1>1, <1>2 DEF Drawn

(* It is well written when j was and a move goes to a commit, an abort is  *)
(* of no commit;                                                           *)
LEMMA WellMore ==
  ASSUME NEW j, NEW k, NEW line, OneMore(j, k, line), WellWritten(j),
         line.type \in {"aborted", "delete", "move"},
         \A id : line = AbortedLine(id) => \A c \in CommitsOf(j) : c[2].id # id,
         line.type = "move" => \E c \in CommitsOf(j) : c[2].id = line.id /\ c[2].art = line.art
  PROVE  WellWritten(k) /\ CommitsOf(k) = CommitsOf(j)
<1>1. \A v, n : line # CommittedLine(v, n)
  <2>1. \A v, n : CommittedLine(v, n).type = "committed"
    BY DEF CommittedLine
  <2>2. QED
    BY <2>1
<1>2. CommitsOf(k) = CommitsOf(j) /\ \A c \in CommitsOf(j) : k[c[1]] = j[c[1]]
  <2>1. \A c \in CommitsOf(j) : c \in CommitsOf(k) /\ k[c[1]] = j[c[1]]
    BY OneMoreSays
  <2>2. \A c \in CommitsOf(k) : c \in CommitsOf(j)
    BY <1>1, OneMoreSays
  <2>3. QED
    BY <2>1, <2>2
<1>3. \A i \in DOMAIN k : k[i] = IF i = Len(k) THEN line ELSE j[i]
  <2>1. \A i \in DOMAIN k : i = Len(k) \/ i \in 1..Len(j)
    BY OneMoreSays
  <2>2. QED
    BY <2>1 DEF OneMore
<1>4. \A i \in DOMAIN k : i = Len(k) \/ i \in DOMAIN j
  BY OneMoreSays
<1>5. \A i \in DOMAIN k : k[i].type \in {"committed", "aborted", "delete", "move"}
  BY <1>3, <1>4 DEF WellWritten
<1>6. ASSUME NEW c \in CommitsOf(k) PROVE ~Called(k, c[2].id)
  <2> SUFFICES ASSUME NEW x \in AbortsOf(k), x[2] = c[2].id PROVE FALSE
    BY DEF Called
  <2>1. x \in AbortsOf(j) \/ line = AbortedLine(x[2])
    BY OneMoreSays
  <2>2. QED
    BY <1>2, <2>1 DEF WellWritten, Called
<1>7. \A c, e \in CommitsOf(k) :
        /\ c[1] < e[1] /\ c[2].art = e[2].art => c[2].seq < e[2].seq
        /\ k[c[1]].name = k[e[1]].name <=> c[2].art = e[2].art
  BY <1>2 DEF WellWritten
<1>8. ASSUME NEW i \in DOMAIN k, k[i].type = "move"
      PROVE  \E c \in CommitsOf(k) : c[1] < i /\ c[2].id = k[i].id /\ c[2].art = k[i].art
  <2>1. CASE i = Len(k)
    BY <1>2, <1>3, <1>8, <2>1, OneMoreSays
  <2>2. CASE i # Len(k)
    BY <1>2, <1>3, <1>4, <1>8, <2>2 DEF WellWritten
  <2>3. QED
    BY <2>1, <2>2
<1>9. QED
  BY <1>2, <1>5, <1>6, <1>7, <1>8 DEF WellWritten

(* or when the commit is not called off, has the next number, and has the  *)
(* name its artifact has.                                                  *)
LEMMA WellCommits ==
  ASSUME NEW j, NEW k, NEW v \in VersionSet, NEW n \in Name,
         OneMore(j, k, CommittedLine(v, n)), WellWritten(j), ~Called(j, v.id),
         \A c \in CommitsOf(j) : /\ c[2].art = v.art => c[2].seq < v.seq
                                 /\ j[c[1]].name = n <=> c[2].art = v.art
  PROVE  WellWritten(k)
<1> DEFINE line == CommittedLine(v, n)
<1>1. line.type = "committed" /\ line.v = v /\ line.name = n /\ k[Len(k)] = line
  BY DEF CommittedLine, OneMore
<1>2. \A i \in DOMAIN k : k[i] = IF i = Len(k) THEN line ELSE j[i]
  <2>1. \A i \in DOMAIN k : i = Len(k) \/ i \in 1..Len(j)
    BY OneMoreSays
  <2>2. QED
    BY <2>1 DEF OneMore
<1>3. \A i \in DOMAIN k : i = Len(k) \/ i \in DOMAIN j
  BY OneMoreSays
<1>4. \A c \in CommitsOf(j) : c \in CommitsOf(k) /\ c[1] < Len(k) /\ k[c[1]] = j[c[1]]
  BY OneMoreSays
<1>5. ASSUME NEW c \in CommitsOf(k), c \notin CommitsOf(j) PROVE c[1] = Len(k) /\ c[2] = v
  <2>1. c[1] = Len(k) /\ \E b \in Name : line = CommittedLine(c[2], b)
    BY <1>5, OneMoreSays
  <2>2. QED
    BY <2>1, LinesSay
<1>6. AbortsOf(k) \subseteq AbortsOf(j)
  <2>1. \A p : line # AbortedLine(p)
    BY LinesSay
  <2>2. QED
    BY <2>1, OneMoreSays
<1> HIDE DEF line
<1>7. \A i \in DOMAIN k : k[i].type \in {"committed", "aborted", "delete", "move"}
  BY <1>1, <1>2, <1>3 DEF WellWritten
<1>8. \A c \in CommitsOf(k) : ~Called(k, c[2].id)
  BY <1>5, <1>6 DEF WellWritten, Called
<1>9. ASSUME NEW c \in CommitsOf(k), NEW e \in CommitsOf(k)
      PROVE  /\ c[1] < e[1] /\ c[2].art = e[2].art => c[2].seq < e[2].seq
             /\ k[c[1]].name = k[e[1]].name <=> c[2].art = e[2].art
  <2>1. CASE c \in CommitsOf(j) /\ e \in CommitsOf(j)
    BY <1>4, <2>1 DEF WellWritten
  <2>2. CASE c \in CommitsOf(j) /\ e \notin CommitsOf(j)
    BY <1>1, <1>4, <1>5, <2>2
  <2>3. CASE c \notin CommitsOf(j) /\ e \in CommitsOf(j)
    <3>1. c[1] = Len(k) /\ c[2] = v /\ e[1] < Len(k) /\ e[1] \in Nat /\ Len(k) \in Nat
      BY <1>4, <1>5, <2>3, LenProperties DEF CommitsOf, OneMore
    <3>2. ~(c[1] < e[1])
      BY <3>1
    <3>3. QED
      BY <1>1, <1>4, <2>3, <3>1, <3>2
  <2>4. CASE c \notin CommitsOf(j) /\ e \notin CommitsOf(j)
    <3>1. c[1] = Len(k) /\ c[2] = v /\ e[1] = Len(k) /\ e[2] = v /\ Len(k) \in Nat
      BY <1>5, <2>4, LenProperties DEF OneMore
    <3>2. QED
      BY <3>1
  <2>5. QED
    BY <2>1, <2>2, <2>3, <2>4
<1>10. ASSUME NEW i \in DOMAIN k, k[i].type = "move"
       PROVE  \E c \in CommitsOf(k) : c[1] < i /\ c[2].id = k[i].id /\ c[2].art = k[i].art
  BY <1>1, <1>2, <1>3, <1>4, <1>10 DEF WellWritten
<1>11. QED
  BY <1>7, <1>8, <1>9, <1>10 DEF WellWritten

-----------------------------------------------------------------------------
(* Steps that write no version.                                            *)

(* What leaves pointers alone too, and of an upload its artifact and name. *)
Still(d, e) ==
  /\ Aside(d, e) /\ e.current = d.current
  /\ \A u \in Upload : e.upload[u].state # "none" =>
       /\ d.upload[u].state # "none"
       /\ e.upload[u].art = d.upload[u].art /\ e.upload[u].name = d.upload[u].name

(* Two steps that do are one that does.                                    *)
LEMMA StillTwice ==
  ASSUME NEW c, NEW d, NEW e, Still(c, d), Still(d, e)
  PROVE  Still(c, e)
BY DEF Still, Aside

(* A touch, a release and the abort of a known upload do.                  *)
LEMMA StillSession ==
  ASSUME NEW d, d \in Index, NEW u \in Upload, d.upload[u].state # "none", NEW n
  PROVE  /\ Still(d, Touched(d, u, n)) /\ Still(d, Released(d, n)) /\ Still(d, Aborted(d, u))
<1>0. d.upload \in [Upload -> UploadRow]
  BY DEF Index
<1>1. Still(d, Touched(d, u, n))
  <2> DEFINE U == [d.upload EXCEPT ![u].bytes = n]
  <2>1. Touched(d, u, n).upload = U /\ Touched(d, u, n).current = d.current
    BY DEF Touched, Index
  <2>2. \A w \in Upload : /\ U[w].state = d.upload[w].state /\ U[w].art = d.upload[w].art
                          /\ U[w].name = d.upload[w].name
    BY <1>0 DEF UploadRow
  <2> HIDE DEF U
  <2>3. QED
    BY <2>1, <2>2, AsideSession DEF Still
<1>2. \A m, x : x \in Index => Still(x, Released(x, m))
  BY DEF Still, Aside, Released, Index
<1>3. Still(d, Aborted(d, u))
  <2> DEFINE e == [d EXCEPT !.upload[u].state = "aborted", !.idle = @ \ {u}]
             U == [d.upload EXCEPT ![u].state = "aborted"]
             b == d.upload[u].bytes
  <2>1. e.upload = U /\ e.current = d.current /\ Aside(d, e)
    BY DEF Index, Aside
  <2>2. \A w \in Upload : /\ U[w].state # "none" => d.upload[w].state # "none"
                          /\ U[w].art = d.upload[w].art /\ U[w].name = d.upload[w].name
    BY <1>0 DEF UploadRow
  <2>3. Released(e, b).upload = e.upload /\ Released(e, b).current = e.current
    BY DEF Released, Index
  <2>4. CASE d.upload[u].state = "committed"
    BY <2>4 DEF Still, Aside, Aborted
  <2>5. CASE d.upload[u].state # "committed"
    <3>1. Aborted(d, u) = Released(e, b)
      BY <2>5 DEF Aborted
    <3>2. Aside(d, Aborted(d, u))
      BY AsideSession
    <3> HIDE DEF e, b, U
    <3>3. QED
      BY <2>1, <2>2, <2>3, <3>1, <3>2 DEF Still
  <2>6. QED
    BY <2>4, <2>5
<1>4. QED
  BY <1>1, <1>2, <1>3

(* So does a handler that charges, or gives up.                            *)
LEMMA StillCharged ==
  ASSUME DriveInv, NEW p \in Put, Writing(p), MayCharge(p)
  PROVE  Still(db, Charge(p))
<1> DEFINE u == put[p].upload
           e == [db EXCEPT !.daily = @ + 1]
<1>1. u \in Upload /\ db.upload[u].state # "none" /\ db \in Index
  BY ChargedStream DEF DriveInv, IndexOK
<1>2. CASE put[p].charged = 1
  BY <1>2 DEF Charge, Still, Aside
<1>3. CASE put[p].charged # 1
  <2>1. db.daily + 1 \in 0..Quota
    BY <1>1, <1>3, DriveAssumption DEF MayCharge, Index
  <2>2. e \in Index /\ e.upload = db.upload /\ Still(db, e)
    BY <1>1, <2>1 DEF Index, Still, Aside
  <2>3. Charge(p) = Touched(e, u, 1)
    BY <1>3 DEF Charge
  <2> HIDE DEF e, u
  <2>4. Still(e, Touched(e, u, 1))
    BY <1>1, <2>2, StillSession
  <2>5. QED
    BY <2>2, <2>3, <2>4, StillTwice
<1>4. QED
  BY <1>2, <1>3

(* Giving an upload up after its session was touched leaves the index.     *)
LEMMA StillGivesUp ==
  ASSUME DriveInv, NEW p \in Put, Writing(p), NEW n \in 0..1, NEW d, IndexOK(d),
         Still(db, d), d.upload[put[p].upload].state # "none", GivesUp(p, d, n)
  PROVE  Still(db, db')
<1> DEFINE u == put[p].upload
           t == Touched(d, u, n)
<1>1. u \in Upload /\ db' = Aborted(t, u)
  BY DEF DriveInv, PutOK, GivesUp
<1>2. Still(d, t) /\ IndexOK(t) /\ t.upload[u].state # "none"
  BY <1>1, StillSession, TouchedOK DEF IndexOK
<1>3. Still(t, db')
  <2> HIDE DEF t, u
  <2>1. QED
    BY <1>1, <1>2, StillSession DEF IndexOK
<1>4. QED
  BY <1>2, <1>3, StillTwice

(* What comes of an index that stands still comes of it as before.         *)
LEMMA StillDrawn ==
  ASSUME NEW d, NEW e, NEW j, Still(d, e), Drawn(d, j), Titled(d)
  PROVE  /\ Drawn(e, j) /\ Titled(e) /\ e.current = d.current
         /\ \A v : Has(d, v) => Has(e, v)
         /\ \A m : Read(d, j, m) => Read(e, j, m)
<1>1. Kept(e) = Kept(d) /\ \A v : Has(d, v) => Has(e, v)
  BY DEF Still, Aside, Kept, Has
<1>2. Drawn(e, j)
  BY <1>1 DEF Still, Aside, Drawn
<1>3. Titled(e)
  BY DEF Still, Aside, Titled
<1>4. e.current = d.current
  BY DEF Still
<1>5. \A m : Read(d, j, m) => Read(e, j, m)
  BY <1>1, <1>4 DEF Read
<1>6. QED
  BY <1>1, <1>2, <1>3, <1>4, <1>5

(* A step that writes no line keeps the index and the journal together.    *)
LEMMA StillCanon ==
  ASSUME Canon, Still(db, db'), journal' = journal, purged' = purged,
         status' = "up" => status = "up"
  PROVE  Canon'
<1>1. PICK m \in 0..Len(journal) :
        Read(db, journal, m) /\ (status = "up" => m = Len(journal))
  BY DEF Canon
<1>2. /\ Drawn(db', journal) /\ Titled(db') /\ Read(db', journal, m)
  BY <1>1, StillDrawn DEF Canon
<1>3. m \in 0..Len(journal') /\ Read(db', journal', m) /\ (status' = "up" => m = Len(journal'))
  BY <1>1, <1>2
<1>4. QED
  BY <1>2, <1>3 DEF Canon

(* The steps that write none: of streams, of sessions and of the process.  *)
LEMMA QuietCanon ==
  ASSUME DriveInv, SurvivalInv, Canon, NEW p \in Put,
         \/ \E u \in Upload, s \in Sha : PutOpen(p, u, s)
         \/ \E flushes \in BOOLEAN : PutBytes(p, flushes)
         \/ PutFail(p) \/ PutReplayed(p) \/ PutRefused(p)
  PROVE  Canon'
<1>1. Still(db, db)
  BY DEF Still, Aside
<1>2. ASSUME NEW u \in Upload, NEW s \in Sha, PutOpen(p, u, s) PROVE Canon'
  BY <1>1, <1>2, StillCanon DEF PutOpen, historyVars
<1>3. ASSUME NEW flushes \in BOOLEAN, PutBytes(p, flushes) PROVE Canon'
  <2>1. Writing(p) /\ (flushes => MayCharge(p)) /\ db' = IF flushes THEN Charge(p) ELSE db
    BY <1>3 DEF PutBytes, Writing
  <2>2. Still(db, db')
    BY <1>1, <2>1, StillCharged
  <2>3. QED
    BY <1>3, <2>2, StillCanon DEF PutBytes, historyVars
<1>4. ASSUME PutFail(p) PROVE Canon'
  <2>1. /\ Writing(p) /\ GivesUp(p, db, put[p].charged) /\ journal' = journal
        /\ purged' = purged /\ status' = status
    BY <1>4 DEF PutFail, Writing, GivesUp, historyVars
  <2>2. put[p].charged \in 0..1 /\ db.upload[put[p].upload].state # "none" /\ IndexOK(db)
    BY <2>1 DEF DriveInv, PutOK
  <2>3. Still(db, db')
    BY <1>1, <2>1, <2>2, StillGivesUp
  <2>4. QED
    BY <2>1, <2>3, StillCanon
<1>5. ASSUME PutReplayed(p) PROVE Canon'
  <2>1. Writing(p) /\ MayCharge(p) /\ db' = Charge(p)
    BY <1>5 DEF PutReplayed, Finishing, Writing
  <2>2. Still(db, db')
    BY <2>1, StillCharged
  <2>3. QED
    BY <1>5, <2>2, StillCanon DEF PutReplayed, historyVars
<1>6. ASSUME PutRefused(p) PROVE Canon'
  <2>1. Finishing(p) /\ GivesUp(p, Charge(p), 1) /\ journal' = journal
    BY <1>6 DEF PutRefused
  <2>2. purged' = purged /\ status' = status
    BY <2>1 DEF GivesUp, historyVars
  <2>3. Still(db, db')
    <3>1. /\ Writing(p) /\ MayCharge(p) /\ IndexOK(Charge(p)) /\ Going(db, Charge(p))
          /\ put[p].upload \in Upload /\ db.upload[put[p].upload].state # "none"
      BY <2>1, FinishingOK DEF Finishing
    <3>2. Charge(p).upload[put[p].upload].state # "none"
      BY <3>1 DEF Going, GoesOn
    <3>3. 1 \in 0..1
      OBVIOUS
    <3>4. QED
      BY <2>1, <3>1, <3>2, <3>3, StillCharged, StillGivesUp
  <2>4. QED
    BY <2>1, <2>2, <2>3, StillCanon
<1>7. QED
  BY <1>2, <1>3, <1>4, <1>5, <1>6

(* Ending a session, by call, by time or by a crash, moves no pointer.     *)
LEMMA SessionCanon ==
  ASSUME DriveInv, SurvivalInv, Canon,
         (\E u \in Upload : AbortUpload(u) \/ Elapse(u)) \/ Sweep \/ CrashIdle
  PROVE  Canon'
<1>1. db \in Index /\ IndexOK(db)
  BY DEF DriveInv, IndexOK
<1>2. ASSUME NEW u \in Upload, AbortUpload(u) PROVE Canon'
  <2>1. Still(db, db')
    BY <1>1, <1>2, StillSession DEF AbortUpload
  <2>2. QED
    BY <1>2, <2>1, StillCanon DEF AbortUpload, historyVars
<1>3. ASSUME NEW u \in Upload, Elapse(u) PROVE Canon'
  <2>1. db'.current = db.current
    BY <1>1, <1>3 DEF Elapse, Index
  <2>2. Still(db, db')
    BY <1>1, <1>3, <2>1, ElapseOK DEF Still
  <2>3. QED
    BY <1>3, <2>2, StillCanon DEF Elapse, historyVars
<1>4. ASSUME Sweep PROVE Canon'
  <2> DEFINE U == [u \in Upload |-> IF u \in Expirable
                                    THEN [db.upload[u] EXCEPT !.state = "expired"]
                                    ELSE db.upload[u]]
             e == [db EXCEPT !.upload = U]
             n == Cardinality({u \in Expirable : db.upload[u].bytes = 1})
  <2>1. db' = Released(e, n)
    BY <1>4 DEF Sweep
  <2>2. \A u \in Upload : /\ U[u].art = db.upload[u].art /\ U[u].name = db.upload[u].name
                          /\ U[u].state # "none" => db.upload[u].state # "none"
    BY <1>1 DEF Index, UploadRow, Expirable
  <2>3. e.upload = U /\ e.current = db.current
    BY <1>1 DEF Index
  <2>4. db'.upload = e.upload /\ db'.current = e.current
    <3> HIDE DEF U, n
    <3>1. QED
      BY <1>1, <2>1 DEF Released, Index
  <2>5. Still(db, db')
    <3> HIDE DEF U, e
    <3>1. QED
      BY <1>1, <1>4, <2>2, <2>3, <2>4, SweepOK DEF Still
  <2>6. QED
    BY <1>4, <2>5, StillCanon DEF Sweep, historyVars
<1>5. ASSUME CrashIdle PROVE Canon'
  <2>1. Still(db, db')
    BY <1>5 DEF CrashIdle, Still, Aside
  <2>2. status' = "down"
    BY <1>5 DEF CrashIdle, Dies
  <2>3. QED
    BY <1>5, <2>1, <2>2, StillCanon DEF CrashIdle, historyVars
<1>6. QED
  BY <1>2, <1>3, <1>4, <1>5

(* A registration names a new artifact with a new name, or the old one.    *)
LEMMA RegisterCanon ==
  ASSUME DriveInv, SurvivalInv, Canon, NEW u \in Upload, NEW n \in Name, NEW a \in Artifact,
         NEW t \in Tokens, Register(u, n, a, t)
  PROVE  Canon'
<1> DEFINE L == Len(journal)
           r == [state |-> "pending", art |-> a, name |-> n, token |-> t, bytes |-> 0]
<1>1. /\ db'.row = [db.row EXCEPT ![a] = n] /\ db'.versions = db.versions
      /\ db'.refs = db.refs /\ db'.fence = db.fence
  <2>1. IndexOK(db)
    BY DEF DriveInv
  <2>2. QED
    BY <2>1, RegisterOK
<1>2. /\ status = "up" /\ journal' = journal /\ status' = status /\ purged' = purged
      /\ db.row[a] = n \/ (FreshArtifact(a) /\ \A b \in Artifact : db.row[b] # n)
      /\ db' = [db EXCEPT !.row[a] = n, !.upload[u] = r]
  BY DEF Register, fileVars, historyVars
<1>3. n # None /\ db.row \in [Artifact -> Name \cup {None}] /\ db \in Index /\ IndexOK(db)
  BY DriveAssumption DEF DriveInv, IndexOK, Index
<1>4. db'.current = db.current /\ \A w \in Upload : db'.upload[w] = IF w = u THEN r ELSE db.upload[w]
  <2> HIDE DEF r
  <2>1. QED
    BY <1>2, <1>3 DEF Index
<1>5. \A b \in Artifact : db'.row[b] = IF b = a THEN n ELSE db.row[b]
  BY <1>1, <1>3
<1>6. WellWritten(journal) /\ Drawn(db, journal) /\ Titled(db) /\ Read(db, journal, L)
  BY <1>2 DEF Canon
<1>7. CASE db.row[a] = n
  <2>1. \A b \in Artifact : db'.row[b] = db.row[b]
    BY <1>5, <1>7
  <2>2. Drawn(db', journal)
    BY <1>1, <1>4, <1>6, <2>1 DEF Drawn, Kept
  <2>3. \A c \in CommitsOf(journal) : Has(db, c[2]) => Has(db', c[2])
    BY <1>1, <2>1 DEF Has, CommitsOf, VersionSet
  <2>4. Read(db', journal, L)
    BY <1>4, <1>6, <2>3 DEF Read
  <2>5. Titled(db')
    <3> SUFFICES ASSUME NEW w \in Upload, db'.upload[w].state # "none"
                 PROVE  db'.row[db'.upload[w].art] = db'.upload[w].name
      BY DEF Titled
    <3>1. CASE w = u
      BY <1>4, <1>5, <3>1
    <3>2. CASE w # u
      <4>1. db.upload[w].state # "none" /\ db'.upload[w] = db.upload[w]
        BY <1>4, <3>2
      <4>2. db.upload[w].art \in Artifact
        BY <1>3, <4>1 DEF IndexOK, Registered
      <4>3. QED
        BY <1>6, <2>1, <4>1, <4>2 DEF Titled
    <3>3. QED
      BY <3>1, <3>2
  <2>6. L \in 0..L
    BY LenProperties DEF DriveInv
  <2>7. QED
    BY <1>2, <1>6, <2>2, <2>4, <2>5, <2>6 DEF Canon
<1>8. CASE FreshArtifact(a) /\ \A b \in Artifact : db.row[b] # n
  <2>1. db.row[a] = None
    BY <1>8 DEF FreshArtifact
  <2>2. ASSUME NEW c \in CommitsOf(journal)
        PROVE  c[2].art # a /\ journal[c[1]].name # n /\ c[2].art \in Artifact /\ Has(db, c[2])
    <3>1. /\ c[1] \in DOMAIN journal /\ journal[c[1]].type = "committed"
          /\ journal[c[1]].v = c[2] /\ c[2].art \in Artifact
      BY SaidOf DEF VersionSet
    <3>2. c[2].art # a
      BY <1>8, <3>1 DEF FreshArtifact
    <3>3. c[1] <= L
      BY <3>1, LenProperties DEF DriveInv
    <3>4. Has(db, c[2])
      BY <1>6, <3>3 DEF Read
    <3>5. db.row[c[2].art] = journal[c[1]].name
      BY <1>6, <3>1, <3>4 DEF Drawn, Has
    <3>6. QED
      BY <1>8, <3>1, <3>2, <3>4, <3>5
  <2>3. ASSUME NEW b \in Artifact, NEW c \in Artifact, db'.row[b] # None, db'.row[b] = db'.row[c]
        PROVE  b = c
    BY <1>5, <1>6, <1>8, <2>3 DEF Drawn
  <2>4. ASSUME NEW b \in Artifact, NEW c \in CommitsOf(journal), db'.row[b] # None
        PROVE  db'.row[b] = journal[c[1]].name <=> b = c[2].art
    <3>1. CASE b = a
      BY <1>5, <2>2, <3>1
    <3>2. CASE b # a
      BY <1>5, <1>6, <2>4, <3>2 DEF Drawn
    <3>3. QED
      BY <3>1, <3>2
  <2>5. \A b \in Artifact : db'.row[b] = None => db'.current[b] = None
    BY <1>3, <1>4, <1>5, <1>6 DEF Drawn
  <2>6. Drawn(db', journal)
    BY <1>1, <1>6, <2>3, <2>4, <2>5 DEF Drawn, Kept
  <2>7. \A c \in CommitsOf(journal) : Has(db', c[2])
    BY <1>1, <1>5, <2>2 DEF Has
  <2>8. Read(db', journal, L)
    BY <1>4, <1>6, <2>7 DEF Read
  <2>9. Titled(db')
    <3> SUFFICES ASSUME NEW w \in Upload, db'.upload[w].state # "none"
                 PROVE  db'.row[db'.upload[w].art] = db'.upload[w].name
      BY DEF Titled
    <3>1. CASE w = u
      BY <1>4, <1>5, <3>1
    <3>2. CASE w # u
      <4>1. db.upload[w].state # "none" /\ db'.upload[w] = db.upload[w]
        BY <1>4, <3>2
      <4>2. db.upload[w].art \in Artifact /\ db.upload[w].name \in Name
        BY <1>3, <4>1 DEF IndexOK, Registered
      <4>3. db.row[db.upload[w].art] = db.upload[w].name
        BY <1>6, <4>1 DEF Titled
      <4>4. db.upload[w].art # a
        BY <2>1, <4>2, <4>3, DriveAssumption
      <4>5. QED
        BY <1>5, <4>1, <4>2, <4>3, <4>4
    <3>3. QED
      BY <3>1, <3>2
  <2>10. L \in 0..L
    BY LenProperties DEF DriveInv
  <2>11. QED
    BY <1>2, <1>6, <2>6, <2>8, <2>9, <2>10 DEF Canon
<1>9. QED
  BY <1>2, <1>7, <1>8

-----------------------------------------------------------------------------
(* Steps that write a line.                                                *)

(* While the service runs, every commit is in the index, and its name is   *)
(* the one of the row.                                                     *)
LEMMA AllRead ==
  ASSUME DriveInv, Canon, status = "up"
  PROVE  /\ Read(db, journal, Len(journal))
         /\ \A c \in CommitsOf(journal) : Has(db, c[2])
<1>1. Read(db, journal, Len(journal))
  BY DEF Canon
<1>2. \A c \in CommitsOf(journal) : c[1] <= Len(journal)
  BY LenProperties DEF DriveInv, CommitsOf
<1>3. QED
  BY <1>1, <1>2 DEF Read

(* A blocked commit calls off what was never committed.                    *)
LEMMA PutBlockedCanon ==
  ASSUME DriveInv, SurvivalInv, Canon, NEW p \in Put, PutBlocked(p)
  PROVE  Canon'
<1> DEFINE line == AbortedLine(p)
<1>1. /\ Finishing(p) /\ journal' \in Appended(line) /\ GivesUp(p, Charge(p), 1)
      /\ status = "up" /\ status' = status /\ purged' = purged
  BY FinishingOK DEF PutBlocked, GivesUp, historyVars
<1>2. Still(db, db')
  <2>1. /\ Writing(p) /\ MayCharge(p) /\ IndexOK(Charge(p)) /\ Going(db, Charge(p))
        /\ put[p].upload \in Upload /\ db.upload[put[p].upload].state # "none"
    BY <1>1, FinishingOK DEF Finishing
  <2>2. Charge(p).upload[put[p].upload].state # "none"
    BY <2>1 DEF Going, GoesOn
  <2>3. 1 \in 0..1
    OBVIOUS
  <2>4. QED
    BY <1>1, <2>1, <2>2, <2>3, StillCharged, StillGivesUp
<1>3. line \in LineSet /\ line.type = "aborted" /\ line.id = p
  BY DEF LineSet, AbortedLine
<1> HIDE DEF line
<1>4. OneMore(journal, journal', line)
  BY <1>1, <1>3, AppendedOne DEF DriveInv, Canon
<1>5. \A v, n : line # CommittedLine(v, n)
  BY LinesSay DEF line
<1>6. WellWritten(journal')
  <2>1. \A id : line = AbortedLine(id) => id = p
    BY LinesSay DEF line
  <2>2. \A c \in CommitsOf(journal) : c[2].id # p
    BY <1>1, FreshVersion DEF Used
  <2>3. QED
    BY <1>3, <1>4, <2>1, <2>2, WellMore DEF Canon
<1>7. Drawn(db', journal) /\ Titled(db') /\ db'.current = db.current /\ \A v : Has(db, v) => Has(db', v)
  BY <1>2, StillDrawn DEF Canon
<1>8. Drawn(db', journal')
  BY <1>4, <1>5, <1>7, DrawnMore
<1>9. Read(db', journal', Len(journal'))
  <2>1. \A a : ~Concerns(line, a)
    BY <1>3 DEF Concerns, Moves
  <2>2. QED
    BY <1>1, <1>4, <1>5, <1>7, <2>1, AllRead, ReadLast
<1>10. Len(journal') \in 0..Len(journal')
  BY <1>4, LenProperties DEF OneMore
<1>11. QED
  BY <1>1, <1>6, <1>7, <1>8, <1>9, <1>10 DEF Canon

(* The line of a commit goes on well from those before it.                 *)
LEMMA CommitLine ==
  ASSUME DriveInv, SurvivalInv, Canon, NEW p \in Put, Finishing(p), Insertable(db, VersionOf(p)),
         journal' \in Appended(LineOf(p))
  PROVE  \E n \in Name :
           /\ LineOf(p) = CommittedLine(VersionOf(p), n) /\ OneMore(journal, journal', LineOf(p))
           /\ WellWritten(journal')
           /\ \A a \in Artifact : db.row[a] # None => (db.row[a] = n <=> a = VersionOf(p).art)
<1> DEFINE v == VersionOf(p)
           u == put[p].upload
           n == db.upload[u].name
           line == LineOf(p)
<1>1. /\ u \in Upload /\ status = "up" /\ db.upload[u].state # "none"
      /\ v \in VersionSet /\ v.id = p /\ ~Used(p) /\ line \in LineSet
  BY FinishingOK, FreshVersion, VersionOK
<1>2. line = CommittedLine(v, n) /\ v.art = db.upload[u].art /\ v.seq = NextSeq(db, v.art)
  BY DEF LineOf, VersionOf
<1>3. n \in Name /\ v.art \in Artifact
  BY <1>1, <1>2 DEF DriveInv, IndexOK, Registered
<1>4. db.row[v.art] = n /\ db.row[v.art] # None
  BY <1>1, <1>2 DEF Canon, Titled, Insertable
<1> HIDE DEF v, u, n, line
<1>5. Drawn(db, journal) /\ WellWritten(journal) /\ \A c \in CommitsOf(journal) : Has(db, c[2])
  BY <1>1, AllRead DEF Canon
<1>6. OneMore(journal, journal', line)
  BY <1>1, AppendedOne DEF DriveInv, Canon, line
<1>7. \A a \in Artifact : db.row[a] # None => (db.row[a] = n <=> a = v.art)
  BY <1>3, <1>4, <1>5 DEF Drawn
<1>8. ASSUME NEW c \in CommitsOf(journal)
      PROVE  /\ c[2].art = v.art => c[2].seq < v.seq
             /\ journal[c[1]].name = n <=> c[2].art = v.art
  <2>1. journal[c[1]].name = n <=> c[2].art = v.art
    BY <1>3, <1>4, <1>5 DEF Drawn
  <2>2. ASSUME c[2].art = v.art PROVE c[2].seq < v.seq
    <3>1. c[2] \in RowsOf(db, v.art)
      BY <1>5, <2>2 DEF Has, RowsOf
    <3>2. QED
      BY <1>2, <3>1, NextSeqOK DEF DriveInv
  <2>3. QED
    BY <2>1, <2>2
<1>9. ~Called(journal, v.id)
  BY <1>1 DEF Used
<1>10. WellWritten(journal')
  BY <1>1, <1>2, <1>3, <1>5, <1>6, <1>8, <1>9, WellCommits
<1>11. QED
  BY <1>2, <1>3, <1>6, <1>7, <1>10 DEF v, line

(* A commit.                                                               *)
LEMMA PutCommittedCanon ==
  ASSUME DriveInv, SurvivalInv, Canon, NEW p \in Put, PutCommitted(p)
  PROVE  Canon'
<1> DEFINE u == put[p].upload
           v == VersionOf(p)
           c == Charge(p)
           line == LineOf(p)
<1>1. /\ Finishing(p) /\ Insertable(db, v) /\ db' = Committed(c, u, v)
      /\ journal' \in Appended(line) /\ UNCHANGED <<status, purged>>
  BY DEF PutCommitted, Commits
<1>2. /\ u \in Upload /\ status = "up" /\ IndexOK(c) /\ Still(db, c)
      /\ db.upload[u].state # "none" /\ Going(db, c)
  BY <1>1, FinishingOK, StillCharged DEF Finishing
<1>3. v \in VersionSet /\ v.id = p /\ v.art = db.upload[u].art
  BY <1>1, FreshVersion DEF VersionOf
<1>4. PICK n \in Name :
        /\ line = CommittedLine(v, n) /\ OneMore(journal, journal', line)
        /\ WellWritten(journal')
        /\ \A a \in Artifact : db.row[a] # None => (db.row[a] = n <=> a = v.art)
  BY <1>1, CommitLine
<1>5. line.type = "committed" /\ line.v = v
  BY <1>4 DEF CommittedLine
<1>6. db.row[v.art] # None
  BY <1>1 DEF Insertable
<1> HIDE DEF u, v, c, line
<1>7. c \in Index /\ v.art \in Artifact /\ v.sha \in Sha /\ v.token \in Tokens
  BY <1>2, <1>3 DEF IndexOK, VersionSet
<1>8. /\ db'.versions = c.versions \cup {v} /\ db'.row = c.row
      /\ db'.fence = Raised(c, v.token)
      /\ db'.current = [c.current EXCEPT ![v.art] = v.id]
      /\ db'.refs = [c.refs EXCEPT ![v.sha] = IF @ = -1 THEN 1 ELSE @ + 1]
      /\ db'.upload = [c.upload EXCEPT ![u].state = "committed"]
  BY <1>1, <1>7 DEF Committed, Index
<1>9. /\ Drawn(c, journal) /\ Titled(c) /\ c.row = db.row /\ Read(c, journal, Len(journal))
  BY <1>2, StillDrawn, AllRead DEF Canon, Still, Aside
<1>10. Drawn(c, journal')
  <2>1. \A w, m : line = CommittedLine(w, m) => w = v /\ m = n
    BY <1>4 DEF CommittedLine
  <2>2. QED
    BY <1>4, <1>9, <2>1, DrawnMore
<1>11. \E x \in CommitsOf(journal') : x[2] = v
  <2>1. Len(journal') \in DOMAIN journal' /\ journal'[Len(journal')] = line
    <3>1. Len(journal) \in Nat /\ DOMAIN journal' = 1..Len(journal')
      BY <1>4, OneMoreSays
    <3>2. QED
      BY <1>4, <3>1 DEF OneMore
  <2>2. Len(journal') \in Nat
    BY <1>4, LenProperties DEF OneMore
  <2>3. <<Len(journal'), v>> \in CommitsOf(journal')
    BY <1>3, <1>4, <2>1, <2>2 DEF CommitsOf
  <2>4. QED
    BY <2>3
<1>12. /\ db'.fence >= c.fence /\ (v.token # None => db'.fence >= v.token)
       /\ db'.fence = c.fence \/ (v.token # None /\ db'.fence = v.token)
  BY <1>7, <1>8, FenceRises, RaisedIs DEF Index
<1>13. Drawn(db', journal')
  <2>1. \A w \in Kept(db') : \E x \in CommitsOf(journal') : x[2] = w
    BY <1>8, <1>10, <1>11 DEF Drawn, Kept
  <2>2. ASSUME NEW s \in Sha, db'.refs[s] # -1 PROVE \E x \in CommitsOf(journal') : x[2].sha = s
    <3>1. s = v.sha \/ c.refs[s] # -1
      BY <1>7, <1>8, <2>2 DEF Index
    <3>2. QED
      BY <1>10, <1>11, <3>1 DEF Drawn
  <2>3. db'.fence = -1 \/ \E x \in CommitsOf(journal') : x[2].token # None /\ db'.fence = x[2].token
    BY <1>10, <1>11, <1>12 DEF Drawn
  <2>4. \A a \in Artifact : db'.row[a] = None => db'.current[a] = None
    BY <1>6, <1>7, <1>8, <1>9, <1>10 DEF Drawn, Index
  <2>5. QED
    BY <1>8, <1>10, <2>1, <2>2, <2>3, <2>4 DEF Drawn
<1>14. Titled(db')
  <2>1. \A w \in Upload : /\ db'.upload[w].art = c.upload[w].art
                          /\ db'.upload[w].name = c.upload[w].name
                          /\ w # u => db'.upload[w].state = c.upload[w].state
    BY <1>7, <1>8 DEF Index, UploadRow
  <2>2. c.upload[u].state # "none"
    BY <1>2 DEF Going, GoesOn
  <2>3. QED
    BY <1>8, <1>9, <2>1, <2>2 DEF Titled
<1>15. Read(db', journal', Len(journal'))
  <2>1. db' \in Index
    <3>1. c.upload[u].state # "none"
      BY <1>2 DEF Going, GoesOn
    <3>2. IndexOK(db')
      BY <1>1, <1>2, <1>3, <3>1, CommittedOK
    <3>3. QED
      BY <3>2 DEF IndexOK
  <2>2. ASSUME NEW w \in VersionSet, Has(c, w) PROVE Has(db', w)
    BY <1>7, <1>8, <1>12, <2>1, <2>2, HasMore
  <2>3. Has(db', v)
    BY <1>6, <1>8, <1>9, <1>12 DEF Has
  <2>4. \A w, m : line = CommittedLine(w, m) => w = v
    BY <1>4 DEF CommittedLine
  <2>5. \A a \in Artifact : db'.current[a] = IF Concerns(line, a) THEN Says(line) ELSE c.current[a]
    <3>1. Says(line) = v.id /\ \A a : Concerns(line, a) <=> v.art = a
      BY <1>5 DEF Says, Concerns, Moves
    <3>2. QED
      BY <1>7, <1>8, <3>1 DEF Index
  <2>6. QED
    BY <1>4, <1>9, <2>2, <2>3, <2>4, <2>5, ReadLast
<1>16. Len(journal') \in 0..Len(journal')
  BY <1>4, LenProperties DEF OneMore
<1>17. QED
  BY <1>1, <1>4, <1>13, <1>14, <1>15, <1>16 DEF Canon

(* A crash in a commit: the line is there, and not yet read.               *)
LEMMA CrashInCommitCanon ==
  ASSUME DriveInv, SurvivalInv, Canon, NEW p \in Put, NEW renamed \in BOOLEAN,
         CrashInCommit(p, renamed)
  PROVE  Canon'
<1> DEFINE v == VersionOf(p)
           line == LineOf(p)
<1>1. /\ Finishing(p) /\ Insertable(db, v) /\ db' = Charge(p) /\ journal' \in Appended(line)
      /\ status' = "down" /\ purged' = purged
  BY DEF CrashInCommit, Commits, Dies, historyVars
<1>2. status = "up" /\ Still(db, db')
  BY <1>1, FinishingOK, StillCharged DEF Finishing
<1>3. PICK n \in Name :
        /\ line = CommittedLine(v, n) /\ OneMore(journal, journal', line)
        /\ WellWritten(journal')
        /\ \A a \in Artifact : db.row[a] # None => (db.row[a] = n <=> a = v.art)
  BY <1>1, CommitLine
<1> HIDE DEF v, line
<1>4. /\ Drawn(db', journal) /\ Titled(db') /\ db'.row = db.row
      /\ Read(db', journal, Len(journal))
  BY <1>2, StillDrawn, AllRead DEF Canon, Still, Aside
<1>5. Drawn(db', journal')
  <2>1. \A w, m : line = CommittedLine(w, m) => w = v /\ m = n
    BY <1>3 DEF CommittedLine
  <2>2. QED
    BY <1>3, <1>4, <2>1, DrawnMore
<1>6. Len(journal) \in 0..Len(journal)
  BY LenProperties DEF DriveInv
<1>7. Read(db', journal', Len(journal)) /\ Len(journal) \in 0..Len(journal')
  BY <1>3, <1>4, <1>6, ReadMore
<1>8. QED
  BY <1>1, <1>3, <1>4, <1>5, <1>7 DEF Canon

(* The line of a delete or a restore: the artifact it is of, and what it   *)
(* says.                                                                   *)
PointerLine(line, a, id) ==
  /\ line.type \in {"delete", "move"} /\ line.art = a /\ Says(line) = id
  /\ a \in Artifact /\ line \in LineSet
  /\ line.type = "move" => \E v \in Kept(db) : v.id = line.id /\ v.art = a /\ id = v.id

(* Such a line goes on well from those before it.                          *)
LEMMA PointerWritten ==
  ASSUME DriveInv, Canon, status = "up", NEW line, NEW a, NEW id, PointerLine(line, a, id),
         journal' \in Appended(line)
  PROVE  /\ OneMore(journal, journal', line) /\ WellWritten(journal') /\ Drawn(db, journal')
         /\ \A v, n : line # CommittedLine(v, n)
         /\ \A b : Concerns(line, b) <=> b = a
         /\ Len(journal) \in 0..Len(journal) /\ Len(journal') \in 0..Len(journal')
<1>1. line.type \in {"delete", "move"} /\ line.art = a /\ line \in LineSet
  BY DEF PointerLine
<1>2. OneMore(journal, journal', line)
  BY <1>1, AppendedOne DEF DriveInv, Canon
<1>3. \A v, n, id2 : line # CommittedLine(v, n) /\ line # AbortedLine(id2)
  <2>1. \A v, n, id2 : CommittedLine(v, n).type = "committed" /\ AbortedLine(id2).type = "aborted"
    BY DEF CommittedLine, AbortedLine
  <2>2. QED
    BY <1>1, <2>1
<1>4. ASSUME line.type = "move"
      PROVE  \E c \in CommitsOf(journal) : c[2].id = line.id /\ c[2].art = line.art
  <2>1. PICK v \in Kept(db) : v.id = line.id /\ v.art = a
    BY <1>4 DEF PointerLine
  <2>2. PICK c \in CommitsOf(journal) : c[2] = v
    BY DEF Canon, Drawn
  <2>3. QED
    BY <1>1, <2>1, <2>2
<1>5. WellWritten(journal')
  BY <1>1, <1>2, <1>3, <1>4, WellMore DEF Canon
<1>6. Drawn(db, journal')
  BY <1>2, <1>3, DrawnMore DEF Canon
<1>7. \A b : Concerns(line, b) <=> b = a
  BY <1>1 DEF Concerns, Moves
<1>8. Len(journal) \in 0..Len(journal) /\ Len(journal') \in 0..Len(journal')
  BY <1>2, LenProperties DEF OneMore
<1>9. QED
  BY <1>2, <1>3, <1>5, <1>6, <1>7, <1>8

(* The pointer moves with its line; or the line alone is there.            *)
LEMMA PointerCanon ==
  ASSUME DriveInv, Canon, status = "up", NEW line, NEW a, NEW id, PointerLine(line, a, id),
         journal' \in Appended(line), purged' = purged, status' = "up",
         Kept(db') = Kept(db), db.versions \subseteq db'.versions, db'.row = db.row,
         db'.refs = db.refs, db'.fence = db.fence, db'.upload = db.upload,
         \A b \in Artifact : db'.current[b] = IF b = a THEN id ELSE db.current[b],
         db.row[a] # None
  PROVE  Canon'
<1>1. /\ OneMore(journal, journal', line) /\ WellWritten(journal') /\ Drawn(db, journal')
      /\ \A v, n : line # CommittedLine(v, n)
      /\ \A b : Concerns(line, b) <=> b = a
      /\ Len(journal') \in 0..Len(journal')
  BY PointerWritten
<1>2. Drawn(db', journal')
  BY <1>1 DEF Drawn
<1>3. Titled(db')
  BY DEF Canon, Titled
<1>4. \A v \in VersionSet : Has(db, v) => Has(db', v)
  BY DEF Has
<1>5. \A b \in Artifact : db'.current[b] = IF Concerns(line, b) THEN Says(line) ELSE db.current[b]
  BY <1>1 DEF PointerLine
<1>6. Read(db', journal', Len(journal'))
  BY <1>1, <1>4, <1>5, AllRead, ReadLast
<1>7. QED
  BY <1>1, <1>2, <1>3, <1>6 DEF Canon

(* A crash after the line of a move: the index is one line behind.         *)
LEMMA CrashInPointerCanon ==
  ASSUME DriveInv, SurvivalInv, Canon, NEW line, NEW a, NEW id, PointerLine(line, a, id),
         CrashInPointer(line)
  PROVE  Canon'
<1>1. /\ status = "up" /\ status' = "down" /\ journal' \in Appended(line) /\ db' = db
      /\ purged' = purged
  BY DEF CrashInPointer, Dies, historyVars
<1>2. /\ OneMore(journal, journal', line) /\ WellWritten(journal') /\ Drawn(db, journal')
      /\ Len(journal) \in 0..Len(journal)
  BY <1>1, PointerWritten
<1>3. Read(db, journal', Len(journal)) /\ Len(journal) \in 0..Len(journal')
  BY <1>1, <1>2, AllRead, ReadMore
<1>4. QED
  BY <1>1, <1>2, <1>3 DEF Canon, Titled

(* The lines of a delete and of a restore.                                 *)
LEMMA DeleteIsPointer ==
  ASSUME NEW a \in Artifact
  PROVE  PointerLine(DeleteLine(a), a, None)
<1>1. DeleteLine(a).type = "delete" /\ DeleteLine(a).art = a /\ DeleteLine(a) \in LineSet
  BY DEF DeleteLine, LineSet
<1>2. QED
  BY <1>1 DEF PointerLine, Says

(* A restore goes to a version that was kept.                              *)
LEMMA MoveIsPointer ==
  ASSUME DriveInv, NEW v \in db.versions, v.sha # None
  PROVE  PointerLine(MoveLine(v.art, v.id), v.art, v.id)
<1> DEFINE line == MoveLine(v.art, v.id)
<1>1. line.type = "move" /\ line.art = v.art /\ line.id = v.id
  BY DEF MoveLine
<1>2. v.art \in Artifact /\ line \in LineSet
  BY MoveLineOK
<1> HIDE DEF line
<1>3. v \in Kept(db) /\ Says(line) = v.id
  BY <1>1 DEF Kept, Says
<1>4. QED
  BY <1>1, <1>2, <1>3 DEF PointerLine, line

(* A delete marker keeps no bytes, and its pointer goes to none.           *)
LEMMA DeleteMarkerCanon ==
  ASSUME DriveInv, SurvivalInv, Canon, NEW a \in Artifact, DeleteMarker(a)
  PROVE  Canon'
<1> DEFINE n == NextSeq(db, a)
           m == [id |-> <<a, n>>, art |-> a, seq |-> n,
                 sha |-> None, op |-> <<a, n>>, token |-> None]
<1>1. /\ status = "up" /\ db.row[a] # None /\ journal' \in Appended(DeleteLine(a))
      /\ db' = [db EXCEPT !.versions = @ \cup {m}, !.current[a] = None]
      /\ status' = "up" /\ purged' = purged
  BY DEF DeleteMarker, historyVars
<1>2. m.sha = None
  OBVIOUS
<1> HIDE DEF m
<1>3. db \in Index
  BY DEF DriveInv, IndexOK
<1>4. /\ db'.versions = db.versions \cup {m} /\ db'.row = db.row /\ db'.refs = db.refs
      /\ db'.fence = db.fence /\ db'.upload = db.upload
      /\ \A b \in Artifact : db'.current[b] = IF b = a THEN None ELSE db.current[b]
  BY <1>1, <1>3 DEF Index
<1>5. Kept(db') = Kept(db)
  BY <1>2, <1>4 DEF Kept
<1>6. PointerLine(DeleteLine(a), a, None)
  BY DeleteIsPointer
<1>7. db.versions \subseteq db'.versions
  BY <1>4
<1>8. QED
  BY <1>1, <1>4, <1>5, <1>6, <1>7, PointerCanon

(* A restore moves the pointer of its artifact, and nothing else.          *)
LEMMA RestoreCanon ==
  ASSUME DriveInv, SurvivalInv, Canon, NEW v \in db.versions, Restore(v)
  PROVE  Canon'
<1>1. /\ status = "up" /\ v.sha # None /\ journal' \in Appended(MoveLine(v.art, v.id))
      /\ db' = [db EXCEPT !.current[v.art] = v.id] /\ status' = "up" /\ purged' = purged
  BY DEF Restore, historyVars
<1>2. db \in Index /\ v.art \in Artifact
  BY <1>1, MoveLineOK DEF DriveInv, IndexOK
<1>3. /\ db'.versions = db.versions /\ db'.row = db.row /\ db'.refs = db.refs
      /\ db'.fence = db.fence /\ db'.upload = db.upload
      /\ \A b \in Artifact : db'.current[b] = IF b = v.art THEN v.id ELSE db.current[b]
  BY <1>1, <1>2 DEF Index
<1>4. Kept(db') = Kept(db) /\ db.versions \subseteq db'.versions
  BY <1>3 DEF Kept
<1>5. PointerLine(MoveLine(v.art, v.id), v.art, v.id)
  BY <1>1, MoveIsPointer
<1>6. db.row[v.art] # None
  BY DEF SurvivalInv, Rooted
<1>7. QED
  BY <1>1, <1>3, <1>4, <1>5, <1>6, PointerCanon

(* An index that is lost has read nothing.                                 *)
LEMMA LoseIndexCanon ==
  ASSUME DriveInv, SurvivalInv, Canon, unlogged = {}, LoseIndex
  PROVE  Canon'
<1>1. db' = EmptyIndex /\ status' = "down" /\ journal' = journal /\ purged' = purged
  BY DEF LoseIndex, historyVars
<1>2. InOrder(journal) /\ journal \in Seq(LineSet)
  BY DEF SurvivalInv, Canon, Intact, DriveInv
<1>3. Drawn(EmptyIndex, journal) /\ Read(EmptyIndex, journal, 0) /\ 0 \in 0..Len(journal)
  BY <1>2, EmptyReads
<1>4. Titled(EmptyIndex)
  BY DEF Titled, EmptyIndex, NoUpload
<1>5. QED
  BY <1>1, <1>3, <1>4 DEF Canon

(* A boot reads the journal, all of it.                                    *)
LEMMA BootCanon ==
  ASSUME DriveInv, SurvivalInv, Canon, unlogged = {}, Boot
  PROVE  Canon'
<1> DEFINE r == Replay(db)
           d == r.d
           e == Recounted(d)
<1>1. /\ status = "down" /\ journal' = journal /\ purged' = purged
      /\ r.ok => db' = e /\ status' = "up"
  BY DEF Boot, historyVars
<1>2. PICK m \in 0..Len(journal) : Read(db, journal, m)
  BY DEF Canon
<1>3. Takes(db)
  BY <1>1, BootTakes DEF Canon, Intact
<1>4. /\ journal \in Seq(LineSet) /\ WellWritten(journal) /\ Placed(journal)
      /\ IndexOK(db) /\ RefsExact(db) /\ Named(db) /\ Drawn(db, journal)
      /\ Rooted(db)
  BY ExactNamed DEF DriveInv, SurvivalInv, IdsOK, Canon
<1>5. /\ r.ok /\ IndexOK(d) /\ Named(d) /\ Drawn(d, journal)
      /\ Read(d, journal, Len(journal)) /\ KeepsRows(db, d)
  BY <1>2, <1>3, <1>4, ReplaysAll
<1>6. d.upload = db.upload
  <2>1. Follows(db, d, Len(journal))
    BY <1>4, <1>5, ReplayFollows DEF SurvivalInv, IdsOK
  <2>2. QED
    BY <2>1 DEF Follows
<1> HIDE DEF d
<1>7. /\ e.versions = d.versions /\ e.current = d.current /\ e.fence = d.fence
      /\ e.row = d.row /\ e.upload = d.upload
      /\ \A s \in Sha : e.refs[s] # -1 => d.refs[s] # -1
  <2>1. \A s \in Sha : Recounted(d).refs[s] # -1 => d.refs[s] # -1
    BY <1>5 DEF Recounted, IndexOK, Index
  <2>2. QED
    BY <1>5, <2>1 DEF Recounted, IndexOK, Index
<1> HIDE DEF e
<1>8. Drawn(e, journal)
  BY <1>5, <1>7 DEF Drawn, Kept
<1>9. Read(e, journal, Len(journal))
  BY <1>5, <1>7 DEF Read, Has
<1>10. Titled(e)
  <2> SUFFICES ASSUME NEW u \in Upload, db.upload[u].state # "none"
               PROVE  d.row[db.upload[u].art] = db.upload[u].name
    BY <1>6, <1>7 DEF Titled
  <2>1. db.upload[u].art \in Artifact /\ db.upload[u].name \in Name
    BY <1>4 DEF IndexOK, Registered
  <2>2. db.row[db.upload[u].art] = db.upload[u].name
    BY DEF Canon, Titled
  <2>3. QED
    BY <1>5, <2>1, <2>2, DriveAssumption DEF KeepsRows
<1>11. Len(journal) \in 0..Len(journal)
  BY <1>4, LenProperties
<1>12. QED
  BY <1>1, <1>4, <1>5, <1>8, <1>9, <1>10, <1>11 DEF Canon

-----------------------------------------------------------------------------
(* The journal is canonical.                                               *)

(* What is left of the bounds only falls.                                  *)
LeftBounded ==
  /\ left \in [{"crash", "torn", "loss", "io", "purge", "operator"} -> Nat]
  /\ \A what \in DOMAIN left : left[what] <= Bound[what]
Falls == \A what \in DOMAIN left : left'[what] <= left[what]

(* Spending from one bound leaves the others, and that one below its start. *)
LEMMA SpendFalls ==
  ASSUME LeftBounded, NEW what \in {"crash", "torn", "loss", "io", "purge", "operator"}, Spend(what)
  PROVE  LeftBounded' /\ Falls /\ left'[what] < Bound[what]
<1>1. /\ left[what] \in Nat /\ left[what] > 0 /\ left' = [left EXCEPT ![what] = @ - 1]
      /\ Bound \in [{"crash", "torn", "loss", "io", "purge", "operator"} -> Nat]
  BY DriveAssumption DEF LeftBounded, Spend
<1>2. left[what] - 1 \in Nat
  BY <1>1
<1>3. left' \in [{"crash", "torn", "loss", "io", "purge", "operator"} -> Nat]
  BY <1>1, <1>2 DEF LeftBounded
<1>4. \A w \in DOMAIN left : left'[w] = IF w = what THEN left[w] - 1 ELSE left[w]
  BY <1>1 DEF LeftBounded
<1>5. \A w \in DOMAIN left : /\ left[w] \in Nat /\ left'[w] \in Nat /\ Bound[w] \in Nat
                             /\ left[w] <= Bound[w]
  BY <1>1, <1>3 DEF LeftBounded
<1>6. DOMAIN left' = DOMAIN left /\ what \in DOMAIN left /\ Bound' = Bound
  BY <1>3 DEF LeftBounded
<1>7. Falls
  BY <1>4, <1>5 DEF Falls
<1>8. LeftBounded'
  <2>1. \A w \in DOMAIN left' : left'[w] <= Bound[w]
    BY <1>4, <1>5, <1>6
  <2>2. QED
    BY <1>3, <2>1 DEF LeftBounded
<1>9. left'[what] < Bound[what]
  BY <1>4, <1>5, <1>6
<1>10. QED
  BY <1>7, <1>8, <1>9

(* A collection that a crash cuts short is paid for twice.                 *)
LEMMA GcFalls ==
  ASSUME LeftBounded, left["crash"] > 0, left["purge"] > 0,
         left' = [left EXCEPT !["crash"] = @ - 1, !["purge"] = @ - 1]
  PROVE  LeftBounded' /\ Falls /\ left'["purge"] < Bound["purge"]
<1> DEFINE Two == {"crash", "purge"}
<1>1. /\ \A w \in DOMAIN left : left[w] \in Nat /\ left[w] <= Bound[w] /\ Bound[w] \in Nat
      /\ Two \subseteq DOMAIN left
  BY DriveAssumption DEF LeftBounded
<1>2. /\ DOMAIN left' = DOMAIN left
      /\ \A w \in DOMAIN left : left'[w] = IF w \in Two THEN left[w] - 1 ELSE left[w]
  BY DEF LeftBounded
<1>3. \A w \in Two : left[w] > 0
  OBVIOUS
<1>4. \A w \in DOMAIN left : left'[w] \in Nat /\ left'[w] <= left[w] /\ left'[w] <= Bound[w]
  <2> SUFFICES ASSUME NEW w \in DOMAIN left
               PROVE  left'[w] \in Nat /\ left'[w] <= left[w] /\ left'[w] <= Bound[w]
    OBVIOUS
  <2> HIDE DEF Two
  <2>1. CASE w \in Two
    BY <1>1, <1>2, <1>3, <2>1
  <2>2. CASE w \notin Two
    BY <1>1, <1>2, <2>2
  <2>3. QED
    BY <2>1, <2>2
<1>5. left'["purge"] < Bound["purge"]
  <2>1. "purge" \in Two
    OBVIOUS
  <2> HIDE DEF Two
  <2>2. QED
    BY <1>1, <1>2, <1>3, <2>1
<1>6. left' \in [{"crash", "torn", "loss", "io", "purge", "operator"} -> Nat]
  <2>1. left' = [w \in DOMAIN left' |-> left'[w]]
    BY DEF LeftBounded
  <2> HIDE DEF Two
  <2>2. QED
    BY <1>2, <1>4, <2>1 DEF LeftBounded
<1>7. Bound' = Bound
  OBVIOUS
<1>8. QED
  <2> HIDE DEF Two
  <2>1. QED
    BY <1>2, <1>4, <1>5, <1>6, <1>7 DEF LeftBounded, Falls

(* Where no commit fails, no append is cut and nothing is purged, none was *)
(* before, and the step is no fault of these.                              *)
LEMMA LeftSteps ==
  ASSUME LeftBounded, [Next]_vars
  PROVE  /\ LeftBounded' /\ Falls
         /\ Untouched' => /\ ~GcPhase2
                          /\ \A p \in Put : ~CrashInAppend(p)
                          /\ \A p \in Put, renamed, said \in BOOLEAN : ~PutIoError(p, renamed, said)
                          /\ \A p \in Put : ~PutUnwritten(p)
                          /\ \A C \in SUBSET Artifact, L, B, F \in SUBSET Sha : ~CrashInGc(C, L, B, F)
<1> DEFINE Paid(what) == LeftBounded' /\ Falls /\ left'[what] < Bound[what]
           Kinds == {"crash", "torn", "loss", "io", "purge", "operator"}
<1>1. \A what \in Kinds : Spend(what) => Paid(what)
  BY SpendFalls
<1>2. \A what \in {"io", "torn", "purge"} : Paid(what) => ~Untouched'
  <2>1. \A what \in Kinds : Bound[what] \in Nat /\ Bound' = Bound
    BY DriveAssumption
  <2>2. QED
    BY <2>1 DEF Untouched
<1>3. left' = left => LeftBounded' /\ Falls
  <2>1. \A what \in DOMAIN left : left[what] \in Nat
    BY DEF LeftBounded
  <2>2. Bound' = Bound
    OBVIOUS
  <2>3. QED
    BY <2>1, <2>2 DEF LeftBounded, Falls
<1>4. GcPhase2 => Paid("purge")
  BY <1>1 DEF GcPhase2
<1>5. \A p \in Put : CrashInAppend(p) => Paid("torn")
  BY <1>1 DEF CrashInAppend
<1>6. /\ \A p \in Put, renamed, said \in BOOLEAN : PutIoError(p, renamed, said) => Paid("io")
      /\ \A p \in Put : PutUnwritten(p) => Paid("io")
  BY <1>1 DEF PutIoError, PutUnwritten
<1>7. \A C \in SUBSET Artifact, L, B, F \in SUBSET Sha : CrashInGc(C, L, B, F) => Paid("purge")
  BY GcFalls DEF CrashInGc
<1> HIDE DEF Paid
<1>8. LeftBounded' /\ Falls
  <2>1. \A what \in Kinds : Paid(what) => LeftBounded' /\ Falls
    BY DEF Paid
  <2>2. \/ left' = left \/ (\E what \in Kinds : Spend(what)) \/ GcPhase2
        \/ (\E p \in Put : CrashInAppend(p))
        \/ (\E p \in Put, renamed, said \in BOOLEAN : PutIoError(p, renamed, said))
        \/ (\E p \in Put : PutUnwritten(p))
        \/ (\E C \in SUBSET Artifact, L, B, F \in SUBSET Sha : CrashInGc(C, L, B, F))
    <3>1. CASE UNCHANGED vars
      BY <3>1 DEF vars
    <3>2. ASSUME NEW p \in Put, Streams(p)
          PROVE  \/ left' = left \/ (\E what \in Kinds : Spend(what))
                 \/ CrashInAppend(p) \/ PutUnwritten(p)
                 \/ (\E renamed, said \in BOOLEAN : PutIoError(p, renamed, said))
      BY <3>2 DEF Streams, PutOpen, PutBytes, PutFail, PutReplayed, PutRefused, PutBlocked,
                  PutCommitted, CrashInCommit
    <3>3. CASE Operates
      BY <3>3 DEF Operates, DeleteMarker, CrashInPointer, Restore
    <3>4. CASE (\E u \in Upload, n \in Name, a \in Artifact, t \in Tokens : Register(u, n, a, t))
                 \/ (\E u \in Upload : AbortUpload(u) \/ Elapse(u))
                 \/ Sweep \/ CrashIdle \/ LoseIndex \/ Boot
      BY <3>4 DEF Register, AbortUpload, Elapse, Sweep, CrashIdle, LoseIndex, Boot
    <3>5. QED
      BY <3>1, <3>2, <3>3, <3>4 DEF Next
  <2>3. "purge" \in Kinds /\ "torn" \in Kinds /\ "io" \in Kinds
    OBVIOUS
  <2> HIDE DEF Kinds
  <2>4. QED
    BY <1>1, <1>3, <1>4, <1>5, <1>6, <1>7, <2>1, <2>2, <2>3
<1>9. QED
  BY <1>2, <1>4, <1>5, <1>6, <1>7, <1>8

(* What was untouched after a step was so before it.                       *)
LEMMA UntouchedBefore ==
  ASSUME LeftBounded, Falls, Untouched'
  PROVE  Untouched
<1> SUFFICES ASSUME NEW what \in {"io", "torn", "purge"} PROVE left[what] = Bound[what]
  BY DEF Untouched
<1>1. left[what] \in Nat /\ left[what] <= Bound[what] /\ what \in DOMAIN left
  BY DEF LeftBounded
<1>2. left'[what] = Bound[what] /\ left'[what] <= left[what] /\ Bound[what] \in Nat
  BY <1>1, DriveAssumption DEF Untouched, Falls
<1>3. QED
  BY <1>1, <1>2

(* A stutter keeps it.                                                     *)
LEMMA CanonStutters == ASSUME Canon, UNCHANGED vars PROVE Canon'
<1>1. UNCHANGED <<db, journal, status, purged>>
  BY DEF vars, historyVars
<1>2. QED
  BY <1>1 DEF Canon, Titled

(* Every other step keeps the index and the journal together.              *)
LEMMA CanonKept ==
  ASSUME DriveInv, SurvivalInv, Canon, unlogged = {}, LeftBounded, [Next]_vars, Untouched'
  PROVE  Canon'
<1>1. ASSUME NEW p \in Put, Streams(p) PROVE Canon'
  BY <1>1, LeftSteps, QuietCanon, PutBlockedCanon, PutCommittedCanon, CrashInCommitCanon
     DEF Streams
<1>2. ASSUME Operates PROVE Canon'
  <2>1. ASSUME NEW a \in Artifact, DeleteMarker(a) \/ CrashInPointer(DeleteLine(a)) PROVE Canon'
    BY <2>1, DeleteMarkerCanon, DeleteIsPointer, CrashInPointerCanon
  <2>2. ASSUME NEW v \in db.versions,
               Restore(v) \/ (v.sha # None /\ CrashInPointer(MoveLine(v.art, v.id)))
        PROVE  Canon'
    BY <2>2, RestoreCanon, MoveIsPointer, CrashInPointerCanon
  <2>3. QED
    BY <1>2, <2>1, <2>2, LeftSteps DEF Operates
<1>3. CASE UNCHANGED vars
  BY <1>3, CanonStutters
<1>4. CASE Next
  BY <1>1, <1>2, <1>4, RegisterCanon, SessionCanon, LoseIndexCanon, BootCanon DEF Next
<1>5. QED
  BY <1>3, <1>4

(* Only a commit that fails leaves its line alone.                         *)
LEMMA UnloggedKept ==
  ASSUME [Next]_vars,
         \A p \in Put, renamed, said \in BOOLEAN : ~PutIoError(p, renamed, said)
  PROVE  unlogged' = unlogged
BY DEF Next, Streams, Operates, Register, PutOpen, PutBytes, PutFail, PutReplayed, PutRefused,
       PutBlocked, PutCommitted, PutUnwritten, CrashInCommit, CrashInAppend,
       DeleteMarker, CrashInPointer, Restore, GcPhase2, CrashInGc, Collects, AbortUpload,
       Elapse, Sweep, CrashIdle, LoseIndex, Boot, vars, historyVars

(* It starts so, and every step keeps it.                                  *)
LEMMA CanonStarts == Init => LeftBounded /\ CanonInv
<1> SUFFICES ASSUME Init PROVE LeftBounded /\ CanonInv
  OBVIOUS
<1>1. /\ db = EmptyIndex /\ journal = <<>> /\ status = "up" /\ purged = {} /\ left = Bound
      /\ unlogged = {}
  BY DEF Init
<1>2. LeftBounded
  BY <1>1, DriveAssumption DEF LeftBounded
<1>3. SurvivalInv
  BY SurvivalStarts
<1>4. journal \in Seq(LineSet) /\ Len(journal) = 0 /\ DOMAIN journal = {}
  BY <1>1, EmptySeq
<1>5. CommitsOf(journal) = {}
  BY <1>4 DEF CommitsOf
<1>6. WellWritten(journal) /\ InOrder(journal)
  BY <1>4, <1>5 DEF WellWritten, InOrder
<1>7. Drawn(EmptyIndex, journal) /\ Read(EmptyIndex, journal, 0) /\ 0 \in 0..Len(journal)
  BY <1>4, <1>6, EmptyReads
<1>8. Titled(EmptyIndex)
  BY DEF Titled, EmptyIndex, NoUpload
<1>9. Canon
  BY <1>1, <1>4, <1>6, <1>7, <1>8 DEF Canon
<1>10. QED
  BY <1>1, <1>2, <1>3, <1>9 DEF CanonInv

(* Every step keeps the bounds and, while nothing is touched, the rest.    *)
LEMMA CanonSteps ==
  DriveInv /\ LeftBounded /\ CanonInv /\ [Next]_vars => LeftBounded' /\ CanonInv'
<1> SUFFICES ASSUME DriveInv, LeftBounded, CanonInv, [Next]_vars
             PROVE  LeftBounded' /\ (Untouched' => unlogged' = {} /\ SurvivalInv' /\ Canon')
  BY DEF CanonInv
<1>1. LeftBounded' /\ Falls
  BY LeftSteps
<1>2. ASSUME Untouched' PROVE unlogged' = {} /\ SurvivalInv' /\ Canon'
  <2>1. unlogged = {} /\ SurvivalInv /\ Canon
    BY <1>1, <1>2, UntouchedBefore DEF CanonInv
  <2>2. Canon'
    BY <1>2, <2>1, CanonKept
  <2>3. Intact
    BY <2>1 DEF Canon, Intact
  <2>4. unlogged' = {}
    BY <1>2, <2>1, LeftSteps, UnloggedKept
  <2>5. QED
    BY <2>1, <2>2, <2>3, <2>4, SurvivalSteps
<1>3. QED
  BY <1>1, <1>2

(* While no commit has failed, no append was cut and nothing was purged,   *)
(* the index and the journal agree, line for line: what is in the one is   *)
(* drawn from the other, and what the first m lines say is in the index.   *)
THEOREM IndexAndJournalAgree == Spec => [](DriveInv /\ LeftBounded /\ CanonInv)
<1>1. Init => DriveInv /\ LeftBounded /\ CanonInv
  BY DriveStarts, CanonStarts
<1>2. DriveInv /\ LeftBounded /\ CanonInv /\ [Next]_vars => (DriveInv /\ LeftBounded /\ CanonInv)'
  BY DriveSteps, CanonSteps
<1>3. QED
  BY <1>1, <1>2, PTL DEF Spec

(* So the journal alone gives back the index of a running service, after   *)
(* any crash and any loss of it: rebuildIndex over an empty index does not *)
(* throw, and ends with the same versions, refcounts, fence and pointers.  *)
THEOREM JournalGivesIndexBack == Spec => []JournalIsCanonical
<1>1. DriveInv /\ CanonInv => JournalIsCanonical
  <2> SUFFICES ASSUME DriveInv, CanonInv, status = "up", Untouched
               PROVE  LET r == Replay(EmptyIndex) e == Recounted(r.d) IN
                      /\ r.ok /\ Kept(e) = Kept(db) /\ e.refs = db.refs /\ e.fence = db.fence
                      /\ \A v \in Kept(db) : e.current[v.art] = db.current[v.art]
    BY DEF JournalIsCanonical
  <2>1. Canon /\ InOrder(journal) /\ Placed(journal)
    BY DEF CanonInv, Canon, SurvivalInv, Intact, IdsOK
  <2>2. QED
    BY <2>1, CanonShows
<1>2. QED
  BY <1>1, IndexAndJournalAgree, PTL

=============================================================================
