------------------- MODULE SharedMemoryArbiterPatchProofs -------------------
(***************************************************************************)
(* Proof that no patch is lost or applied twice, THEOREM                   *)
(* PatchesAreNotLostHolds, of the types of the arbiter, THEOREM            *)
(* ArbiterTypeHolds, that no chunk of the shared memory is lost or freed   *)
(* twice, THEOREM ChunksAreConservedHolds, and that the service's list of  *)
(* writers follows the writers, THEOREM RegistrationsFollowWritersHolds,   *)
(* for any number of threads, reservations, buffers, writers, chunks and   *)
(* patches.                                                                *)
(***************************************************************************)
EXTENDS SharedMemoryArbiterAnswerProofs

(***************************************************************************)
(* The writers                                                             *)
(***************************************************************************)
(* What a thread is busy with is for a live writer of its own, a chunk     *)
(* that a writer waits for is within its number; the release of a writer   *)
(* and the wait for a chunk come last.                                     *)
Busy == {"return", "stall", "release"}
BusyWith(t, x) ==
  x.do \in Busy => /\ x.w \in DOMAIN writers /\ writers[x.w].thread = t
                   /\ writers[x.w].live = TRUE
                   /\ x.do = "stall" => writers[x.w].n < env.c.chunks
                   /\ x.do = "release" => writers[x.w].patches = <<>>
                   /\ x.do = "return" => x.k = CountFor(writers[x.w].patches, x.n)
Final == {"release", "stall"}
FinalLast(s) == \A i \in DOMAIN s : s[i].do \in Final => i = Len(s)
Occupied == \A t \in Threads : /\ \A x \in Elems(todo[t]) : BusyWith(t, x)
                               /\ FinalLast(todo[t])

(* The ids of the live writers differ.                                     *)
Distinct ==
  /\ arb.ids \subseteq 1 .. kMaxWriterID /\ arb.last_id \in 0 .. kMaxWriterID
  /\ \A w \in DOMAIN writers : /\ writers[w].live \in BOOLEAN
                               /\ writers[w].live => writers[w].id \in arb.ids
  /\ \A v, w \in DOMAIN writers : Live(v) /\ Live(w) /\ v # w
       => writers[v].id # writers[w].id

(* A writer has as many chunks as its scenario lets it have, and a chunk   *)
(* is free unless a writer got it that the service has not.                *)
Acquired == UNION {{w} \X (1 .. writers[w].n) : w \in DOMAIN writers}
Numbers ==
  /\ env.c \in Scenarios
  /\ Len(writers) <= env.c.writers
  /\ \A w \in DOMAIN writers : writers[w].n <= env.c.chunks
Slots ==
  /\ IsFiniteSet(Acquired) /\ free \in Nat
  /\ free + Cardinality(Acquired) = NumSlots + Len(service.landed)

(* An arbiter that stalls was bound all the time.                          *)
AlwaysBound ==
  /\ arb.was_always_bound \in BOOLEAN
  /\ arb.was_always_bound => arb.fully_bound
  /\ env.c.policy = "kStall" => arb.was_always_bound
  /\ env.claimed \subseteq env.c.targets
  /\ \A p \in arb.pending : /\ p.target \in Reservations
                            /\ arb.reservations[p.target] = Unresolved

(***************************************************************************)
(* The patches                                                             *)
(***************************************************************************)
(* The patches that a writer has are for chunks before its current one.    *)
PatchLists ==
  \A w \in DOMAIN writers :
    /\ IsSeq(writers[w].patches)
    /\ writers[w].patches # <<>> => writers[w].live
    /\ \A i \in DOMAIN writers[w].patches :
         /\ DOMAIN writers[w].patches[i] = {"n", "done"}
         /\ writers[w].patches[i].n \in 1 .. writers[w].n - Current(w)

(* The members of the request.                                             *)
EntryOf(e) == [w |-> e.w, n |-> e.n, target |-> e.target, left |-> e.left, writing |-> e.writing]
PatchOK(ws, p) ==
  /\ p = [w |-> p.w, n |-> p.n, target |-> p.target, more |-> p.more] /\ p.more \in BOOLEAN
  /\ p.w \in DOMAIN ws /\ p.n \in 1 .. ws[p.w].returned
Marked(ws, direct, e) ==
  /\ e = EntryOf(e) /\ e.writing \in BOOLEAN
  /\ e.writing => direct /\ CountFor(ws[e.w].patches, e.n) > 0
RequestIs(req) == req = [open |-> req.open, move |-> req.move, patch |-> req.patch, flush |-> req.flush]
InRequest ==
  /\ RequestIs(arb.req)
  /\ IsSeq(arb.req.patch) /\ \A i \in DOMAIN arb.req.patch : PatchOK(writers, arb.req.patch[i])
  /\ \A i \in DOMAIN arb.req.move : Marked(writers, arb.direct, arb.req.move[i])

(* The patches that messages carry arrive with or after their chunks, and  *)
(* are as many, with those of the request and of the writer, as the chunk  *)
(* misses.                                                                 *)
SentFor(wire, w, n) ==
  UNION {{i} \X PatchesIn(wire[i].req.patch, w, n) : i \in SentIn(wire)}
Owed(ws, wire, patch, w, n) ==
  CountFor(ws[w].patches, n) + Cardinality(PatchesIn(patch, w, n))
  + Cardinality(SentFor(wire, w, n))
Owing(ws, wire, patch, move) ==
  \A i \in DOMAIN move : move[i].left = Owed(ws, wire, patch, move[i].w, move[i].n)
Posted(landed, wire) ==
  \A i \in SentIn(wire) :
    /\ IsSeq(wire[i].req.patch)
    /\ \A j \in DOMAIN wire[i].req.patch :
         LET p == wire[i].req.patch[j]
         IN p.n \in Nat \ {0} /\ ArrivesBy(landed, wire, p.w, p.n, i)
Owes(ws, landed, wire, move, patch) ==
  /\ Owing(ws, wire, patch, landed) /\ Owing(ws, wire, patch, move)
  /\ \A i \in SentIn(wire) : Owing(ws, wire, patch, wire[i].req.move)
Debts ==
  /\ Posted(service.landed, Wire)
  /\ Owes(writers, service.landed, Wire, arb.req.move, arb.req.patch)

(* Patches name the target of their writer until they are sent, and the    *)
(* buffer that it stands for then.                                         *)
SettledPatches(ws, res, patch) ==
  Settled(ws, res, patch) /\ \A j \in DOMAIN patch : patch[j].w \in DOMAIN ws
PatchTargets ==
  /\ Named(writers, arb.req.patch)
  /\ \A i \in SentIn(Wire) : SettledPatches(writers, arb.reservations, Wire[i].req.patch)

(* The inductive invariant.                                                *)
Desk == Occupied /\ Distinct /\ Numbers /\ AlwaysBound /\ PatchLists
PatchInv == AnswerInv /\ Desk /\ Slots /\ InRequest /\ Debts /\ PatchTargets

(***************************************************************************)
(* The patches that messages carry                                         *)
(***************************************************************************)
PatchSeqs(wire) == IsSeq(wire) /\ \A i \in SentIn(wire) : IsSeq(wire[i].req.patch)
Carries(wire, i, w, n) == PatchesIn(wire[i].req.patch, w, n)

LEMMA SentForMembers ==
  ASSUME NEW wire, NEW w, NEW n
  PROVE  \A p : p \in SentFor(wire, w, n)
           <=> \E i \in SentIn(wire) : \E j \in Carries(wire, i, w, n) : p = <<i, j>>
BY DEF SentFor, Carries

LEMMA PatchesFinite ==
  ASSUME NEW list, IsSeq(list), NEW w, NEW n
  PROVE  IsFiniteSet(PatchesIn(list, w, n)) /\ Cardinality(PatchesIn(list, w, n)) \in Nat
BY PlacesFinite DEF PatchesIn

LEMMA SentForFinite ==
  ASSUME NEW wire, PatchSeqs(wire), NEW w, NEW n
  PROVE  IsFiniteSet(SentFor(wire, w, n)) /\ Cardinality(SentFor(wire, w, n)) \in Nat
<1> DEFINE S == SentIn(wire)
           Part(i) == {i} \X Carries(wire, i, w, n)
           f == [i \in S |-> Part(i)]
           T == {Part(i) : i \in S}
<1>1. IsFiniteSet(S)
  <2>1. S \subseteq DOMAIN wire /\ IsSeq(wire)
    BY DEF SentIn, PatchSeqs
  <2> HIDE DEF S
  <2> QED BY <2>1, PlacesFinite
<1>2. f \in Surjection(S, T)
  <2> HIDE DEF S, Part
  <2> QED BY DEF Surjection
<1>3. IsFiniteSet(T)
  <2> HIDE DEF S, f, T
  <2> QED BY <1>1, <1>2, FS_Surjection
<1>4. \A P \in T : IsFiniteSet(P)
  <2>1. SUFFICES ASSUME NEW i \in S PROVE IsFiniteSet(Part(i))
    OBVIOUS
  <2>2. IsFiniteSet(Carries(wire, i, w, n)) /\ IsFiniteSet({i})
    BY PatchesFinite, FS_Singleton DEF Carries, PatchSeqs
  <2> QED BY <2>2, FS_Product
<1>5. SentFor(wire, w, n) = UNION T
  BY DEF SentFor, Carries
<1>6. IsFiniteSet(UNION T)
  <2> HIDE DEF T
  <2> QED BY <1>3, <1>4, FS_UNION
<1> QED BY <1>5, <1>6, FS_CardinalityType

(* A message is added: only a commit adds patches.                         *)
LEMMA SentForAdd ==
  ASSUME NEW wire, PatchSeqs(wire), NEW x, NEW more, Adds(more, wire, x),
         x.do = "commit" => IsSeq(x.req.patch), NEW w, NEW n
  PROVE  /\ x.do # "commit" => SentFor(more, w, n) = SentFor(wire, w, n)
         /\ x.do = "commit" => Cardinality(SentFor(more, w, n))
              = Cardinality(SentFor(wire, w, n)) + Cardinality(PatchesIn(x.req.patch, w, n))
         /\ PatchSeqs(more)
<1>1. PatchSeqs(more)
  BY DEF Adds, PatchSeqs
<1>2. ASSUME x.do # "commit" PROVE SentFor(more, w, n) = SentFor(wire, w, n)
  <2>1. SentIn(more) = SentIn(wire) /\ \A i \in SentIn(wire) : more[i] = wire[i]
    BY <1>2 DEF Adds
  <2>2. \A i \in SentIn(wire) : Carries(more, i, w, n) = Carries(wire, i, w, n)
    BY <2>1 DEF Carries
  <2>3. \A p : p \in SentFor(more, w, n) <=> p \in SentFor(wire, w, n)
    BY <2>1, <2>2, SentForMembers
  <2> QED BY <2>3
<1>3. ASSUME x.do = "commit"
      PROVE  Cardinality(SentFor(more, w, n))
              = Cardinality(SentFor(wire, w, n)) + Cardinality(PatchesIn(x.req.patch, w, n))
  <2> DEFINE k == Len(wire) + 1
             S == PatchesIn(x.req.patch, w, n)
             T == {<<k, j>> : j \in S}
             f == [j \in S |-> <<k, j>>]
  <2>1. /\ Len(wire) \in Nat
        /\ \A i \in SentIn(wire) : i \in SentIn(more) /\ more[i] = wire[i] /\ i # k
        /\ \A i \in SentIn(more) : i = k \/ (i \in SentIn(wire) /\ more[i] = wire[i])
        /\ k \in SentIn(more) /\ more[k] = x
    BY <1>3 DEF Adds
  <2> HIDE DEF k
  <2>2. /\ \A i \in SentIn(wire) : Carries(more, i, w, n) = Carries(wire, i, w, n)
        /\ Carries(more, k, w, n) = S
    BY <2>1 DEF Carries
  <2> HIDE DEF S
  <2>3. \A p : p \in SentFor(more, w, n) <=> p \in SentFor(wire, w, n) \/ p \in T
    BY <2>1, <2>2, SentForMembers
  <2>4. SentFor(wire, w, n) \cap T = {}
    BY <2>1, SentForMembers
  <2>5. IsFiniteSet(S) /\ IsFiniteSet(SentFor(wire, w, n))
    BY <1>3, PatchesFinite, SentForFinite DEF S
  <2>6. IsFiniteSet(T) /\ Cardinality(T) = Cardinality(S)
    <3>1. f \in [S -> T] /\ \A c \in T : \E j \in S : f[j] = c
      OBVIOUS
    <3>2. \A i, j \in S : f[i] = f[j] => i = j
      OBVIOUS
    <3> HIDE DEF f, T
    <3> QED BY <2>5, <3>1, <3>2, SameNumber
  <2> HIDE DEF T
  <2>7. SentFor(more, w, n) = SentFor(wire, w, n) \cup T
    BY <2>3
  <2>8. Cardinality(SentFor(more, w, n)) = Cardinality(SentFor(wire, w, n)) + Cardinality(T)
    BY <2>4, <2>5, <2>6, <2>7, DisjointNumber
  <2> QED BY <2>6, <2>8 DEF S
<1> QED BY <1>1, <1>2, <1>3

(* The first message is handled.                                           *)
LEMMA SentForTake ==
  ASSUME NEW wire, PatchSeqs(wire), NEW x, NEW less, Takes(less, wire, x), NEW w, NEW n
  PROVE  /\ x.do # "commit" => Cardinality(SentFor(wire, w, n)) = Cardinality(SentFor(less, w, n))
         /\ x.do = "commit" => Cardinality(SentFor(wire, w, n))
              = Cardinality(SentFor(less, w, n)) + Cardinality(PatchesIn(x.req.patch, w, n))
         /\ PatchSeqs(less)
<1>1. PatchSeqs(less)
  BY DEF Takes, PatchSeqs
<1> DEFINE S == IF x.do = "commit" THEN PatchesIn(x.req.patch, w, n) ELSE {}
           T == {<<1, j>> : j \in S}
           L == SentFor(less, w, n)
           R == {p \in SentFor(wire, w, n) : p[1] # 1}
           f == [j \in S |-> <<1, j>>]
           g == [p \in L |-> <<p[1] + 1, p[2]>>]
<1>2. /\ x = wire[1] /\ (1 \in SentIn(wire) <=> x.do = "commit")
      /\ \A i \in SentIn(less) : i \in Nat \ {0} /\ i + 1 \in SentIn(wire) /\ less[i] = wire[i + 1]
      /\ \A i \in SentIn(wire) : i = 1 \/ (i - 1 \in SentIn(less) /\ wire[i] = less[i - 1])
  BY DEF Takes
<1>3. \A i \in SentIn(wire) : i \in Nat \ {0}
  BY DEF SentIn, PatchSeqs, IsSeq
<1>4. /\ \A i \in SentIn(less) : Carries(less, i, w, n) = Carries(wire, i + 1, w, n)
      /\ 1 \in SentIn(wire) => Carries(wire, 1, w, n) = S
      /\ 1 \notin SentIn(wire) => S = {}
  BY <1>2 DEF Carries
<1>5. IsFiniteSet(S) /\ IsFiniteSet(L) /\ IsFiniteSet(SentFor(wire, w, n))
  <2>1. x.do = "commit" => IsFiniteSet(PatchesIn(x.req.patch, w, n))
    BY <1>2, PatchesFinite DEF PatchSeqs
  <2> QED BY <1>1, <2>1, SentForFinite, FS_EmptySet
<1> HIDE DEF S, L
<1>6. IsFiniteSet(T) /\ Cardinality(T) = Cardinality(S)
  <2>1. f \in [S -> T] /\ \A c \in T : \E j \in S : f[j] = c
    OBVIOUS
  <2>2. \A i, j \in S : f[i] = f[j] => i = j
    OBVIOUS
  <2> HIDE DEF f, T
  <2> QED BY <1>5, <2>1, <2>2, SameNumber
<1>7. \A p : p \in L <=> \E i \in SentIn(less) : \E j \in Carries(less, i, w, n) : p = <<i, j>>
  BY SentForMembers DEF L
<1>8. \A p : p \in SentFor(wire, w, n)
        <=> \E i \in SentIn(wire) : \E j \in Carries(wire, i, w, n) : p = <<i, j>>
  BY SentForMembers
<1>9. IsFiniteSet(R) /\ Cardinality(R) = Cardinality(L)
  <2>1. g \in [L -> R]
    <3>1. SUFFICES ASSUME NEW p \in L PROVE <<p[1] + 1, p[2]>> \in R
      OBVIOUS
    <3>2. PICK i, j : i \in SentIn(less) /\ j \in Carries(less, i, w, n) /\ p = <<i, j>>
      BY <1>7
    <3>3. i + 1 \in SentIn(wire) /\ j \in Carries(wire, i + 1, w, n) /\ i + 1 # 1
      BY <1>2, <1>4, <3>2
    <3>4. <<i + 1, j>> \in SentFor(wire, w, n)
      BY <1>8, <3>3
    <3> QED BY <3>2, <3>3, <3>4
  <2>2. \A p, q \in L : g[p] = g[q] => p = q
    <3>1. SUFFICES ASSUME NEW p \in L, NEW q \in L, g[p] = g[q] PROVE p = q
      OBVIOUS
    <3>2. PICK i, j : i \in SentIn(less) /\ j \in Carries(less, i, w, n) /\ p = <<i, j>>
      BY <1>7
    <3>3. PICK k, l : k \in SentIn(less) /\ l \in Carries(less, k, w, n) /\ q = <<k, l>>
      BY <1>7
    <3>4. <<i + 1, j>> = <<k + 1, l>>
      BY <3>1, <3>2, <3>3
    <3>5. i = k /\ j = l
      BY <1>2, <3>2, <3>3, <3>4
    <3> QED BY <3>2, <3>3, <3>5
  <2>3. \A p \in R : \E q \in L : g[q] = p
    <3>1. SUFFICES ASSUME NEW p \in R PROVE \E q \in L : g[q] = p
      OBVIOUS
    <3>2. PICK i, j : i \in SentIn(wire) /\ j \in Carries(wire, i, w, n) /\ p = <<i, j>>
      BY <1>8
    <3>3. i # 1
      BY <3>2
    <3>4. i - 1 \in SentIn(less) /\ i - 1 + 1 = i
      BY <1>2, <1>3, <3>2, <3>3
    <3>5. j \in Carries(less, i - 1, w, n)
      BY <1>4, <3>2, <3>4
    <3>6. <<i - 1, j>> \in L
      BY <1>7, <3>4, <3>5
    <3>7. g[<<i - 1, j>>] = p
      BY <3>2, <3>4, <3>6
    <3> QED BY <3>6, <3>7
  <2> HIDE DEF g, R
  <2> QED BY <1>5, <2>1, <2>2, <2>3, SameNumber
<1>10. SentFor(wire, w, n) = T \cup R /\ T \cap R = {}
  <2>1. T \subseteq SentFor(wire, w, n)
    BY <1>4, <1>8
  <2>2. \A p \in SentFor(wire, w, n) : p \in T \/ p \in R
    BY <1>4, <1>8
  <2>3. \A p \in T : p[1] = 1
    OBVIOUS
  <2> QED BY <2>1, <2>2, <2>3
<1>11. Cardinality(SentFor(wire, w, n)) = Cardinality(S) + Cardinality(L)
  <2> HIDE DEF T, R
  <2> QED BY <1>6, <1>9, <1>10, DisjointNumber
<1>12. Cardinality(L) \in Nat
  BY <1>5, FS_CardinalityType
<1>13. CASE x.do # "commit"
  <2>1. Cardinality(S) = 0
    BY <1>13, FS_EmptySet DEF S
  <2> QED BY <1>1, <1>11, <1>12, <1>13, <2>1 DEF L
<1>14. CASE x.do = "commit"
  <2>1. S = PatchesIn(x.req.patch, w, n)
    BY <1>14 DEF S
  <2>2. Cardinality(S) \in Nat
    BY <1>5, FS_CardinalityType
  <2> QED BY <1>1, <1>11, <1>12, <1>14, <2>1, <2>2 DEF L
<1> QED BY <1>13, <1>14

(***************************************************************************)
(* What chunks miss                                                        *)
(***************************************************************************)
(* The patches of writers are counted as before.                           *)
LEMMA OwesWriters ==
  ASSUME NEW ws, NEW landed, NEW wire, NEW move, NEW patch,
         Owes(ws, landed, wire, move, patch), Lists(ws, landed, wire, move), NEW more,
         \A w \in DOMAIN ws : \A n \in 1 .. ws[w].returned :
           CountFor(more[w].patches, n) = CountFor(ws[w].patches, n)
  PROVE  Owes(more, landed, wire, move, patch)
<1>1. ASSUME NEW list, Entries(ws, list), Owing(ws, wire, patch, list)
      PROVE  Owing(more, wire, patch, list)
  <2>1. SUFFICES ASSUME NEW i \in DOMAIN list
                 PROVE  list[i].left = Owed(more, wire, patch, list[i].w, list[i].n)
    BY DEF Owing
  <2>2. PICK w, n : w = list[i].w /\ n = list[i].n
    OBVIOUS
  <2>3. w \in DOMAIN ws /\ n \in 1 .. ws[w].returned
    BY <1>1, <2>2 DEF Entries, Entry
  <2>4. Owed(more, wire, patch, w, n) = Owed(ws, wire, patch, w, n)
    BY <2>3 DEF Owed
  <2> QED BY <1>1, <2>2, <2>4 DEF Owing
<1> QED BY <1>1 DEF Owes, Lists

(* Two lists of the same chunks, which miss the same.                      *)
AlikeLeft(a, b) == Alike(a, b) /\ \A i \in DOMAIN a : a[i].left = b[i].left

LEMMA OwingSame ==
  ASSUME NEW ws, NEW wire, NEW patch, NEW a, Owing(ws, wire, patch, a), NEW b, AlikeLeft(a, b),
         NEW now, NEW rest,
         \A w, n : Owed(ws, now, rest, w, n) = Owed(ws, wire, patch, w, n)
  PROVE  Owing(ws, now, rest, b)
BY DEF Owing, AlikeLeft, Alike

LEMMA OwedNat ==
  ASSUME NEW ws, NEW wire, PatchSeqs(wire), NEW patch, IsSeq(patch), NEW w, NEW n,
         IsSeq(ws[w].patches)
  PROVE  /\ Owed(ws, wire, patch, w, n) \in Nat
         /\ CountFor(ws[w].patches, n) \in Nat
         /\ Cardinality(PatchesIn(patch, w, n)) \in Nat
         /\ Cardinality(SentFor(wire, w, n)) \in Nat
<1>1. CountFor(ws[w].patches, n) \in Nat
  BY CountSplit
<1>2. Cardinality(PatchesIn(patch, w, n)) \in Nat /\ Cardinality(SentFor(wire, w, n)) \in Nat
  BY PatchesFinite, SentForFinite
<1> QED BY <1>1, <1>2 DEF Owed

LEMMA ListLeft ==
  ASSUME NEW a, IsSeq(a)
  PROVE  AlikeLeft(a, a)
BY DEF AlikeLeft, Alike

(* Two lists of patches for the same chunks.                               *)
AlikePatches(a, b) ==
  /\ IsSeq(b) /\ DOMAIN b = DOMAIN a
  /\ \A i \in DOMAIN a : b[i].w = a[i].w /\ b[i].n = a[i].n

(* The request becomes a commit with its patches.                          *)
LEMMA OwesSend ==
  ASSUME NEW ws, NEW landed, NEW wire, NEW move, NEW patch,
         Owes(ws, landed, wire, move, patch), Lists(ws, landed, wire, move),
         PatchSeqs(wire), IsSeq(patch), \A w \in DOMAIN ws : IsSeq(ws[w].patches),
         NEW x, x.do = "commit", AlikeLeft(move, x.req.move),
         AlikePatches(patch, x.req.patch),
         NEW more, Adds(more, wire, x), NEW none, DOMAIN none = {}, IsSeq(none)
  PROVE  Owes(ws, landed, more, none, none)
<1>1. ASSUME NEW w \in DOMAIN ws, NEW n
      PROVE  Owed(ws, more, none, w, n) = Owed(ws, wire, patch, w, n)
  <2>1. /\ CountFor(ws[w].patches, n) \in Nat /\ Cardinality(PatchesIn(patch, w, n)) \in Nat
        /\ Cardinality(SentFor(wire, w, n)) \in Nat
    BY OwedNat
  <2>2. Cardinality(SentFor(more, w, n))
          = Cardinality(SentFor(wire, w, n)) + Cardinality(PatchesIn(patch, w, n))
    <3>1. PatchesIn(x.req.patch, w, n) = PatchesIn(patch, w, n)
      BY DEF AlikePatches, PatchesIn
    <3>2. IsSeq(x.req.patch)
      BY DEF AlikePatches
    <3> QED BY <3>1, <3>2, SentForAdd
  <2>3. PatchesIn(none, w, n) = {}
    BY DEF PatchesIn
  <2>4. Cardinality(PatchesIn(none, w, n)) = 0
    BY <2>3, FS_EmptySet
  <2> QED BY <2>1, <2>2, <2>4 DEF Owed
<1>2. ASSUME NEW a, Entries(ws, a), Owing(ws, wire, patch, a), NEW b, AlikeLeft(a, b)
      PROVE  Owing(ws, more, none, b)
  <2>1. SUFFICES ASSUME NEW i \in DOMAIN b
                 PROVE  b[i].left = Owed(ws, more, none, b[i].w, b[i].n)
    BY DEF Owing
  <2>2. /\ i \in DOMAIN a /\ a[i].w = b[i].w /\ a[i].n = b[i].n /\ a[i].left = b[i].left
        /\ a[i].w \in DOMAIN ws
    BY <1>2 DEF AlikeLeft, Alike, Entries, Entry
  <2>3. a[i].left = Owed(ws, wire, patch, a[i].w, a[i].n)
    BY <1>2, <2>2 DEF Owing
  <2> QED BY <1>1, <2>2, <2>3
<1>3. ASSUME NEW a, Entries(ws, a), Owing(ws, wire, patch, a)
      PROVE  Owing(ws, more, none, a)
  BY <1>2, <1>3, ListLeft DEF Entries
<1>4. Owing(ws, more, none, landed)
  BY <1>3 DEF Owes, Lists
<1>5. Owing(ws, more, none, none)
  BY DEF Owing
<1>6. \A i \in SentIn(more) : Owing(ws, more, none, more[i].req.move)
  <2>1. SUFFICES ASSUME NEW i \in SentIn(more) PROVE Owing(ws, more, none, more[i].req.move)
    OBVIOUS
  <2>2. (i \in SentIn(wire) /\ more[i] = wire[i]) \/ more[i] = x
    BY DEF Adds
  <2>3. CASE i \in SentIn(wire) /\ more[i] = wire[i]
    BY <1>3, <2>3 DEF Owes, Lists
  <2>4. CASE more[i] = x
    BY <1>2, <2>4 DEF Owes, Lists
  <2> QED BY <2>2, <2>3, <2>4
<1> QED BY <1>4, <1>5, <1>6 DEF Owes

(* Another message is sent, or handled.                                    *)
LEMMA OwesMessage ==
  ASSUME NEW ws, NEW landed, NEW wire, NEW move, NEW patch,
         Owes(ws, landed, wire, move, patch), PatchSeqs(wire),
         NEW x, x.do # "commit", NEW more, Adds(more, wire, x)
  PROVE  Owes(ws, landed, more, move, patch)
<1>1. \A w, n : Owed(ws, more, patch, w, n) = Owed(ws, wire, patch, w, n)
  BY SentForAdd DEF Owed
<1>2. \A list : Owing(ws, wire, patch, list) => Owing(ws, more, patch, list)
  BY <1>1 DEF Owing
<1>3. \A i \in SentIn(more) : i \in SentIn(wire) /\ more[i] = wire[i]
  BY DEF Adds
<1> QED BY <1>2, <1>3 DEF Owes

LEMMA OwesTail ==
  ASSUME NEW ws, NEW landed, NEW wire, NEW move, NEW patch,
         Owes(ws, landed, wire, move, patch), PatchSeqs(wire),
         NEW x, x.do # "commit", NEW less, Takes(less, wire, x)
  PROVE  Owes(ws, landed, less, move, patch)
<1>1. \A w, n : Owed(ws, less, patch, w, n) = Owed(ws, wire, patch, w, n)
  BY SentForTake DEF Owed
<1>2. \A list : Owing(ws, wire, patch, list) => Owing(ws, less, patch, list)
  BY <1>1 DEF Owing
<1>3. \A i \in SentIn(less) : i + 1 \in SentIn(wire) /\ less[i] = wire[i + 1]
  BY DEF Takes
<1> QED BY <1>2, <1>3 DEF Owes

(* The service handles a commit: it patches what it has got, and patches   *)
(* are for nothing else.                                                   *)
Patches(now, got, patch) ==
  /\ Alike(got, now)
  /\ \A i \in DOMAIN got :
       now[i].left = got[i].left - Cardinality(PatchesIn(patch, got[i].w, got[i].n))

LEMMA PatchesFollow ==
  ASSUME NEW ws, NEW landed, NEW wire, IsSeq(wire), NEW move, Flow(ws, landed, wire, move),
         Posted(landed, wire), 1 \in SentIn(wire), NEW list, Entries(ws, list),
         Before(landed, list), Before(wire[1].req.move, list), NEW i \in DOMAIN list
  PROVE  PatchesIn(wire[1].req.patch, list[i].w, list[i].n) = {}
<1>1. SUFFICES ASSUME NEW j \in PatchesIn(wire[1].req.patch, list[i].w, list[i].n) PROVE FALSE
  OBVIOUS
<1>2. PICK p, w, n : p = wire[1].req.patch[j] /\ w = list[i].w /\ n = list[i].n
  OBVIOUS
<1>3. p.w = w /\ p.n = n /\ n \in Nat \ {0} /\ ArrivesBy(landed, wire, w, n, 1)
  BY <1>1, <1>2 DEF PatchesIn, Posted
<1>4. Has(landed, w, n) \/ \E k \in SentIn(wire) : k <= 1 /\ Has(wire[k].req.move, w, n)
  BY <1>3 DEF ArrivesBy
<1>5. \A k \in SentIn(wire) : k <= 1 => k = 1
  BY DEF SentIn, IsSeq
<1>6. Has(landed, w, n) \/ Has(wire[1].req.move, w, n)
  BY <1>4, <1>5
<1>7. ~(n < n)
  BY <1>3
<1> QED BY <1>2, <1>6, <1>7 DEF Has, Before

LEMMA OwesLand ==
  ASSUME NEW ws, NEW landed, NEW wire, IsSeq(wire), NEW move, NEW patch,
         Flow(ws, landed, wire, move),
         Owes(ws, landed, wire, move, patch), Posted(landed, wire),
         IsSeq(patch), \A w \in DOMAIN ws : IsSeq(ws[w].patches),
         NEW x, x.do = "commit", NEW less, Takes(less, wire, x),
         NEW got, Joins(got, landed, x.req.move), NEW now, Patches(now, got, x.req.patch)
  PROVE  Owes(ws, now, less, move, patch)
<1> DEFINE Less(w, n) == Cardinality(PatchesIn(x.req.patch, w, n))
<1>1. PatchSeqs(wire) /\ 1 \in SentIn(wire) /\ wire[1] = x
  BY DEF PatchSeqs, Posted, Takes
<1>2. ASSUME NEW w \in DOMAIN ws, NEW n
      PROVE  /\ Owed(ws, wire, patch, w, n) \in Nat /\ Less(w, n) \in Nat
             /\ Owed(ws, less, patch, w, n) = Owed(ws, wire, patch, w, n) - Less(w, n)
  <2>1. /\ CountFor(ws[w].patches, n) \in Nat /\ Cardinality(PatchesIn(patch, w, n)) \in Nat
        /\ Cardinality(SentFor(wire, w, n)) \in Nat /\ Owed(ws, wire, patch, w, n) \in Nat
    BY <1>1, OwedNat
  <2>2. Cardinality(SentFor(wire, w, n)) = Cardinality(SentFor(less, w, n)) + Less(w, n)
    BY <1>1, SentForTake
  <2>3. Less(w, n) \in Nat
    BY <1>1, PatchesFinite DEF PatchSeqs
  <2>4. Cardinality(SentFor(less, w, n)) \in Nat
    BY <1>1, SentForTake, SentForFinite
  <2> HIDE DEF Less
  <2> QED BY <2>1, <2>2, <2>3, <2>4 DEF Owed
<1>3. Owing(ws, less, patch, now)
  <2>1. SUFFICES ASSUME NEW i \in DOMAIN now
                 PROVE  now[i].left = Owed(ws, less, patch, now[i].w, now[i].n)
    BY DEF Owing
  <2>2. PICK w, n : w = got[i].w /\ n = got[i].n
    OBVIOUS
  <2>3. /\ i \in DOMAIN got /\ now[i].w = w /\ now[i].n = n
        /\ now[i].left = got[i].left - Less(w, n)
    BY <2>2 DEF Patches, Alike
  <2>4. got[i].left = Owed(ws, wire, patch, w, n) /\ w \in DOMAIN ws
    <3>1. CASE i \in DOMAIN landed /\ got[i] = landed[i]
      BY <2>2, <3>1 DEF Owes, Owing, Flow, Lists, Entries, Entry
    <3>2. CASE \E j \in DOMAIN x.req.move : got[i] = x.req.move[j]
      <4>1. PICK j \in DOMAIN x.req.move : got[i] = x.req.move[j]
        BY <3>2
      <4>2. Owing(ws, wire, patch, x.req.move) /\ Entries(ws, x.req.move)
        BY <1>1 DEF Owes, Flow, Lists
      <4> QED BY <2>2, <4>1, <4>2 DEF Owing, Entries, Entry
    <3> QED BY <2>3, <3>1, <3>2 DEF Joins
  <2> HIDE DEF Less
  <2> QED BY <1>2, <2>3, <2>4
<1>4. ASSUME NEW list, Entries(ws, list), Owing(ws, wire, patch, list),
             Before(landed, list), Before(x.req.move, list)
      PROVE  Owing(ws, less, patch, list)
  <2>1. SUFFICES ASSUME NEW i \in DOMAIN list
                 PROVE  list[i].left = Owed(ws, less, patch, list[i].w, list[i].n)
    BY DEF Owing
  <2>2. PICK w, n : w = list[i].w /\ n = list[i].n
    OBVIOUS
  <2>3. PatchesIn(x.req.patch, w, n) = {}
    BY <1>1, <1>4, <2>2, PatchesFollow
  <2>4. Less(w, n) = 0
    BY <2>3, FS_EmptySet
  <2>5. w \in DOMAIN ws /\ list[i].left = Owed(ws, wire, patch, w, n)
    BY <1>4, <2>2 DEF Owing, Entries, Entry
  <2> HIDE DEF Less
  <2> QED BY <1>2, <2>2, <2>4, <2>5
<1>5. Owing(ws, less, patch, move)
  <2>1. Before(landed, move) /\ Before(x.req.move, move) /\ Entries(ws, move)
    BY <1>1 DEF Flow, InTurn, Lists
  <2> QED BY <1>4, <2>1 DEF Owes
<1>6. \A i \in SentIn(less) : Owing(ws, less, patch, less[i].req.move)
  <2>1. SUFFICES ASSUME NEW i \in SentIn(less) PROVE Owing(ws, less, patch, less[i].req.move)
    OBVIOUS
  <2>2. i \in Nat \ {0} /\ i + 1 \in SentIn(wire) /\ less[i] = wire[i + 1]
    BY DEF Takes
  <2>3. PICK k \in SentIn(wire) : 1 < k /\ less[i] = wire[k]
    BY <2>2
  <2>4. /\ Before(landed, wire[k].req.move) /\ Before(x.req.move, wire[k].req.move)
        /\ Entries(ws, wire[k].req.move) /\ Owing(ws, wire, patch, wire[k].req.move)
    BY <1>1, <2>3 DEF Flow, InTurn, Lists, Owes
  <2> QED BY <1>4, <2>3, <2>4
<1> QED BY <1>3, <1>5, <1>6 DEF Owes

(* The messages whose patches arrive in time.                              *)
LEMMA PostedAdd ==
  ASSUME NEW landed, NEW wire, Posted(landed, wire), NEW x, NEW more, Adds(more, wire, x),
         x.do = "commit" => /\ IsSeq(x.req.patch)
                            /\ \A j \in DOMAIN x.req.patch :
                                 /\ x.req.patch[j].n \in Nat \ {0}
                                 /\ ArrivesBy(landed, more, x.req.patch[j].w,
                                              x.req.patch[j].n, Len(wire) + 1)
  PROVE  Posted(landed, more)
<1>1. SUFFICES ASSUME NEW i \in SentIn(more)
               PROVE  /\ IsSeq(more[i].req.patch)
                      /\ \A j \in DOMAIN more[i].req.patch :
                           /\ more[i].req.patch[j].n \in Nat \ {0}
                           /\ ArrivesBy(landed, more, more[i].req.patch[j].w,
                                        more[i].req.patch[j].n, i)
  BY DEF Posted
<1>2. CASE i \in SentIn(wire) /\ more[i] = wire[i]
  BY <1>2, ArrivesAdd DEF Posted
<1>3. CASE x.do = "commit" /\ i = Len(wire) + 1 /\ more[i] = x
  BY <1>3
<1> QED BY <1>2, <1>3 DEF Adds

LEMMA PostedLand ==
  ASSUME NEW landed, NEW wire, IsSeq(wire), Posted(landed, wire), NEW x, NEW less,
         Takes(less, wire, x), NEW now,
         \A w, n : Has(landed, w, n) \/ Has(x.req.move, w, n) => Has(now, w, n)
  PROVE  Posted(now, less)
<1>1. SUFFICES ASSUME NEW i \in SentIn(less)
               PROVE  /\ IsSeq(less[i].req.patch)
                      /\ \A j \in DOMAIN less[i].req.patch :
                           /\ less[i].req.patch[j].n \in Nat \ {0}
                           /\ ArrivesBy(now, less, less[i].req.patch[j].w,
                                        less[i].req.patch[j].n, i)
  BY DEF Posted
<1>2. i + 1 \in SentIn(wire) /\ less[i] = wire[i + 1]
  BY DEF Takes
<1>3. IsSeq(less[i].req.patch) /\ \A j \in DOMAIN less[i].req.patch :
        /\ less[i].req.patch[j].n \in Nat \ {0}
        /\ ArrivesBy(landed, wire, less[i].req.patch[j].w, less[i].req.patch[j].n, i + 1)
  BY <1>2 DEF Posted
<1> QED BY <1>3, ArrivesLand

LEMMA PostedTail ==
  ASSUME NEW landed, NEW wire, IsSeq(wire), Posted(landed, wire), NEW x, NEW less,
         Takes(less, wire, x), x.do # "commit"
  PROVE  Posted(landed, less)
<1>1. SUFFICES ASSUME NEW i \in SentIn(less)
               PROVE  /\ IsSeq(less[i].req.patch)
                      /\ \A j \in DOMAIN less[i].req.patch :
                           /\ less[i].req.patch[j].n \in Nat \ {0}
                           /\ ArrivesBy(landed, less, less[i].req.patch[j].w,
                                        less[i].req.patch[j].n, i)
  BY DEF Posted
<1>2. i + 1 \in SentIn(wire) /\ less[i] = wire[i + 1]
  BY DEF Takes
<1>3. IsSeq(less[i].req.patch) /\ \A j \in DOMAIN less[i].req.patch :
        /\ less[i].req.patch[j].n \in Nat \ {0}
        /\ ArrivesBy(landed, wire, less[i].req.patch[j].w, less[i].req.patch[j].n, i + 1)
  BY <1>2 DEF Posted
<1> QED BY <1>3, ArrivesTail

(***************************************************************************)
(* The request is updated                                                  *)
(***************************************************************************)
(* The writer w keeps the patches that are not ready.                      *)
Keeps(now, ws, w) ==
  /\ now[w].patches = Unpatched(ws[w].patches)
  /\ \A v \in DOMAIN ws : v # w => now[v].patches = ws[v].patches

LEMMA OwedUpdate ==
  ASSUME NEW ws, NEW now, NEW w \in DOMAIN ws, Keeps(now, ws, w),
         \A v \in DOMAIN ws : IsSeq(ws[v].patches), NEW wire, PatchSeqs(wire),
         NEW patch, IsSeq(patch), NEW req, NEW sent, sent = SentPatches(req, w, ws[w].patches),
         NEW v \in DOMAIN ws, NEW n
  PROVE  /\ v # w \/ ToService(req, w, n)
              => Owed(now, wire, patch \o sent, v, n) = Owed(ws, wire, patch, v, n)
         /\ v = w /\ ~ToService(req, w, n)
              => Owed(now, wire, patch \o sent, v, n)
                   = Owed(ws, wire, patch, v, n) - CountFor(Patched(ws[w].patches), n)
<1>1. PICK list : list = ws[w].patches /\ IsSeq(list)
  OBVIOUS
<1>2. /\ IsSeq(sent)
      /\ ToService(req, w, n) => Cardinality(PatchesIn(sent, w, n)) = CountFor(Patched(list), n)
      /\ ~ToService(req, w, n) => PatchesIn(sent, w, n) = {}
      /\ v # w => PatchesIn(sent, v, n) = {}
  BY <1>1, SentCount
<1>3. /\ Cardinality(PatchesIn(patch \o sent, v, n))
           = Cardinality(PatchesIn(patch, v, n)) + Cardinality(PatchesIn(sent, v, n))
      /\ Cardinality(PatchesIn(patch, v, n)) \in Nat /\ Cardinality(PatchesIn(sent, v, n)) \in Nat
  BY <1>2, PatchesConcat
<1>4. /\ CountFor(list, n) \in Nat /\ CountFor(Patched(list), n) \in Nat
      /\ CountFor(Unpatched(list), n) \in Nat
      /\ CountFor(list, n) = CountFor(Patched(list), n) + CountFor(Unpatched(list), n)
  BY <1>1, CountSplit
<1>5. Cardinality(SentFor(wire, v, n)) \in Nat /\ CountFor(ws[v].patches, n) \in Nat
  BY OwedNat
<1>6. PatchesIn(sent, v, n) = {} => Cardinality(PatchesIn(sent, v, n)) = 0
  BY FS_EmptySet
<1>7. PICK both, old, new, wired, c, d, u :
        /\ both = Cardinality(PatchesIn(patch \o sent, v, n))
        /\ old = Cardinality(PatchesIn(patch, v, n)) /\ new = Cardinality(PatchesIn(sent, v, n))
        /\ wired = Cardinality(SentFor(wire, v, n)) /\ c = CountFor(ws[v].patches, n)
        /\ d = CountFor(Patched(list), n) /\ u = CountFor(now[v].patches, n)
  OBVIOUS
<1>8. Owed(ws, wire, patch, v, n) = c + old + wired /\ Owed(now, wire, patch \o sent, v, n) = u + both + wired
  BY <1>7 DEF Owed
<1>9. both = old + new /\ old \in Nat /\ new \in Nat /\ wired \in Nat /\ c \in Nat
  BY <1>3, <1>5, <1>7
<1>10. CASE v # w
  <2>1. u = c
    BY <1>7, <1>10 DEF Keeps
  <2>2. new = 0
    BY <1>2, <1>6, <1>7, <1>10
  <2> QED BY <1>8, <1>9, <1>10, <2>1, <2>2
<1>11. CASE v = w
  <2>1. c = d + u /\ d \in Nat /\ u \in Nat
    BY <1>1, <1>4, <1>7, <1>11 DEF Keeps
  <2>2. ToService(req, w, n) => new = d
    BY <1>2, <1>7, <1>11
  <2>3. ~ToService(req, w, n) => new = 0
    BY <1>2, <1>6, <1>7, <1>11
  <2>4. CountFor(Patched(ws[w].patches), n) = d
    BY <1>1, <1>7
  <2> QED BY <1>8, <1>9, <1>11, <2>1, <2>2, <2>3, <2>4
<1> QED BY <1>10, <1>11

(* The chunks that are patched in place are those of w.                    *)
Finds(req, w) == \A n : \A i \in FindChunk(req, w, n) : req.move[i].w = w
InPlace(e, list) ==
  [e EXCEPT !.left = @ - CountFor(Patched(list), e.n), !.writing = CountFor(Unpatched(list), e.n) > 0]

Repatched(moved, req, w, list) ==
  moved = IF arb.direct THEN DirectlyPatched(req, w, list) ELSE req.move
PatchedAs(req, w, list, i, e, x) ==
  /\ ToService(req, w, e.n) \/ e.w # w => x = e
  /\ ~ToService(req, w, e.n) /\ e.w = w
       => /\ i \in FindChunk(req, w, e.n) /\ arb.direct
          /\ CountFor(Patched(list), e.n) = 0 => x = e
          /\ CountFor(Patched(list), e.n) # 0 => x = InPlace(e, list)

LEMMA PatchedEntry ==
  ASSUME NEW req, NEW move, move = req.move, IsSeq(move), Increasing(move),
         \A i \in DOMAIN move : move[i].n \in Int, NEW w, NEW list, NEW now,
          Repatched(now, req, w, list),
         Finds(req, w), NEW i \in DOMAIN move, NEW e, e = move[i]
  PROVE  PatchedAs(req, w, list, i, e, now[i])
<1>1. arb.direct => now[i] = IF i \notin FindChunk(req, w, e.n) \/ CountFor(Patched(list), e.n) = 0
                             THEN e ELSE InPlace(e, list)
  BY DEF DirectlyPatched, InPlace, Repatched
<1>2. ~arb.direct => now[i] = e
  BY DEF Repatched
<1>3. ASSUME e.w # w PROVE i \notin FindChunk(req, w, e.n)
  BY <1>3 DEF Finds
<1>4. ASSUME ~ToService(req, w, e.n), e.w = w PROVE i \in FindChunk(req, w, e.n) /\ arb.direct
  <2>1. PICK j : j \in FindChunk(req, w, e.n)
    BY <1>4 DEF ToService
  <2>2. j \in DOMAIN move /\ move[j].n = e.n /\ move[j].w = w
    BY <2>1 DEF FindChunk, Finds
  <2>3. i \in Int /\ j \in Int
    BY <2>2 DEF IsSeq
  <2>4. ~(i < j) /\ ~(j < i)
    BY <1>4, <2>2 DEF Increasing
  <2>5. i = j
    BY <2>3, <2>4
  <2> QED BY <1>4, <2>1, <2>5 DEF ToService
<1>5. ToService(req, w, e.n) => ~arb.direct \/ i \notin FindChunk(req, w, e.n)
  BY DEF ToService
<1> QED BY <1>1, <1>2, <1>3, <1>4, <1>5 DEF PatchedAs

LEMMA OwesUpdate ==
  ASSUME NEW ws, NEW now, NEW w \in DOMAIN ws, Keeps(now, ws, w), DOMAIN now = DOMAIN ws,
         \A v \in DOMAIN ws : IsSeq(ws[v].patches), NEW landed, NEW wire, PatchSeqs(wire),
         NEW patch, IsSeq(patch), NEW req, NEW move, move = req.move,
         NEW list, list = ws[w].patches,
         NEW sent, sent = SentPatches(req, w, list), Finds(req, w),
         Owes(ws, landed, wire, move, patch), Flow(now, landed, wire, move),
         NEW moved, Repatched(moved, req, w, list),
         Alike(move, moved)
  PROVE  Owes(now, landed, wire, moved, patch \o sent)
<1>1. /\ Entries(now, landed) /\ Entries(now, move) /\ Increasing(move)
      /\ \A i \in SentIn(wire) : Entries(now, wire[i].req.move) /\ Before(wire[i].req.move, move)
      /\ Before(landed, move)
  BY DEF Flow, Lists, InTurn
<1>2. ASSUME NEW v \in DOMAIN ws, NEW n
      PROVE  /\ v # w \/ ToService(req, w, n)
                  => Owed(now, wire, patch \o sent, v, n) = Owed(ws, wire, patch, v, n)
             /\ v = w /\ ~ToService(req, w, n)
                  => Owed(now, wire, patch \o sent, v, n)
                       = Owed(ws, wire, patch, v, n) - CountFor(Patched(list), n)
  BY OwedUpdate
<1>3. ASSUME NEW a, Entries(now, a), Before(a, move), Owing(ws, wire, patch, a)
      PROVE  Owing(now, wire, patch \o sent, a)
  <2>1. SUFFICES ASSUME NEW i \in DOMAIN a
                 PROVE  a[i].left = Owed(now, wire, patch \o sent, a[i].w, a[i].n)
    BY DEF Owing
  <2>2. PICK v, n : v = a[i].w /\ n = a[i].n
    OBVIOUS
  <2>3. v \in DOMAIN ws /\ n \in Int
    BY <1>3, <2>2 DEF Entries, Entry
  <2>4. v = w => FindChunk(req, w, n) = {}
    <3>1. SUFFICES ASSUME v = w, NEW j \in FindChunk(req, w, n) PROVE FALSE
      OBVIOUS
    <3>2. j \in DOMAIN move /\ move[j].w = w /\ move[j].n = n
      BY DEF FindChunk, Finds
    <3>3. a[i].n < move[j].n
      BY <1>3, <2>2, <3>1, <3>2 DEF Before
    <3> QED BY <2>2, <2>3, <3>2, <3>3
  <2>5. v # w \/ ToService(req, w, n)
    BY <2>4 DEF ToService
  <2>6. a[i].left = Owed(ws, wire, patch, v, n)
    BY <1>3, <2>2 DEF Owing
  <2> QED BY <1>2, <2>2, <2>3, <2>5, <2>6
<1>4. Owing(now, wire, patch \o sent, landed)
  BY <1>1, <1>3 DEF Owes
<1>5. \A i \in SentIn(wire) : Owing(now, wire, patch \o sent, wire[i].req.move)
  BY <1>1, <1>3 DEF Owes
<1>6. Owing(now, wire, patch \o sent, moved)
  <2>1. SUFFICES ASSUME NEW i \in DOMAIN moved
                 PROVE  moved[i].left = Owed(now, wire, patch \o sent, moved[i].w, moved[i].n)
    BY DEF Owing
  <2>2. i \in DOMAIN move /\ IsSeq(move) /\ \A j \in DOMAIN move : move[j].n \in Int
    BY <1>1 DEF Alike, Entries, Entry
  <2>3. PICK e, v, n : e = move[i] /\ v = e.w /\ n = e.n /\ moved[i].w = v /\ moved[i].n = n
    BY <2>2 DEF Alike
  <2>4. DOMAIN e = EntryFields /\ v \in DOMAIN ws
    BY <1>1, <2>2, <2>3 DEF Entries, Entry
  <2>5. e.left = Owed(ws, wire, patch, v, n)
    BY <2>2, <2>3 DEF Owes, Owing
  <2>6. /\ ToService(req, w, n) \/ v # w => moved[i] = e
        /\ ~ToService(req, w, n) /\ v = w
             => /\ CountFor(Patched(list), n) = 0 => moved[i] = e
                /\ CountFor(Patched(list), n) # 0 => moved[i] = InPlace(e, list)
    <3>1. PatchedAs(req, w, list, i, e, moved[i])
      BY <1>1, <2>2, <2>3, PatchedEntry
    <3> QED BY <2>3, <3>1 DEF PatchedAs
  <2>7. CASE ToService(req, w, n) \/ v # w
    BY <1>2, <2>3, <2>4, <2>5, <2>6, <2>7
  <2>8. CASE ~ToService(req, w, n) /\ v = w
    <3>1. PICK m : m = CountFor(Patched(list), n)
      OBVIOUS
    <3>2. Owed(now, wire, patch \o sent, v, n) = Owed(ws, wire, patch, v, n) - m
      BY <1>2, <2>4, <2>8, <3>1
    <3>3. InPlace(e, list).left = e.left - m
      BY <2>3, <2>4, <3>1 DEF InPlace, EntryFields
    <3>4. Owed(ws, wire, patch, v, n) \in Nat
      BY <2>4, OwedNat
    <3>5. moved[i].left = e.left - m
      <4>1. CASE m = 0
        BY <2>5, <2>6, <2>8, <3>1, <3>4, <4>1
      <4>2. CASE m # 0
        BY <2>6, <2>8, <3>1, <3>3, <4>2
      <4> QED BY <4>1, <4>2
    <3> QED BY <2>3, <2>5, <3>2, <3>5
  <2> QED BY <2>7, <2>8
<1> QED BY <1>4, <1>5, <1>6 DEF Owes

LEMMA MarkedUpdate ==
  ASSUME NEW ws, NEW now, NEW w \in DOMAIN ws, Keeps(now, ws, w),
         \A v \in DOMAIN ws : IsSeq(ws[v].patches), NEW req, NEW move, move = req.move,
         Entries(now, move), Increasing(move), DOMAIN now = DOMAIN ws, ws[w].id = writers[w].id,
         NEW list, list = ws[w].patches, Finds(req, w),
         NEW moved, Repatched(moved, req, w, list),
         \A i \in DOMAIN move : Marked(ws, arb.direct, move[i]),
         NEW i \in DOMAIN move
  PROVE  Marked(now, arb.direct, moved[i])
<1>1. IsSeq(move) /\ \A j \in DOMAIN move : move[j].n \in Int
  BY DEF Entries, Entry
<1>2. PICK e, v, n : e = move[i] /\ v = e.w /\ n = e.n
  OBVIOUS
<1>3. DOMAIN e = EntryFields /\ v \in DOMAIN ws /\ Marked(ws, arb.direct, e)
  BY <1>2 DEF Entries, Entry
<1>4. /\ ToService(req, w, n) \/ v # w => moved[i] = e
      /\ ~ToService(req, w, n) /\ v = w
           => /\ i \in FindChunk(req, w, n) /\ arb.direct
              /\ CountFor(Patched(list), n) = 0 => moved[i] = e
              /\ CountFor(Patched(list), n) # 0 => moved[i] = InPlace(e, list)
  <2>1. PatchedAs(req, w, list, i, e, moved[i])
    BY <1>1, <1>2, PatchedEntry
  <2> QED BY <1>2, <2>1 DEF PatchedAs
<1>5. /\ CountFor(list, n) \in Nat /\ CountFor(Patched(list), n) \in Nat
      /\ CountFor(Unpatched(list), n) \in Nat
      /\ CountFor(list, n) = CountFor(Patched(list), n) + CountFor(Unpatched(list), n)
  BY CountSplit
<1>6. CASE v # w
  <2>1. now[v].patches = ws[v].patches /\ moved[i] = e
    BY <1>3, <1>4, <1>6 DEF Keeps
  <2> QED BY <1>2, <1>3, <2>1 DEF Marked
<1>7. CASE v = w /\ ToService(req, w, n)
  <2>1. moved[i] = e
    BY <1>4, <1>7
  <2>2. e.writing => i \in FindChunk(req, w, n) /\ arb.direct
    BY <1>2, <1>3, <1>7 DEF Marked, FindChunk
  <2>3. ~e.writing
    BY <1>7, <2>2 DEF ToService
  <2> QED BY <1>3, <2>1, <2>3 DEF Marked
<1>8. CASE v = w /\ ~ToService(req, w, n) /\ CountFor(Patched(list), n) = 0
  <2>1. moved[i] = e /\ now[v].patches = Unpatched(list)
    BY <1>4, <1>8 DEF Keeps
  <2>2. CountFor(now[v].patches, n) = CountFor(ws[v].patches, n)
    BY <1>5, <1>8, <2>1
  <2> QED BY <1>2, <1>3, <2>1, <2>2 DEF Marked
<1>9. CASE v = w /\ ~ToService(req, w, n) /\ CountFor(Patched(list), n) # 0
  <2>1. moved[i] = InPlace(e, list) /\ arb.direct /\ now[v].patches = Unpatched(list)
    BY <1>4, <1>9 DEF Keeps
  <2>2. PICK left, writing : left = e.left - CountFor(Patched(list), n)
                             /\ writing = (CountFor(Unpatched(list), n) > 0)
    OBVIOUS
  <2>3. InPlace(e, list) = [e EXCEPT !.left = left, !.writing = writing]
    BY <1>2, <2>2 DEF InPlace
  <2>4. e = EntryOf(e)
    BY <1>3 DEF Marked
  <2>5. InPlace(e, list) = [w |-> v, n |-> n, target |-> e.target, left |-> left, writing |-> writing]
    BY <1>2, <2>3, <2>4 DEF EntryOf
  <2>6. writing \in BOOLEAN
    BY <2>2
  <2>7. PICK x : x = moved[i]
    OBVIOUS
  <2>8. x = EntryOf(x) /\ x.writing = writing /\ x.w = v /\ x.n = n
    BY <2>1, <2>5, <2>7 DEF EntryOf
  <2>9. writing => CountFor(now[v].patches, n) > 0
    BY <2>1, <2>2
  <2> QED BY <2>1, <2>6, <2>7, <2>8, <2>9 DEF Marked
<1> QED BY <1>6, <1>7, <1>8, <1>9

LEMMA PatchFacts ==
  ASSUME PatchInv
  PROVE  /\ ThreadInv /\ Shapes /\ WriterShapes /\ Division /\ Returns /\ Binding /\ Stream
         /\ Flow(writers, service.landed, Wire, arb.req.move) /\ TargetsKept
         /\ Occupied /\ Distinct /\ Numbers /\ AlwaysBound /\ PatchLists /\ InRequest
         /\ \A w \in DOMAIN writers : IsSeq(writers[w].patches)
         /\ PatchSeqs(Wire) /\ IsSeq(arb.req.patch) /\ Posted(service.landed, Wire)
         /\ Owes(writers, service.landed, Wire, arb.req.move, arb.req.patch)
<1>1. ThreadInv /\ Shapes /\ WriterShapes /\ Division /\ Returns /\ Binding /\ Stream /\ TargetsKept
  BY DEF PatchInv, AnswerInv, StreamInv, ThreadInv, WakeInv, Order
<1>2. Occupied /\ Distinct /\ Numbers /\ AlwaysBound /\ PatchLists /\ InRequest /\ Debts
  BY DEF PatchInv, Desk
<1>3. IsSeq(Wire)
  BY <1>1, WireIsSeq
<1>4. PatchSeqs(Wire)
  BY <1>2, <1>3 DEF PatchSeqs, Debts, Posted
<1> QED BY <1>1, <1>2, <1>4 DEF Stream, PatchLists, InRequest, Debts

(* What an update of the request leaves alone.                             *)
DeskKept ==
  /\ arb'.direct = arb.direct /\ arb'.ids = arb.ids /\ arb'.last_id = arb.last_id
  /\ arb'.pending = arb.pending /\ arb'.was_always_bound = arb.was_always_bound

LEMMA UpdateKeeps ==
  ASSUME ThreadInv, NEW w \in DOMAIN writers, NEW t, NEW chunk, NEW rest,
         UpdateCommitDataRequest(t, w, chunk, rest), ~arb.req.open => arb.req = NoRequest
  PROVE  /\ DeskKept /\ RequestIs(arb'.req) /\ free' = free /\ Keeps(writers', writers, w)
         /\ \A v \in DOMAIN writers : writers'[v].live = writers[v].live /\ writers'[v].id = writers[v].id
<1>0. Shapes /\ WriterShapes
  BY DEF ThreadInv, WakeInv, Order
<1>1. PICK req, now, patch, batch :
        arb' = [arb EXCEPT !.req = [req EXCEPT !.move = now, !.patch = patch], !.scheduled = @ \/ batch]
  BY Zenon DEF UpdateCommitDataRequest
<1>2. PICK new : new = [req EXCEPT !.move = now, !.patch = patch]
  OBVIOUS
<1>3. arb' = [arb EXCEPT !.req = new, !.scheduled = @ \/ batch]
  BY <1>1, <1>2
<1>4. DeskKept /\ arb'.req = new
  BY <1>0, <1>3 DEF Shapes, DeskKept
<1>5. PICK some : Grown(some, chunk) /\ Updated(some, w, writers[w].patches)
  BY <1>0, UpdateRequest
<1>6. DOMAIN new = {"open", "move", "patch", "flush"}
  BY <1>4, <1>5 DEF Updated
<1>7. RequestIs(new)
  BY <1>2, <1>6 DEF RequestIs
<1>8. PICK rec, count : /\ writers' = [writers EXCEPT ![w] = rec]
                 /\ rec = [writers[w] EXCEPT !.patches = Unpatched(writers[w].patches), !.returned = @ + count]
  <2>1. PICK patches, count : /\ patches = Unpatched(writers[w].patches)
            /\ writers' = [writers EXCEPT ![w].patches = patches, ![w].returned = @ + count]
    BY Zenon DEF UpdateCommitDataRequest
  <2>2. writers' = [writers EXCEPT ![w] =
                      [writers[w] EXCEPT !.patches = patches, !.returned = @ + count]]
    BY <2>1
  <2> QED BY <2>1, <2>2, Zenon
<1>9. /\ rec.patches = Unpatched(writers[w].patches) /\ rec.live = writers[w].live
      /\ rec.id = writers[w].id
  BY <1>0, <1>8 DEF WriterShapes
<1>10. writers'[w] = rec /\ \A v \in DOMAIN writers : v # w => writers'[v] = writers[v]
  BY <1>8
<1>11. Keeps(writers', writers, w)
  BY <1>9, <1>10 DEF Keeps
<1>12. free' = free
  BY DEF UpdateCommitDataRequest
<1> QED BY <1>4, <1>7, <1>9, <1>10, <1>11, <1>12

(* A chunk that is new to the request is in the hands of the writer w.     *)
LEMMA UpdatePatches ==
  ASSUME PatchInv, AnswerInv', NEW t \in Threads, NEW w \in DOMAIN writers, Live(w),
         NEW count \in Nat, Updates(t, w, count), NEW chunk, IsSeq(chunk), NEW rest,
         UpdateCommitDataRequest(t, w, chunk, rest),
         todo[t] # <<>> => Now(t).do # "commit",
         writers[w].n = writers[w].returned + count + Current(w),
         \A i \in DOMAIN chunk : DOMAIN chunk[i] = EntryFields /\ chunk[i].w = w,
         Owing(writers, Wire, arb.req.patch, chunk),
         \A i \in DOMAIN chunk : Marked(writers, arb.direct, chunk[i])
  PROVE  InRequest' /\ Debts'
<1>0. PICK list : list = writers[w].patches
  OBVIOUS
<1>1. PICK req : Grown(req, chunk) /\ Updated(req, w, list)
  BY <1>0, PatchFacts, UpdateRequest DEF Stream
<1>2. PICK move, moved, patch, sent : /\ move = req.move /\ moved = arb'.req.move
        /\ patch = arb.req.patch /\ sent = SentPatches(req, w, list)
  OBVIOUS
<1>3. Joins(move, arb.req.move, chunk) /\ IsSeq(move)
  <2>1. IsSeq(arb.req.move)
    BY PatchFacts DEF Flow, Lists, Entries
  <2>2. Joins(arb.req.move \o chunk, arb.req.move, chunk)
    BY <2>1, JoinedLists
  <2>3. move = arb.req.move \o chunk
    BY <1>1, <1>2 DEF Grown
  <2> QED BY <2>2, <2>3 DEF Joins
<1>4. Repatched(moved, req, w, list) /\ arb'.req.patch = patch \o sent
  BY <1>1, <1>2 DEF Repatched, Updated, Grown
<1>5. /\ Wire' = Wire /\ service' = service /\ DOMAIN writers' = DOMAIN writers
      /\ writers'[w].returned = writers[w].returned + count
      /\ \A v \in DOMAIN writers : v # w => writers'[v].returned = writers[v].returned
  BY PatchFacts, UpdateWire
<1>6. /\ DeskKept /\ RequestIs(arb'.req) /\ Keeps(writers', writers, w)
  BY PatchFacts, UpdateKeeps DEF Stream
<1>7. \A i \in DOMAIN move : /\ DOMAIN move[i] = EntryFields
                             /\ Marked(writers, arb.direct, move[i])
                             /\ move[i].w \in DOMAIN writers
  <2>1. \A i \in DOMAIN arb.req.move : /\ DOMAIN arb.req.move[i] = EntryFields
                             /\ Marked(writers, arb.direct, arb.req.move[i])
                             /\ arb.req.move[i].w \in DOMAIN writers
    BY PatchFacts DEF Flow, Lists, Entries, Entry, InRequest
  <2> QED BY <1>3, <2>1 DEF Joins
<1>8. Alike(move, moved)
  <2>1. CASE arb.direct
    <3>1. moved = DirectlyPatched(req, w, list)
      BY <1>4, <2>1 DEF Repatched
    <3> QED BY <1>2, <1>3, <1>7, <3>1, DirectlyPatchedAlike DEF AlikeIn
  <2>2. CASE ~arb.direct
    BY <1>2, <1>3, <1>4, <2>2, AlikeSame DEF Repatched, AlikeIn
  <2> QED BY <2>1, <2>2
<1>9. Flow(writers', service.landed, Wire, move)
  <2>1. Flow(writers', service.landed, Wire, moved)
    BY <1>2, <1>5 DEF AnswerInv, StreamInv, Stream
  <2> QED BY <1>8, <2>1, AlikeLists, FlowAlike
<1>10. Finds(req, w)
  <2>1. SUFFICES ASSUME NEW n, NEW j \in FindChunk(req, w, n) PROVE move[j].w = w
    BY <1>2 DEF Finds
  <2>2. PICK e, v : e = move[j] /\ v = e.w
    OBVIOUS
  <2>3. j \in DOMAIN move /\ e.writing /\ writers[v].id = writers[w].id
    BY <1>2, <2>2 DEF FindChunk
  <2>4. v \in DOMAIN writers /\ CountFor(writers[v].patches, e.n) > 0
    BY <1>7, <2>2, <2>3 DEF Marked
  <2>5. writers[v].patches # <<>>
    <3>1. SUFFICES ASSUME writers[v].patches = <<>> PROVE FALSE
      OBVIOUS
    <3>2. {i \in DOMAIN <<>> : <<>>[i].n = e.n} = {}
      OBVIOUS
    <3>3. CountFor(writers[v].patches, e.n) = 0
      BY <3>1, <3>2, FS_EmptySet DEF CountFor
    <3> QED BY <2>4, <3>3
  <2>6. Live(v)
    BY <2>4, <2>5, PatchFacts DEF PatchLists, Live
  <2> QED BY <2>2, <2>3, <2>4, <2>6, PatchFacts DEF Distinct
<1>11. Owes(writers, service.landed, Wire, move, patch)
  <2>1. Owing(writers, Wire, patch, move)
    BY <1>2, <1>3, PatchFacts DEF Owes, Owing, Joins
  <2> QED BY <1>2, <2>1, PatchFacts DEF Owes
<1>12. Owes(writers', service.landed, Wire, moved, patch \o sent)
  BY <1>0, <1>2, <1>4, <1>5, <1>6, <1>8, <1>9, <1>10, <1>11, PatchFacts, OwesUpdate
<1>13. Debts'
  <2>1. Posted(service.landed, Wire)
    BY PatchFacts
  <2> QED BY <1>2, <1>4, <1>5, <1>12, <2>1 DEF Debts
<1>14. \A i \in DOMAIN moved : Marked(writers', arb'.direct, moved[i])
  <2>1. Entries(writers', move) /\ Increasing(move)
    BY <1>9 DEF Flow, Lists
  <2>2. ASSUME NEW i \in DOMAIN move PROVE Marked(writers', arb.direct, moved[i])
    BY <1>0, <1>2, <1>4, <1>5, <1>6, <1>7, <1>10, <2>1, PatchFacts, MarkedUpdate
  <2> QED BY <1>6, <1>8, <2>2 DEF Alike, DeskKept
<1>15. IsSeq(patch \o sent) /\ \A i \in DOMAIN (patch \o sent) : PatchOK(writers', (patch \o sent)[i])
  <2>1. IsSeq(list) /\ IsSeq(patch)
    BY <1>0, <1>2, PatchFacts
  <2>2. IsSeq(sent) /\ \A k \in DOMAIN sent : \E i \in DOMAIN list : sent[k] = PatchEntry(w, list, i)
    BY <1>2, <2>1, SentCount
  <2>3. Joins(patch \o sent, patch, sent)
    BY <2>1, <2>2, JoinedLists
  <2>4. \A v \in DOMAIN writers : writers[v].returned \in Nat
    BY PatchFacts DEF WriterShapes
  <2>5. \A i \in DOMAIN patch : PatchOK(writers', patch[i])
    <3>1. SUFFICES ASSUME NEW i \in DOMAIN patch PROVE PatchOK(writers', patch[i])
      OBVIOUS
    <3>2. PICK p : p = patch[i]
      OBVIOUS
    <3>3. PatchOK(writers, p)
      BY <1>2, <3>2, PatchFacts DEF InRequest
    <3>4. p.n \in 1 .. writers'[p.w].returned
      <4>1. p.w \in DOMAIN writers /\ p.n \in 1 .. writers[p.w].returned
        BY <3>3 DEF PatchOK
      <4>2. writers'[p.w].returned >= writers[p.w].returned /\ writers'[p.w].returned \in Nat
        BY <1>5, <2>4, <4>1
      <4> QED BY <2>4, <4>1, <4>2
    <3> QED BY <1>5, <3>2, <3>3, <3>4 DEF PatchOK
  <2>6. \A i \in DOMAIN sent : PatchOK(writers', sent[i])
    <3>1. SUFFICES ASSUME NEW k \in DOMAIN sent PROVE PatchOK(writers', sent[k])
      OBVIOUS
    <3>2. PICK i \in DOMAIN list : sent[k] = PatchEntry(w, list, i)
      BY <2>2
    <3>3. PICK n, more : /\ n = list[i].n
                         /\ more = (\E j \in i + 1 .. Len(list) : list[j].n = list[i].n)
      OBVIOUS
    <3>4. sent[k] = [w |-> w, n |-> n, target |-> writers[w].target, more |-> more]
          /\ more \in BOOLEAN
      BY <3>2, <3>3 DEF PatchEntry
    <3>5. n \in 1 .. writers[w].n - Current(w)
      BY <1>0, <3>3, PatchFacts DEF PatchLists
    <3>6. n \in 1 .. writers'[w].returned
      <4>1. Current(w) \in {0, 1} /\ writers[w].returned \in Nat
        BY <2>4 DEF Current
      <4>2. writers[w].n - Current(w) = writers'[w].returned
        BY <1>5, <4>1
      <4> QED BY <3>5, <4>2
    <3> QED BY <1>5, <3>4, <3>6 DEF PatchOK
  <2> QED BY <2>3, <2>5, <2>6 DEF Joins
<1> QED BY <1>2, <1>4, <1>6, <1>13, <1>14, <1>15 DEF InRequest

(* No patch has been sent for a chunk that has not been returned.          *)
LEMMA NonePatched ==
  ASSUME PatchInv, NEW w \in DOMAIN writers, NEW n, n = writers[w].returned + 1
  PROVE  /\ Owed(writers, Wire, arb.req.patch, w, n) = CountFor(writers[w].patches, n)
         /\ CountFor(writers[w].patches, n) \in Nat
<1>0. writers[w].returned \in Nat
  BY PatchFacts DEF WriterShapes
<1>1. PatchesIn(arb.req.patch, w, n) = {}
  <2>1. SUFFICES ASSUME NEW i \in DOMAIN arb.req.patch, arb.req.patch[i].w = w, arb.req.patch[i].n = n
                 PROVE  FALSE
    BY DEF PatchesIn
  <2>2. n \in 1 .. writers[w].returned
    BY <2>1, PatchFacts DEF InRequest, PatchOK
  <2> QED BY <1>0, <2>2
<1>2. ASSUME NEW i \in SentIn(Wire) PROVE Carries(Wire, i, w, n) = {}
  <2>1. SUFFICES ASSUME NEW j \in DOMAIN Wire[i].req.patch,
                        Wire[i].req.patch[j].w = w, Wire[i].req.patch[j].n = n
                 PROVE  FALSE
    BY DEF Carries, PatchesIn
  <2>2. ArrivesBy(service.landed, Wire, w, n, i)
    BY <1>2, <2>1, PatchFacts DEF Posted
  <2>3. n \in 1 .. n
    BY <1>0
  <2>4. Has(service.landed, w, n) \/ \E k \in SentIn(Wire) : Has(Wire[k].req.move, w, n)
    BY <2>2, <2>3 DEF ArrivesBy
  <2>5. \E list : Entries(writers, list) /\ Has(list, w, n)
    BY <2>4, PatchFacts DEF Flow, Lists
  <2>6. n \in 1 .. writers[w].returned
    BY <2>5 DEF Entries, Entry, Has
  <2> QED BY <1>0, <2>6
<1>3. SentFor(Wire, w, n) = {}
  BY <1>2, SentForMembers
<1>4. Cardinality(SentFor(Wire, w, n)) = 0 /\ Cardinality(PatchesIn(arb.req.patch, w, n)) = 0
  BY <1>1, <1>3, FS_EmptySet
<1>5. CountFor(writers[w].patches, n) \in Nat
  BY PatchFacts, CountSplit
<1> QED BY <1>4, <1>5 DEF Owed

LEMMA ReturnPatches ==
  ASSUME PatchInv, AnswerInv', NEW t \in Threads, ReturnCompletedChunk(t)
  PROVE  InRequest' /\ Debts'
<1>0. PICK w, n, k : w = Now(t).w /\ n = Now(t).n /\ k = Now(t).k
  OBVIOUS
<1>1. /\ Updates(t, w, 1) /\ todo[t] # <<>> /\ Now(t).do = "return"
      /\ w \in DOMAIN writers /\ n = writers[w].returned + 1
  BY <1>0, PatchFacts, ReturnCompletedChunkSteps
<1>2. Now(t) \in Elems(todo[t])
  BY <1>1, PatchFacts, TailSeq DEF Shapes, Now
<1>3. /\ Live(w) /\ k = CountFor(writers[w].patches, n)
      /\ writers[w].n = writers[w].returned + 1 + Current(w)
  <2>1. PICK x : x = Now(t)
    OBVIOUS
  <2>2. Occupied /\ Returns
    BY PatchFacts
  <2>3. BusyWith(t, x)
    BY <1>2, <2>1, <2>2 DEF Occupied
  <2>4. Live(w) /\ k = CountFor(writers[w].patches, n)
    BY <1>0, <1>1, <2>1, <2>3 DEF BusyWith, Busy, Live
  <2>5. writers[w].n = writers[w].returned + 1 + Current(w)
    BY <1>0, <1>1, <1>2, <2>2 DEF Returns
  <2> QED BY <2>4, <2>5
<1>4. PICK writing : writing = (arb.direct /\ k > 0)
  OBVIOUS
<1>5. PICK e : e = [w |-> w, n |-> n, target |-> writers[w].target, left |-> k, writing |-> writing]
  OBVIOUS
<1>6. PICK chunk : chunk = <<e>>
  OBVIOUS
<1>7. IsSeq(chunk) /\ DOMAIN chunk = {1} /\ chunk[1] = e
  <2>1. IsSeq(<<e>>) /\ Len(<<e>>) = 1 /\ <<e>>[1] = e
    BY ShortSeqs
  <2>2. DOMAIN <<e>> = {1}
    OBVIOUS
  <2> QED BY <1>6, <2>1, <2>2, Zenon
<1>8. UpdateCommitDataRequest(t, w, chunk, Tail(todo[t]))
  <2>1. UpdateCommitDataRequest(t, w, <<e>>, Tail(todo[t]))
    BY <1>0, <1>4, <1>5, Zenon DEF ReturnCompletedChunk
  <2> QED BY <1>6, <2>1, Zenon
<1>9. DOMAIN e = EntryFields /\ e.w = w /\ e.n = n /\ e.left = k /\ e.writing = writing /\ e = EntryOf(e)
  BY <1>5 DEF EntryFields, EntryOf
<1>10. Owing(writers, Wire, arb.req.patch, chunk)
  <2>1. Owed(writers, Wire, arb.req.patch, w, n) = k
    BY <1>1, <1>3, NonePatched
  <2> QED BY <1>7, <1>9, <2>1 DEF Owing
<1>11. Marked(writers, arb.direct, e)
  BY <1>3, <1>4, <1>9 DEF Marked
<1>12. \A i \in DOMAIN chunk : DOMAIN chunk[i] = EntryFields /\ chunk[i].w = w
  BY <1>7, <1>9
<1>13. \A i \in DOMAIN chunk : Marked(writers, arb.direct, chunk[i])
  BY <1>7, <1>11
<1> QED BY <1>1, <1>3, <1>7, <1>8, <1>10, <1>12, <1>13, UpdatePatches

LEMMA SendPatchesPatches ==
  ASSUME PatchInv, AnswerInv', NEW t \in Threads, SendPatches(t)
  PROVE  InRequest' /\ Debts'
<1>0. todo[t] = <<>> /\ Idle(t)
  BY PatchFacts, SendPatchesSteps DEF SendPatches
<1>1. PICK w \in Owner(t) : UpdateCommitDataRequest(t, w, <<>>, <<>>)
  BY DEF SendPatches
<1>2. w \in DOMAIN writers /\ Live(w) /\ writers[w].thread = t
  BY <1>1 DEF Owner, Live
<1>3. PICK none : none = <<>> /\ UpdateCommitDataRequest(t, w, none, none)
  BY <1>1, Zenon
<1>4. IsSeq(none) /\ DOMAIN none = {} /\ Len(none) = 0 /\ none = Rest(t)
  <2>1. IsSeq(<<>>) /\ Len(<<>>) = 0
    BY ShortSeqs
  <2>2. DOMAIN <<>> = {}
    OBVIOUS
  <2>3. Rest(t) = <<>>
    BY <1>0 DEF Rest
  <2> QED BY <1>3, <2>1, <2>2, <2>3, Zenon
<1>5. Updates(t, w, 0)
  BY <1>2, <1>3, <1>4, PatchFacts, UpdateSteps
<1>6. Elems(todo[t]) = {}
  BY <1>0, ShortSeqs
<1>7. writers[w].n = writers[w].returned + Current(w) /\ writers[w].returned \in Nat
  BY <1>2, <1>6, PatchFacts, NothingReturning DEF WriterShapes
<1>8. writers[w].n = writers[w].returned + 0 + Current(w)
  BY <1>7
<1>9. Owing(writers, Wire, arb.req.patch, none)
  BY <1>4 DEF Owing
<1> QED BY <1>0, <1>2, <1>3, <1>4, <1>5, <1>8, <1>9, UpdatePatches

(***************************************************************************)
(* What the threads are busy with                                          *)
(***************************************************************************)
LEMMA FinalConcat ==
  ASSUME NEW a, NEW b, IsSeq(a), IsSeq(b), FinalLast(b),
         \/ \A x \in Elems(a) : x.do \notin Final
         \/ b = <<>> /\ FinalLast(a)
  PROVE  FinalLast(a \o b)
<1>1. Joins(a \o b, a, b) /\ Len(a \o b) = Len(a) + Len(b) /\ Len(a) \in Nat /\ Len(b) \in Nat
  BY JoinedLists, ConcatSeq
<1>2. CASE b = <<>> /\ FinalLast(a)
  <2>1. a \o b = a
    BY <1>2 DEF IsSeq
  <2> QED BY <1>2, <2>1
<1>3. CASE \A x \in Elems(a) : x.do \notin Final
  <2>1. SUFFICES ASSUME NEW i \in DOMAIN (a \o b), (a \o b)[i].do \in Final
                 PROVE  i = Len(a) + Len(b)
    BY <1>1 DEF FinalLast
  <2>2. PICK j \in DOMAIN b : i = Len(a) + j /\ (a \o b)[i] = b[j]
    BY <1>1, <1>3, <2>1 DEF Joins, Elems
  <2> QED BY <2>1, <2>2 DEF FinalLast
<1> QED BY <1>2, <1>3

LEMMA FinalTail ==
  ASSUME NEW s, IsSeq(s), s # <<>>, FinalLast(s)
  PROVE  FinalLast(Tail(s)) /\ (Head(s).do \in Final => Tail(s) = <<>>)
<1>1. /\ IsSeq(Tail(s)) /\ Len(s) \in Nat \ {0} /\ Len(Tail(s)) = Len(s) - 1
      /\ DOMAIN s = 1 .. Len(s) /\ DOMAIN Tail(s) = 1 .. Len(s) - 1 /\ Head(s) = s[1]
      /\ \A i \in DOMAIN Tail(s) : i + 1 \in DOMAIN s /\ Tail(s)[i] = s[i + 1]
  BY TailSeq
<1>2. FinalLast(Tail(s))
  <2>1. SUFFICES ASSUME NEW i \in DOMAIN Tail(s), Tail(s)[i].do \in Final
                 PROVE  i = Len(Tail(s))
    BY DEF FinalLast
  <2>2. i + 1 = Len(s)
    BY <1>1, <2>1 DEF FinalLast
  <2> QED BY <1>1, <2>2
<1>3. ASSUME Head(s).do \in Final PROVE Tail(s) = <<>>
  <2>1. Len(s) = 1
    BY <1>1, <1>3 DEF FinalLast
  <2>2. Len(Tail(s)) = 0
    BY <1>1, <2>1
  <2> QED BY <1>1, <2>2 DEF IsSeq
<1> QED BY <1>2, <1>3

(* What thread u has to do besides the step it has done, if it is t.       *)
Others(t, u) == IF u = t THEN Elems(Rest(t)) ELSE Elems(todo[u])

LEMMA OccupiedStep ==
  ASSUME Shapes, Occupied, NEW t \in Threads, NEW first, Goes(t, first),
         \/ \A x \in Elems(first) : x.do \notin Final
         \/ Rest(t) = <<>> /\ FinalLast(first),
         \A x \in Elems(first) : BusyWith(t, x)',
         \A u \in Threads : \A x \in Others(t, u) : BusyWith(u, x) => BusyWith(u, x)'
  PROVE  Occupied'
<1>1. /\ IsSeq(first) /\ IsSeq(Rest(t))
      /\ todo'[t] = first \o Rest(t) /\ \A u \in Threads \ {t} : todo'[u] = todo[u]
      /\ Elems(todo'[t]) = Elems(first) \cup Elems(Rest(t))
      /\ Elems(Rest(t)) \subseteq Elems(todo[t])
  BY GoesFacts
<1>2. ASSUME NEW u \in Threads, NEW x \in Elems(todo'[u]) PROVE BusyWith(u, x)'
  <2>1. CASE x \in Others(t, u)
    <3>1. x \in Elems(todo[u])
      BY <1>1, <2>1 DEF Others
    <3> QED BY <2>1, <3>1 DEF Occupied
  <2>2. CASE x \notin Others(t, u)
    <3>1. u = t /\ x \in Elems(first)
      BY <1>1, <1>2, <2>2 DEF Others
    <3> QED BY <3>1
  <2> QED BY <2>1, <2>2
<1>3. FinalLast(Rest(t))
  <2>1. CASE todo[t] = <<>>
    BY <2>1 DEF Rest, FinalLast
  <2>2. CASE todo[t] # <<>>
    <3>1. IsSeq(todo[t]) /\ FinalLast(todo[t]) /\ Rest(t) = Tail(todo[t])
      BY <2>2 DEF Shapes, Occupied, Rest
    <3> QED BY <2>2, <3>1, FinalTail
  <2> QED BY <2>1, <2>2
<1>4. FinalLast(todo'[t])
  BY <1>1, <1>3, FinalConcat
<1>5. \A u \in Threads : FinalLast(todo'[u])
  BY <1>1, <1>4 DEF Occupied
<1> QED BY <1>2, <1>5 DEF Occupied

(* Threads are busy with writers of their own.                             *)
WritersBut(t) ==
  /\ DOMAIN writers \subseteq DOMAIN writers'
  /\ \A v \in DOMAIN writers : writers[v].thread # t => writers'[v] = writers[v]
LEMMA BusyElsewhere ==
  ASSUME NEW t, WritersBut(t), env'.c = env.c, NEW u, u # t, NEW x, BusyWith(u, x)
  PROVE  BusyWith(u, x)'
<1>1. CASE x.do \in Busy
  <2>1. x.w \in DOMAIN writers' /\ writers'[x.w] = writers[x.w]
    BY <1>1 DEF BusyWith, WritersBut
  <2> QED BY <1>1, <2>1 DEF BusyWith
<1>2. CASE x.do \notin Busy
  BY <1>2 DEF BusyWith
<1> QED BY <1>1, <1>2

(* A step with nothing to be busy with, which leaves the writers alone.    *)
LEMMA OccupiedSame ==
  ASSUME Shapes, Occupied, NEW t \in Threads, NEW first, Goes(t, first),
         \A x \in Elems(first) : x.do \notin Busy, writers' = writers, env'.c = env.c
  PROVE  Occupied'
<1>1. \A x \in Elems(first) : x.do \notin Final /\ BusyWith(t, x)'
  BY DEF BusyWith, Busy, Final
<1>2. \A u \in Threads : \A x \in Others(t, u) : BusyWith(u, x) => BusyWith(u, x)'
  BY DEF BusyWith
<1> QED BY <1>1, <1>2, OccupiedStep

(* A step of t for its writers.                                            *)
LEMMA OccupiedWriter ==
  ASSUME Shapes, Occupied, NEW t \in Threads, NEW first, Goes(t, first), WritersBut(t),
         env'.c = env.c,
         \/ \A x \in Elems(first) : x.do \notin Final
         \/ Rest(t) = <<>> /\ FinalLast(first),
         \A x \in Elems(first) : BusyWith(t, x)',
         \A x \in Elems(Rest(t)) : BusyWith(t, x) => BusyWith(t, x)'
  PROVE  Occupied'
<1>1. \A u \in Threads : \A x \in Others(t, u) : BusyWith(u, x) => BusyWith(u, x)'
  BY BusyElsewhere DEF Others
<1> QED BY <1>1, OccupiedStep

(***************************************************************************)
(* Steps that leave the books alone                                        *)
(***************************************************************************)
Books == Desk /\ Slots /\ InRequest /\ Debts

DeskArb ==
  /\ arb'.ids = arb.ids /\ arb'.last_id = arb.last_id /\ arb'.pending = arb.pending
  /\ arb'.was_always_bound = arb.was_always_bound /\ arb'.fully_bound = arb.fully_bound
  /\ arb'.reservations = arb.reservations

LEMMA DeskSame ==
  ASSUME Desk, Occupied', DeskArb, writers' = writers, env'.c = env.c,
         env'.claimed \subseteq env.c.targets
  PROVE  Desk'
<1>1. Distinct'
  BY DEF Desk, Distinct, DeskArb, Live
<1>2. Numbers'
  BY DEF Desk, Numbers
<1>3. AlwaysBound'
  BY DEF Desk, AlwaysBound, DeskArb
<1>4. PatchLists'
  BY DEF Desk, PatchLists, Current
<1> QED BY <1>1, <1>2, <1>3, <1>4 DEF Desk

LEMMA SlotsSame ==
  ASSUME Slots, free' = free, service'.landed = service.landed, DOMAIN writers' = DOMAIN writers,
         \A w \in DOMAIN writers : writers'[w].n = writers[w].n
  PROVE  Slots'
<1>1. Acquired' = Acquired
  BY DEF Acquired
<1> QED BY <1>1 DEF Slots

(* The patches that chunks which were returned wait for are as many.       *)
PatchesSame ==
  /\ DOMAIN writers \subseteq DOMAIN writers'
  /\ \A w \in DOMAIN writers :
       /\ writers'[w].returned = writers[w].returned
       /\ \A n \in 1 .. writers[w].returned :
            CountFor(writers'[w].patches, n) = CountFor(writers[w].patches, n)

LEMMA CalmDebts ==
  ASSUME PatchInv, PatchesSame, Wire' = Wire, service'.landed = service.landed,
         arb'.req.move = arb.req.move, arb'.req.patch = arb.req.patch, RequestIs(arb'.req),
         arb.direct => arb'.direct
  PROVE  InRequest' /\ Debts'
<1>1. Owes(writers', service.landed, Wire, arb.req.move, arb.req.patch)
  BY PatchFacts, OwesWriters DEF PatchesSame, Flow
<1>2. Debts'
  BY <1>1, PatchFacts DEF Debts
<1>3. ASSUME NEW i \in DOMAIN arb.req.move PROVE Marked(writers', arb'.direct, arb.req.move[i])
  <2>1. PICK e : e = arb.req.move[i]
    OBVIOUS
  <2>2. e.w \in DOMAIN writers /\ e.n \in 1 .. writers[e.w].returned
    BY <2>1, PatchFacts DEF Flow, Lists, Entries, Entry
  <2>3. Marked(writers, arb.direct, e)
    BY <2>1, PatchFacts DEF InRequest
  <2>4. CountFor(writers'[e.w].patches, e.n) = CountFor(writers[e.w].patches, e.n)
    BY <2>2 DEF PatchesSame
  <2> QED BY <2>1, <2>3, <2>4 DEF Marked
<1>4. \A i \in DOMAIN arb.req.patch : PatchOK(writers', arb.req.patch[i])
  BY PatchFacts DEF InRequest, PatchOK, PatchesSame
<1>5. InRequest'
  BY <1>3, <1>4, PatchFacts DEF InRequest
<1> QED BY <1>2, <1>5

LEMMA PlainBooks ==
  ASSUME PatchInv, NEW t \in Threads, NEW first, Goes(t, first),
         \A x \in Elems(first) : x.do \notin Busy /\ x.do # "commit",
         todo[t] # <<>> => Now(t).do # "commit",
         writers' = writers, env'.c = env.c, env'.claimed \subseteq env.c.targets,
         free' = free, service' = service, DeskArb,
         arb'.req.move = arb.req.move, arb'.req.patch = arb.req.patch, RequestIs(arb'.req),
         arb.direct => arb'.direct
  PROVE  Books'
<1>1. Occupied'
  BY PatchFacts, OccupiedSame
<1>2. Desk'
  BY <1>1, DeskSame DEF PatchInv
<1>3. Slots'
  BY SlotsSame DEF PatchInv
<1>4. Wire' = Wire
  BY PatchFacts, WireKept
<1>5. PatchesSame
  BY DEF PatchesSame
<1>6. InRequest' /\ Debts'
  BY <1>4, <1>5, CalmDebts
<1> QED BY <1>2, <1>3, <1>6 DEF Books

LEMMA ArbSame ==
  ASSUME PatchInv, arb' = arb
  PROVE  /\ DeskArb /\ arb'.req.move = arb.req.move /\ arb'.req.patch = arb.req.patch
         /\ RequestIs(arb'.req) /\ (arb.direct => arb'.direct)
BY PatchFacts DEF DeskArb, InRequest

LEMMA EnvSame ==
  ASSUME PatchInv
  PROVE  env' = env => env'.c = env.c /\ env'.claimed \subseteq env.c.targets
BY PatchFacts DEF AlwaysBound

LEMMA ThenNothing ==
  ASSUME Shapes, NEW t \in Threads, todo[t] # <<>>, Then(t, <<>>)
  PROVE  \E e : Goes(t, e) /\ Elems(e) = {}
<1>1. todo' = [todo EXCEPT ![t] = <<>> \o Tail(todo[t])]
  BY DEF Then
<1>2. PICK e : /\ IsSeq(e) /\ Elems(e) = {} /\ todo' = [todo EXCEPT ![t] = e \o Tail(todo[t])]
  BY <1>1, ShortSeqs
<1> QED BY <1>2, ThenGoes

LEMMA PostDelayedTaskBooks ==
  ASSUME PatchInv, NEW t \in Threads, PostDelayedTask(t)
  PROVE  Books'
<1>1. /\ todo[t] # <<>> /\ Now(t).do = "delay" /\ Then(t, <<>>) /\ arb' = arb
      /\ writers' = writers /\ free' = free /\ service' = service /\ env' = env
  BY DEF PostDelayedTask, AtStep, Now
<1>2. PICK e : Goes(t, e) /\ Elems(e) = {}
  BY <1>1, PatchFacts, ThenNothing
<1> QED BY <1>1, <1>2, ArbSame, EnvSame, PlainBooks

LEMMA ClearDelayedBooks ==
  ASSUME PatchInv, ClearDelayedFlushScheduled
  PROVE  Books'
<1>1. /\ IPC \in Threads /\ todo[IPC] # <<>> /\ Now(IPC).do = "clear" /\ Then(IPC, <<>>)
      /\ arb' = [arb EXCEPT !.scheduled = FALSE]
      /\ writers' = writers /\ free' = free /\ service' = service /\ env' = env
  BY ArbiterConstants DEF ClearDelayedFlushScheduled, AtStep, Now
<1>2. PICK e : Goes(IPC, e) /\ Elems(e) = {}
  BY <1>1, PatchFacts, ThenNothing
<1>3. DeskArb /\ arb'.req = arb.req /\ arb'.direct = arb.direct
  BY <1>1, PatchFacts DEF Shapes, DeskArb
<1>4. RequestIs(arb'.req)
  BY <1>3, PatchFacts DEF InRequest
<1>5. /\ IPC \in Threads /\ Now(IPC).do # "commit"
      /\ writers' = writers /\ free' = free /\ service' = service /\ env' = env
  BY <1>1
<1> QED BY <1>2, <1>3, <1>4, <1>5, EnvSame, PlainBooks

LEMMA RunDelayedTaskBooks ==
  ASSUME PatchInv, RunDelayedTask
  PROVE  Books'
<1>1. /\ IPC \in Threads /\ todo[IPC] = <<>> /\ todo' = [todo EXCEPT ![IPC] = <<Clear, Flush({})>>]
      /\ arb' = arb /\ writers' = writers /\ free' = free /\ service' = service /\ env' = env
  BY ArbiterConstants DEF RunDelayedTask, Idle, Start
<1>2. IsSeq(<<Clear, Flush({})>>) /\ Elems(<<Clear, Flush({})>>) \subseteq {Clear, Flush({})}
  <2>1. PICK c, f : c = Clear /\ f = Flush({})
    OBVIOUS
  <2>2. <<c, f>> \in Seq({c, f})
    OBVIOUS
  <2> QED BY <2>1, <2>2, TypedIsSeq
<1>3. PICK first : /\ IsSeq(first) /\ Elems(first) \subseteq {Clear, Flush({})}
                   /\ todo' = [todo EXCEPT ![IPC] = first]
  BY <1>1, <1>2
<1>4. Goes(IPC, first)
  BY <1>1, <1>3, PatchFacts, StartGoes
<1>5. \A x \in Elems(first) : x.do \notin Busy /\ x.do # "commit"
  BY <1>3 DEF Clear, Flush, Busy
<1>6. /\ IPC \in Threads /\ todo[IPC] = <<>> /\ arb' = arb
      /\ writers' = writers /\ free' = free /\ service' = service /\ env' = env
  BY <1>1
<1> QED BY <1>4, <1>5, <1>6, ArbSame, EnvSame, PlainBooks

LEMMA QuietBooks ==
  ASSUME PatchInv, EnableDirectSMBPatching \/ TryShutdown
  PROVE  Books'
<1>1. /\ IPC \in Threads /\ todo[IPC] = <<>> /\ todo' = todo
      /\ writers' = writers /\ free' = free /\ service' = service /\ env' = env
  BY ArbiterConstants DEF EnableDirectSMBPatching, TryShutdown, Idle
<1>2. PICK first : Goes(IPC, first) /\ Elems(first) = {}
  BY <1>1, PatchFacts, StaysIdle
<1>3. DeskArb /\ arb'.req = arb.req /\ (arb.direct => arb'.direct)
  BY PatchFacts DEF EnableDirectSMBPatching, TryShutdown, Shapes, DeskArb
<1>4. RequestIs(arb'.req)
  BY <1>3, PatchFacts DEF InRequest
<1> QED BY <1>1, <1>2, <1>3, <1>4, EnvSame, PlainBooks

LEMMA PostTaskBooks ==
  ASSUME PatchInv, NEW t \in Threads, PostTask(t)
  PROVE  Books'
<1>1. /\ todo[t] # <<>> /\ Now(t).do = "post" /\ arb' = arb
      /\ writers' = writers /\ free' = free /\ service' = service /\ env' = env
      /\ \E e : Goes(t, e) /\ Elems(e) = {}
  BY PatchFacts, PostTaskSteps DEF PostTask
<1>2. PICK e : Goes(t, e) /\ Elems(e) = {}
  BY <1>1
<1> QED BY <1>1, <1>2, ArbSame, EnvSame, PlainBooks

LEMMA RunTaskBooks ==
  ASSUME PatchInv, RunTask
  PROVE  Books'
<1>1. /\ IPC \in Threads /\ todo[IPC] = <<>> /\ arb' = arb
      /\ writers' = writers /\ free' = free /\ service' = service /\ env' = env
      /\ Goes(IPC, <<Head(tasks)>>) /\ Head(tasks) \in Elems(tasks)
  BY PatchFacts, RunTaskSteps, ArbiterConstants DEF RunTask
<1>2. Head(tasks).do \in TaskKinds
  BY <1>1, PatchFacts DEF Division
<1>3. PICK first : Goes(IPC, first) /\ Elems(first) = {Head(tasks)}
  BY <1>1, ShortSeqs
<1>4. \A x \in Elems(first) : x.do \notin Busy /\ x.do # "commit"
  BY <1>2, <1>3 DEF TaskKinds, PostKinds, Busy
<1>5. /\ IPC \in Threads /\ todo[IPC] = <<>> /\ arb' = arb
      /\ writers' = writers /\ free' = free /\ service' = service /\ env' = env
  BY <1>1
<1> QED BY <1>3, <1>4, <1>5, ArbSame, EnvSame, PlainBooks

LEMMA RunCallbackBooks ==
  ASSUME PatchInv, RunCallback
  PROVE  Books'
<1>1. /\ IPC \in Threads /\ Now(IPC).do = "callback" /\ arb' = arb
      /\ writers' = writers /\ free' = free /\ service' = service /\ env' = env
      /\ \E e : Goes(IPC, e) /\ Elems(e) = {}
  BY PatchFacts, RunCallbackSteps, ArbiterConstants DEF RunCallback
<1>2. PICK e : Goes(IPC, e) /\ Elems(e) = {}
  BY <1>1
<1> QED BY <1>1, <1>2, ArbSame, EnvSame, PlainBooks

LEMMA AbortPostBooks ==
  ASSUME PatchInv, NEW t \in Threads, NEW r, AbortStartupTracingForReservation(t, r),
         MustPostAbort(t)
  PROVE  Books'
<1>1. /\ todo[t] = <<>> /\ arb' = arb /\ writers' = writers /\ free' = free /\ service' = service
      /\ r \in env.c.targets
  BY DEF AbortStartupTracingForReservation, Idle
<1>2. /\ Goes(t, <<Post(Abort(r))>>) /\ env' = [env EXCEPT !.claimed = @ \cup {r}]
  BY PatchFacts, AbortPostNeutral
<1>3. PICK first : Goes(t, first) /\ Elems(first) = {Post(Abort(r))}
  BY <1>2, ShortSeqs
<1>4. \A x \in Elems(first) : x.do \notin Busy /\ x.do # "commit"
  BY <1>3, PostKind DEF Busy
<1>5. env'.c = env.c /\ env'.claimed = env.claimed \cup {r}
  BY <1>2, PatchFacts DEF WriterShapes
<1>6. env'.claimed \subseteq env.c.targets
  BY <1>1, <1>5, PatchFacts DEF AlwaysBound
<1> QED BY <1>1, <1>3, <1>4, <1>5, <1>6, ArbSame, PlainBooks

LEMMA NotifyBooks ==
  ASSUME PatchInv, NEW t \in Threads, NotifyFlushComplete(t)
  PROVE  Books'
<1>1. /\ todo[t] = <<>> /\ writers' = writers /\ free' = free /\ service' = service
      /\ \E first : Goes(t, first) /\ \A x \in Elems(first) : x = Post(Flush({}))
      /\ env' = [env EXCEPT !.asked = Append(@, [w \in DOMAIN writers |-> writers[w].returned])]
  BY PatchFacts, NotifyFlushCompleteSteps DEF NotifyFlushComplete
<1>2. PICK first : Goes(t, first) /\ \A x \in Elems(first) : x = Post(Flush({}))
  BY <1>1
<1>3. \A x \in Elems(first) : x.do \notin Busy /\ x.do # "commit"
  BY <1>2, PostKind DEF Busy
<1>4. env'.c = env.c /\ env'.claimed = env.claimed
  BY <1>1, PatchFacts DEF WriterShapes
<1>5. PICK old : old = IF arb.req.open THEN arb.req ELSE EmptyRequest
  OBVIOUS
<1>6. /\ DOMAIN old = {"open", "move", "patch", "flush"}
      /\ old.move = arb.req.move /\ old.patch = arb.req.patch
  <2>1. CASE arb.req.open
    BY <1>5, <2>1, PatchFacts DEF Shapes
  <2>2. CASE ~arb.req.open
    <3>1. old = EmptyRequest /\ arb.req = NoRequest
      BY <1>5, <2>2, PatchFacts DEF Stream
    <3> QED BY <3>1 DEF NoRequest, EmptyRequest
  <2> QED BY <2>1, <2>2
<1>7. PICK new, number : new = [old EXCEPT !.flush = number] /\ arb' = [arb EXCEPT !.req = new]
  <2>1. PICK number :
          number = IF Len(env.asked) + 1 > old.flush THEN Len(env.asked) + 1 ELSE old.flush
    OBVIOUS
  <2>2. arb' = [arb EXCEPT !.req = [old EXCEPT !.flush = number]]
    BY <1>5, <2>1, Zenon DEF NotifyFlushComplete
  <2> QED BY <2>2
<1>8. /\ RequestIs(new) /\ new.move = arb.req.move /\ new.patch = arb.req.patch
  BY <1>6, <1>7 DEF RequestIs
<1>9. DeskArb /\ arb'.req = new /\ arb'.direct = arb.direct
  BY <1>7, PatchFacts DEF Shapes, DeskArb
<1>10. env'.claimed \subseteq env.c.targets
  BY <1>4, PatchFacts DEF AlwaysBound
<1> QED BY <1>1, <1>2, <1>3, <1>4, <1>8, <1>9, <1>10, PlainBooks

(***************************************************************************)
(* Flushes and messages                                                    *)
(***************************************************************************)
(* What is sent misses the patches that the request missed.                *)
LEMMA ToSendLeft ==
  ASSUME PatchInv, arb.fully_bound
  PROVE  /\ AlikeLeft(arb.req.move, ToSend.move) /\ AlikePatches(arb.req.patch, ToSend.patch)
         /\ SettledPatches(writers, arb.reservations, ToSend.patch)
<1>0. /\ DOMAIN arb.req = {"open", "move", "patch", "flush"}
      /\ Entries(writers, arb.req.move) /\ Alike(arb.req.move, ToSend.move)
  BY PatchFacts, ToSendMoves DEF Shapes, Flow, Lists
<1>1. PICK move : move = arb.req.move
  OBVIOUS
<1>2. PICK mid : mid = [i \in DOMAIN move |->
        IF BufferOf(move[i].target) = Unresolved THEN move[i]
        ELSE [move[i] EXCEPT !.target = BufferOf(@)]]
  OBVIOUS
<1>3. PICK req : req = ReplaceCommitPlaceholderBufferIds(arb.req)
  OBVIOUS
<1>3a. PICK old, pat : /\ old = arb.req.patch
                       /\ pat = [i \in DOMAIN old |-> Replaced(old[i])]
  OBVIOUS
<1>4. DOMAIN req = {"open", "move", "patch", "flush"} /\ req.move = mid /\ req.patch = pat
  <2>1. mid = [i \in DOMAIN move |-> Replaced(move[i])]
    BY <1>2 DEF Replaced
  <2>2. req = [arb.req EXCEPT !.move = mid, !.patch = pat]
    BY <1>1, <1>3, <1>3a, <2>1 DEF ReplaceCommitPlaceholderBufferIds
  <2> QED BY <1>0, <2>2
<1>5. PICK sent : sent = [i \in DOMAIN mid |-> [mid[i] EXCEPT !.writing = FALSE]]
  OBVIOUS
<1>6. ToSend.move = sent /\ ToSend.patch = pat
  <2>1. ToSend = [req EXCEPT !.move = sent]
    BY <1>3, <1>4, <1>5, Zenon DEF ToSend, ReleaseAllAsComplete
  <2> QED BY <1>4, <2>1
<1>7. ASSUME NEW i \in DOMAIN move PROVE sent[i].left = move[i].left
  <2>1. PICK e : e = move[i] /\ DOMAIN e = EntryFields
    BY <1>0, <1>1, <1>7 DEF Entries, Entry
  <2>2. PICK x : x = mid[i]
    OBVIOUS
  <2>3. x = e \/ \E b : x = [e EXCEPT !.target = b]
    BY <1>2, <1>7, <2>1, <2>2
  <2>4. x.left = e.left /\ DOMAIN x = EntryFields
    BY <2>1, <2>3 DEF EntryFields
  <2>5. PICK y : y = sent[i]
    OBVIOUS
  <2>6. y = [x EXCEPT !.writing = FALSE]
    BY <1>2, <1>5, <1>7, <2>2, <2>5
  <2>7. y.left = x.left
    BY <2>4, <2>6 DEF EntryFields
  <2> QED BY <2>1, <2>4, <2>5, <2>7
<1>8. ASSUME NEW i \in DOMAIN old
      PROVE  /\ pat[i].w = old[i].w /\ pat[i].n = old[i].n /\ pat[i].w \in DOMAIN writers
             /\ pat[i].target = StandsFor(arb.reservations, writers[pat[i].w].target)
             /\ pat[i].target \in Ids
  <2>1. PICK p, q : p = old[i] /\ q = pat[i]
    OBVIOUS
  <2>2. PatchOK(writers, p) /\ p.target = writers[p.w].target
    BY <1>3a, <2>1, PatchFacts DEF InRequest, PatchInv, PatchTargets, Named
  <2>3. p.w \in DOMAIN writers /\ DOMAIN p = {"w", "n", "target", "more"}
    <3>1. p = [w |-> p.w, n |-> p.n, target |-> p.target, more |-> p.more]
      BY <2>2 DEF PatchOK
    <3> QED BY <2>2, <3>1 DEF PatchOK
  <2>4. PICK b : b = BufferOf(p.target)
    OBVIOUS
  <2>5. b \in Ids /\ b = StandsFor(arb.reservations, writers[p.w].target) /\ b # Unresolved
    BY <2>2, <2>3, <2>4, PatchFacts, TargetsKnown
  <2>6. q = [p EXCEPT !.target = b]
    BY <1>3a, <2>1, <2>4, <2>5 DEF Replaced
  <2>7. q.w = p.w /\ q.n = p.n /\ q.target = b
    BY <2>3, <2>6
  <2> QED BY <2>1, <2>3, <2>5, <2>7
<1>9. IsSeq(pat) /\ DOMAIN pat = DOMAIN old
  <2>1. IsSeq(old)
    BY <1>3a, PatchFacts
  <2>2. DOMAIN pat = DOMAIN old /\ pat = [i \in DOMAIN old |-> pat[i]]
    BY <1>3a
  <2> QED BY <2>1, <2>2, SameLength
<1>10. AlikePatches(old, pat)
  BY <1>8, <1>9 DEF AlikePatches
<1>11. SettledPatches(writers, arb.reservations, pat)
  BY <1>8, <1>9 DEF SettledPatches, Settled
<1> QED BY <1>0, <1>1, <1>3a, <1>6, <1>7, <1>10, <1>11 DEF AlikeLeft

LEMMA FlushPendingBooks ==
  ASSUME PatchInv, NEW t \in Threads, FlushPendingCommitDataRequests(t)
  PROVE  Books'
<1>1. PICK cbs : cbs = Now(t).cbs
  OBVIOUS
<1>2. /\ todo[t] # <<>> /\ Now(t).do = "flush" /\ writers' = writers
      /\ service' = service /\ env' = env
      /\ \E first : /\ Goes(t, first)
                    /\ \/ Leaves(t, first, cbs) \/ PassesOn(t, first, cbs)
                       \/ Sends(t, first, cbs)
  BY <1>1, PatchFacts, FlushPendingSteps
<1>3. PICK first : /\ Goes(t, first)
                   /\ \/ Leaves(t, first, cbs) \/ PassesOn(t, first, cbs)
                      \/ Sends(t, first, cbs)
  BY <1>2
<1>4. free' = free /\ env'.c = env.c /\ env'.claimed \subseteq env.c.targets
  BY <1>2, EnvSame DEF FlushPendingCommitDataRequests
<1>5. CASE Leaves(t, first, cbs)
  <2>1. arb' = [arb EXCEPT !.callbacks = @ \cup cbs] /\ Elems(first) = {}
    BY <1>5 DEF Leaves
  <2>2. DeskArb /\ arb'.req = arb.req /\ arb'.direct = arb.direct
    BY <2>1, PatchFacts DEF Shapes, DeskArb
  <2>3. RequestIs(arb'.req)
    BY <2>2, PatchFacts DEF InRequest
  <2> QED BY <1>2, <1>3, <1>4, <2>1, <2>2, <2>3, PlainBooks
<1>6. CASE PassesOn(t, first, cbs)
  <2>1. arb' = arb /\ \A x \in Elems(first) : x.do \notin Busy /\ x.do # "commit"
    BY <1>6, ShortSeqs, PostKind DEF PassesOn, Busy
  <2> QED BY <1>2, <1>3, <1>4, <2>1, ArbSame, PlainBooks
<1>7. CASE Sends(t, first, cbs)
  <2>0. t = IPC /\ arb.fully_bound /\ arb' = [arb EXCEPT !.req = NoRequest]
    BY <1>7 DEF Sends
  <2>1. DeskArb /\ arb'.req = NoRequest /\ arb'.direct = arb.direct
    BY <2>0, PatchFacts DEF Shapes, DeskArb
  <2>2. RequestIs(arb'.req)
    BY <2>1 DEF RequestIs, NoRequest
  <2>3. CASE first = <<>> /\ ~arb.req.open
    <3>1. Elems(first) = {} /\ arb'.req = arb.req
      BY <2>1, <2>3, PatchFacts, ShortSeqs DEF Stream
    <3> QED BY <1>2, <1>3, <1>4, <2>1, <2>2, <3>1, PlainBooks
  <2>4. CASE first = <<Commit(ToSend, cbs)>>
    <3>1. PICK x : x = Commit(ToSend, cbs) /\ x.do = "commit" /\ x.req = ToSend
      BY CommitKind
    <3>2. first # <<>> /\ Head(first) = x /\ Elems(first) = {x}
      BY <2>4, <3>1, ShortSeqs
    <3>3. todo'[IPC] # <<>> /\ Head(todo'[IPC]) = x
      BY <1>3, <2>0, <3>2, PatchFacts, GoesHead
    <3>4. Wire' = Append(service.inbox, x) /\ Wire = service.inbox
      BY <1>2, <2>0, <3>1, <3>3 DEF Wire, Now
    <3>5. PICK more : more = Wire' /\ Adds(more, Wire, x)
      BY <3>4, PatchFacts, SentAppend DEF Shapes
    <3>6. AlikeLeft(arb.req.move, x.req.move) /\ AlikePatches(arb.req.patch, x.req.patch)
      BY <2>0, <3>1, ToSendLeft
    <3>7. PICK none : none = <<>>
      OBVIOUS
    <3>8. IsSeq(none) /\ DOMAIN none = {} /\ arb'.req.move = none /\ arb'.req.patch = none
      <4>1. IsSeq(<<>>)
        BY ShortSeqs
      <4>2. DOMAIN <<>> = {}
        OBVIOUS
      <4>3. NoRequest.move = <<>> /\ NoRequest.patch = <<>>
        BY DEF NoRequest
      <4> QED BY <2>1, <3>7, <4>1, <4>2, <4>3, Zenon
    <3>9. /\ Flow(writers, service.landed, Wire, arb.req.move)
          /\ Lists(writers, service.landed, Wire, arb.req.move)
      BY PatchFacts DEF Flow
    <3>10. Owes(writers, service.landed, more, none, none)
      BY <3>1, <3>5, <3>6, <3>8, <3>9, PatchFacts, OwesSend
    <3>11. ASSUME NEW j \in DOMAIN x.req.patch
           PROVE  /\ x.req.patch[j].n \in Nat \ {0}
                  /\ ArrivesBy(service.landed, more, x.req.patch[j].w, x.req.patch[j].n, Len(Wire) + 1)
      <4>1. PICK p : p = arb.req.patch[j]
        OBVIOUS
      <4>2. PatchOK(writers, p)
        BY <3>6, <3>11, <4>1, PatchFacts DEF InRequest, AlikePatches
      <4>3. PICK w, n : w = p.w /\ n = p.n /\ w = x.req.patch[j].w /\ n = x.req.patch[j].n
        BY <3>6, <3>11, <4>1 DEF AlikePatches
      <4>4. w \in DOMAIN writers /\ n \in 1 .. writers[w].returned /\ writers[w].returned \in Nat
        BY <4>2, <4>3, PatchFacts DEF PatchOK, WriterShapes
      <4>5. n \in 0 .. writers[w].returned /\ n \in Nat \ {0}
        BY <4>4
      <4>6. Alike(arb.req.move, x.req.move)
        BY <3>6 DEF AlikeLeft
      <4>7. ArrivesBy(service.landed, more, w, n, Len(Wire) + 1)
        BY <3>1, <3>5, <3>9, <4>4, <4>5, <4>6, ArrivesSend
      <4> QED BY <4>1, <4>3, <4>5, <4>7
    <3>12. IsSeq(x.req.patch)
      BY <3>6 DEF AlikePatches
    <3>13. Posted(service.landed, more)
      BY <3>5, <3>11, <3>12, PatchFacts, PostedAdd
    <3>14. Debts'
      BY <1>2, <3>5, <3>8, <3>10, <3>13 DEF Debts
    <3>15. InRequest'
      BY <2>2, <3>8 DEF InRequest
    <3>16. \A y \in Elems(first) : y.do \notin Busy
      BY <3>1, <3>2 DEF Busy
    <3>17. Occupied'
      BY <1>2, <1>3, <1>4, <3>16, PatchFacts, OccupiedSame
    <3>18. Desk'
      BY <1>2, <1>4, <2>1, <3>17, DeskSame DEF PatchInv
    <3>19. Slots'
      BY <1>2, <1>4, SlotsSame DEF PatchInv
    <3> QED BY <3>14, <3>15, <3>18, <3>19 DEF Books
  <2> QED BY <1>7, <2>3, <2>4 DEF Sends
<1> QED BY <1>3, <1>5, <1>6, <1>7

LEMMA CallEndpointBooks ==
  ASSUME PatchInv, NEW t \in Threads, CallEndpoint(t)
  PROVE  Books'
<1>1. /\ t = IPC /\ todo[t] # <<>> /\ Now(t).do \in Endpoint
      /\ \E e : Goes(t, e) /\ Elems(e) = {}
      /\ service' = [service EXCEPT !.inbox = Append(@, Now(t))]
      /\ service'.inbox = Append(service.inbox, Now(t))
      /\ arb' = arb /\ writers' = writers /\ env' = env
  BY PatchFacts, CallEndpointSteps
<1>2. service'.landed = service.landed /\ free' = free
  BY <1>1, PatchFacts DEF Shapes, CallEndpoint
<1>3. PICK e : Goes(IPC, e) /\ Elems(e) = {}
  BY <1>1
<1>4. Wire' = Append(service.inbox, Now(IPC))
  BY <1>1, <1>3, PatchFacts, WireAfter
<1>5. Occupied'
  BY <1>1, <1>3, PatchFacts, EnvSame, OccupiedSame
<1>6. Desk'
  BY <1>1, <1>5, EnvSame, ArbSame, DeskSame DEF PatchInv
<1>7. Slots'
  BY <1>1, <1>2, SlotsSame DEF PatchInv
<1>8. InRequest'
  BY <1>1, PatchFacts DEF InRequest
<1>9. Debts'
  <2>1. CASE Now(IPC).do = "commit"
    <3>1. Wire' = Wire
      BY <1>1, <1>4, <2>1, WireNow
    <3> QED BY <1>1, <1>2, <3>1, PatchFacts DEF Debts
  <2>2. CASE Now(IPC).do # "commit"
    <3>1. Wire = service.inbox
      BY <2>2, WireNow
    <3>2. PICK x : x = Now(IPC) /\ x.do # "commit"
      BY <2>2
    <3>3. PICK more : more = Wire' /\ Adds(more, Wire, x)
      BY <1>4, <3>1, <3>2, PatchFacts, SentAppend DEF Shapes
    <3>4. Owes(writers, service.landed, more, arb.req.move, arb.req.patch)
      BY <3>2, <3>3, PatchFacts, OwesMessage
    <3>5. Posted(service.landed, more)
      BY <3>2, <3>3, PatchFacts, PostedAdd
    <3> QED BY <1>1, <1>2, <3>3, <3>4, <3>5 DEF Debts
  <2> QED BY <2>1, <2>2
<1> QED BY <1>6, <1>7, <1>8, <1>9 DEF Books

LEMMA ServiceBooks ==
  ASSUME PatchInv, ServiceStep
  PROVE  Books'
<1>1. PICK m : m = Head(service.inbox)
  OBVIOUS
<1>2. /\ arb' = arb /\ writers' = writers /\ todo' = todo /\ env' = env
      /\ m.do # "commit" => service'.landed = service.landed
      /\ m.do = "commit" => ServiceCommit(m)
  BY <1>1, PatchFacts, ServiceSteps
<1>3. PICK less : less = Wire' /\ Takes(less, Wire, m)
  BY <1>1, PatchFacts, WireTakes
<1>4. Occupied'
  BY <1>2, PatchFacts DEF Occupied, BusyWith
<1>5. Desk'
  BY <1>2, <1>4, EnvSame, ArbSame, DeskSame DEF PatchInv
<1>6. InRequest'
  BY <1>2, PatchFacts DEF InRequest
<1>7. /\ Flow(writers, service.landed, Wire, arb.req.move) /\ IsSeq(Wire)
      /\ Owes(writers, service.landed, Wire, arb.req.move, arb.req.patch)
      /\ Posted(service.landed, Wire) /\ PatchSeqs(Wire) /\ IsSeq(arb.req.patch)
      /\ \A w \in DOMAIN writers : IsSeq(writers[w].patches)
  BY PatchFacts, WireIsSeq
<1>8. CASE m.do # "commit"
  <2>1. free' = free
    BY <1>1, <1>8 DEF ServiceStep
  <2>2. Slots'
    BY <1>2, <1>8, <2>1, SlotsSame DEF PatchInv
  <2>3. Owes(writers, service.landed, less, arb.req.move, arb.req.patch)
    BY <1>3, <1>7, <1>8, OwesTail
  <2>4. Posted(service.landed, less)
    BY <1>3, <1>7, <1>8, PostedTail
  <2>5. Debts'
    BY <1>2, <1>3, <1>8, <2>3, <2>4 DEF Debts
  <2> QED BY <1>5, <1>6, <2>2, <2>5 DEF Books
<1>9. CASE m.do = "commit"
  <2>1. PICK move : move = m.req.move
    OBVIOUS
  <2>2. Entries(writers, service.landed) /\ Entries(writers, move)
    BY <1>3, <1>7, <1>9, <2>1 DEF Flow, Lists, Takes
  <2>3. PICK got : got = service.landed \o move
    OBVIOUS
  <2>4. Joins(got, service.landed, move)
    BY <2>2, <2>3, JoinedLists DEF Entries
  <2>5. /\ IsSeq(got) /\ \A i \in DOMAIN got : DOMAIN got[i] = EntryFields
        /\ \A w, n : Has(service.landed, w, n) \/ Has(move, w, n) => Has(got, w, n)
    <3>1. Entries(writers, got)
      BY <2>2, <2>4, JoinedEntries
    <3>2. \A w, n : Has(got, w, n) <=> Has(service.landed, w, n) \/ Has(move, w, n)
      BY <2>2, <2>4, JoinedEntries
    <3> QED BY <3>1, <3>2 DEF Entries, Entry
  <2>6. PICK left : left = [i \in DOMAIN got |->
          got[i].left - Cardinality(PatchesIn(m.req.patch, got[i].w, got[i].n))]
    OBVIOUS
  <2>7. PICK now : now = [i \in DOMAIN got |-> [got[i] EXCEPT !.left = left[i]]]
    OBVIOUS
  <2>8a. ASSUME NEW i \in DOMAIN got
         PROVE  PatchesFor(m.req.patch, got[i]) = PatchesIn(m.req.patch, got[i].w, got[i].n)
    <3>1. PICK patch, w, n : patch = m.req.patch /\ w = got[i].w /\ n = got[i].n
      OBVIOUS
    <3>2. 1 \in SentIn(Wire) /\ Wire[1] = m
      BY <1>3, <1>9 DEF Takes
    <3>3. Settled(writers, arb.reservations, patch)
      BY <3>1, <3>2 DEF PatchInv, PatchTargets, SettledPatches
    <3>4. Settled(writers, arb.reservations, move) /\ Settled(writers, arb.reservations, service.landed)
      BY <2>1, <3>2, PatchFacts DEF TargetsKept, Targets
    <3>5. got[i].target = StandsFor(arb.reservations, writers[w].target)
      <4>1. (i \in DOMAIN service.landed /\ got[i] = service.landed[i])
            \/ \E j \in DOMAIN move : got[i] = move[j]
        BY <2>4, <2>8a DEF Joins
      <4> QED BY <3>1, <3>4, <4>1 DEF Settled
    <3>6. \A j \in PatchesIn(patch, w, n) : patch[j].target = got[i].target
      BY <3>3, <3>5 DEF PatchesIn, Settled
    <3> QED BY <3>1, <3>6 DEF PatchesFor
  <2>8. now = [i \in DOMAIN got |-> [got[i] EXCEPT !.left =
                @ - Cardinality(PatchesFor(m.req.patch, got[i]))]]
    <3>1. \A i \in DOMAIN got :
            left[i] = got[i].left - Cardinality(PatchesFor(m.req.patch, got[i]))
      BY <2>6, <2>8a
    <3> QED BY <2>7, <3>1, Zenon
  <2>9. PICK flushed :
          service' = [service EXCEPT !.inbox = Tail(@), !.landed = now, !.flushed = flushed]
    BY <1>2, <1>9, <2>1, <2>3, <2>8, Zenon DEF ServiceCommit
  <2>10. service'.landed = now
    BY <2>9, PatchFacts DEF Shapes
  <2>11. Alike(got, now)
    BY <2>5, <2>7, LandedAlike DEF AlikeIn
  <2>12. Joins(got, service.landed, m.req.move)
    BY <2>1, <2>4
  <2>13. Patches(now, got, m.req.patch)
    <3>1. ASSUME NEW i \in DOMAIN got PROVE now[i].left = left[i]
      <4>1. PICK e, x, l : e = got[i] /\ x = now[i] /\ l = left[i]
        OBVIOUS
      <4>2. x = [e EXCEPT !.left = l] /\ DOMAIN e = EntryFields
        BY <2>5, <2>7, <3>1, <4>1
      <4>3. x.left = l
        BY <4>2 DEF EntryFields
      <4> QED BY <4>1, <4>3
    <3> QED BY <2>6, <2>11, <3>1 DEF Patches
  <2>14. Owes(writers, now, less, arb.req.move, arb.req.patch)
    BY <1>3, <1>7, <1>9, <2>12, <2>13, OwesLand
  <2>15. \A w, n : Has(service.landed, w, n) \/ Has(m.req.move, w, n) => Has(now, w, n)
    BY <2>1, <2>5, <2>11, AlikeLists
  <2>16. Posted(now, less)
    BY <1>3, <1>7, <2>15, PostedLand
  <2>17. Debts'
    BY <1>2, <1>3, <2>10, <2>14, <2>16 DEF Debts
  <2>18. free' = free + Len(move)
    BY <1>2, <1>9, <2>1 DEF ServiceCommit
  <2>19. Len(now) = Len(service.landed) + Len(move) /\ Len(service.landed) \in Nat /\ Len(move) \in Nat
    <3>1. /\ Len(got) = Len(service.landed) + Len(move) /\ Len(service.landed) \in Nat
          /\ Len(move) \in Nat
      BY <2>2, <2>3, ConcatSeq DEF Entries
    <3>2. Len(now) = Len(got)
      BY <2>11 DEF Alike, IsSeq
    <3> QED BY <3>1, <3>2
  <2>20. Slots'
    <3>1. Acquired' = Acquired
      BY <1>2 DEF Acquired
    <3>2. PICK a : a = Cardinality(Acquired)
      OBVIOUS
    <3>3. IsFiniteSet(Acquired) /\ a \in Nat /\ free \in Nat /\ free + a = NumSlots + Len(service.landed)
      BY <3>2, FS_CardinalityType DEF PatchInv, Slots
    <3>4. NumSlots \in Nat
      BY ArbiterConstants
    <3>5. free' \in Nat /\ free' + a = NumSlots + Len(now)
      BY <2>18, <2>19, <3>3, <3>4
    <3> QED BY <2>10, <3>1, <3>2, <3>3, <3>5 DEF Slots
  <2> QED BY <1>5, <1>6, <2>17, <2>20 DEF Books
<1> QED BY <1>8, <1>9

(***************************************************************************)
(* Updates of the request                                                  *)
(***************************************************************************)
LEMMA NothingUnpatched ==
  Unpatched(<<>>) = <<>>
<1>1. PICK e : e = <<>>
  OBVIOUS
<1>2. IsSeq(e) /\ Elems(e) = {}
  <2>1. IsSeq(<<>>) /\ Elems(<<>>) = {}
    BY ShortSeqs
  <2> QED BY <1>1, <2>1, Zenon
<1>3. IsSeq(Unpatched(e)) /\ DOMAIN Unpatched(e) = {}
  BY <1>2, CountSplit
<1>4. \A s : IsSeq(s) /\ DOMAIN s = {} => s = <<>>
  BY DEF IsSeq
<1>5. Unpatched(e) = <<>>
  BY <1>3, <1>4
<1> QED BY <1>1, <1>5, Zenon

LEMMA SameLen ==
  ASSUME NEW s, IsSeq(s), NEW r, IsSeq(r), DOMAIN r = DOMAIN s
  PROVE  Len(r) = Len(s) /\ Len(s) \in Nat
BY DEF IsSeq

LEMMA UpdateBooks ==
  ASSUME PatchInv, NEW t \in Threads, NEW w \in DOMAIN writers, writers[w].thread = t,
         NEW count, Updates(t, w, count), NEW chunk, NEW rest,
         UpdateCommitDataRequest(t, w, chunk, rest), NoneInHand(Rest(t))
  PROVE  Desk' /\ Slots'
<1>1. /\ DeskKept /\ free' = free /\ Keeps(writers', writers, w)
      /\ \A v \in DOMAIN writers : writers'[v].live = writers[v].live /\ writers'[v].id = writers[v].id
  BY PatchFacts, UpdateKeeps DEF Stream
<1>2. /\ writers' = [v \in DOMAIN writers |-> writers'[v]]
      /\ \A v \in DOMAIN writers :
           /\ writers'[v].thread = writers[v].thread
           /\ writers'[v].cur = writers[v].cur /\ writers'[v].n = writers[v].n
           /\ v # w => writers'[v] = writers[v]
      /\ arb'.reservations = arb.reservations /\ arb'.fully_bound = arb.fully_bound
      /\ service' = service /\ env' = env
  BY DEF Updates
<1>3. PICK first : Goes(t, first) /\ \A x \in Elems(first) : x = Delay
  BY DEF Updates
<1>4. DOMAIN writers' = DOMAIN writers
  BY <1>2
<1>5. /\ writers'[w].patches = Unpatched(writers[w].patches)
      /\ \A v \in DOMAIN writers : v # w => writers'[v].patches = writers[v].patches
  BY <1>1 DEF Keeps
<1>6. writers[w].patches = <<>> => writers'[w].patches = <<>>
  BY <1>5, NothingUnpatched
<1>7. Occupied'
  <2>1. WritersBut(t)
    BY <1>2, <1>4 DEF WritersBut
  <2>2. \A x \in Elems(first) : x.do \notin Final /\ BusyWith(t, x)'
    BY <1>3 DEF Delay, BusyWith, Busy, Final
  <2>3. ASSUME NEW x \in Elems(Rest(t)), BusyWith(t, x) PROVE BusyWith(t, x)'
    <3>1. x.do \notin InHand
      BY <2>3, NoneByElems
    <3>2. CASE x.do # "release"
      BY <3>1, <3>2 DEF BusyWith, Busy, InHand
    <3>3. CASE x.do = "release"
      <4>1. PICK v : v = x.w /\ v \in DOMAIN writers /\ writers[v].thread = t /\ writers[v].live = TRUE
                     /\ writers[v].patches = <<>>
        BY <2>3, <3>3 DEF BusyWith, Busy
      <4>2. writers'[v].patches = <<>>
        BY <1>5, <1>6, <4>1
      <4>3. writers'[v].thread = t /\ writers'[v].live = TRUE /\ v \in DOMAIN writers'
        BY <1>1, <1>2, <1>4, <4>1
      <4> QED BY <3>3, <4>1, <4>2, <4>3 DEF BusyWith
    <3> QED BY <3>2, <3>3
  <2>4. env'.c = env.c
    BY <1>2
  <2> QED BY <1>3, <2>1, <2>2, <2>3, <2>4, PatchFacts, OccupiedWriter
<1>8. Distinct'
  <2>1. Distinct
    BY PatchFacts
  <2> QED BY <1>1, <1>4, <2>1 DEF Distinct, DeskKept, Live
<1>9. Numbers'
  <2>1. IsSeq(writers)
    BY PatchFacts DEF WriterShapes
  <2>2. IsSeq(writers')
    BY <1>2, <2>1, SameLength
  <2>3. Len(writers') = Len(writers)
    BY <1>4, <2>1, <2>2, SameLen
  <2> QED BY <1>2, <1>4, <2>3, PatchFacts DEF Numbers
<1>10. AlwaysBound'
  BY <1>1, <1>2, PatchFacts DEF AlwaysBound, DeskKept
<1>11. PatchLists'
  <2>0. PatchLists
    BY PatchFacts
  <2>1. ASSUME NEW v \in DOMAIN writers
        PROVE  /\ IsSeq(writers'[v].patches)
               /\ writers'[v].patches # <<>> => writers[v].patches # <<>>
               /\ \A i \in DOMAIN writers'[v].patches : writers'[v].patches[i] \in Elems(writers[v].patches)
    <3>1. IsSeq(writers[v].patches)
      BY <2>0, <2>1 DEF PatchLists
    <3>2. CASE v = w
      <4>1. PICK list, now : list = writers[w].patches /\ now = writers'[w].patches /\ now = Unpatched(list)
        BY <1>5
      <4>2. IsSeq(now) /\ \A i \in DOMAIN now : now[i] \in Elems(list)
        BY <3>1, <3>2, <4>1, CountSplit
      <4> QED BY <1>6, <3>2, <4>1, <4>2
    <3>3. CASE v # w
      BY <1>5, <3>1, <3>3 DEF Elems
    <3> QED BY <3>2, <3>3
  <2>2. ASSUME NEW v \in DOMAIN writers, NEW i \in DOMAIN writers'[v].patches
        PROVE  /\ DOMAIN writers'[v].patches[i] = {"n", "done"}
               /\ writers'[v].patches[i].n \in 1 .. writers'[v].n - Current(v)'
    <3>1. PICK p : p = writers'[v].patches[i] /\ p \in Elems(writers[v].patches)
      BY <2>1, <2>2
    <3>2. DOMAIN p = {"n", "done"} /\ p.n \in 1 .. writers[v].n - Current(v)
      BY <2>0, <3>1 DEF PatchLists, Elems
    <3>3. Current(v)' = Current(v) /\ writers'[v].n = writers[v].n
      BY <1>2 DEF Current
    <3> QED BY <3>1, <3>2, <3>3
  <2>3. \A v \in DOMAIN writers : writers'[v].patches # <<>> => writers'[v].live
    BY <1>1, <2>0, <2>1 DEF PatchLists
  <2> QED BY <1>4, <2>1, <2>2, <2>3 DEF PatchLists
<1>12. Slots'
  BY <1>1, <1>2, <1>4, SlotsSame DEF PatchInv
<1> QED BY <1>7, <1>8, <1>9, <1>10, <1>11, <1>12 DEF Desk

LEMMA ReturnBooks ==
  ASSUME PatchInv, AnswerInv', NEW t \in Threads, ReturnCompletedChunk(t)
  PROVE  Books'
<1>0. PICK w : w = Now(t).w
  OBVIOUS
<1>1. /\ Updates(t, w, 1) /\ todo[t] # <<>> /\ Now(t).do = "return" /\ w \in DOMAIN writers
  BY <1>0, PatchFacts, ReturnCompletedChunkSteps
<1>2. Now(t) \in Elems(todo[t])
  BY <1>1, PatchFacts, TailSeq DEF Shapes, Now
<1>3. writers[w].thread = t
  BY <1>0, <1>1, <1>2, PatchFacts DEF Returns, InHand
<1>4. PICK chunk : UpdateCommitDataRequest(t, w, chunk, Tail(todo[t]))
  BY <1>0, Zenon DEF ReturnCompletedChunk
<1>5. NoneInHand(Rest(t))
  BY <1>1, PatchFacts, InHandRest DEF Returns, InHand
<1>6. Desk' /\ Slots'
  BY <1>1, <1>3, <1>4, <1>5, UpdateBooks
<1>7. InRequest' /\ Debts'
  BY ReturnPatches
<1> QED BY <1>6, <1>7 DEF Books

LEMMA SendPatchesBooks ==
  ASSUME PatchInv, AnswerInv', NEW t \in Threads, SendPatches(t)
  PROVE  Books'
<1>0. todo[t] = <<>>
  BY PatchFacts, SendPatchesSteps
<1>1. PICK w \in Owner(t) : UpdateCommitDataRequest(t, w, <<>>, <<>>)
  BY DEF SendPatches
<1>2. w \in DOMAIN writers /\ writers[w].thread = t
  BY <1>1 DEF Owner
<1>3. PICK none : none = <<>> /\ UpdateCommitDataRequest(t, w, none, none)
  BY <1>1, Zenon
<1>4. Len(none) = 0 /\ none = Rest(t)
  <2>1. Len(<<>>) = 0
    BY ShortSeqs
  <2>2. Rest(t) = <<>>
    BY <1>0 DEF Rest
  <2> QED BY <1>3, <2>1, <2>2, Zenon
<1>5. Updates(t, w, 0)
  BY <1>2, <1>3, <1>4, PatchFacts, UpdateSteps
<1>6. NoneInHand(Rest(t))
  BY <1>0, PatchFacts, InHandRest DEF Returns
<1>7. Desk' /\ Slots'
  BY <1>2, <1>3, <1>5, <1>6, UpdateBooks
<1>8. InRequest' /\ Debts'
  BY SendPatchesPatches
<1> QED BY <1>7, <1>8 DEF Books

(***************************************************************************)
(* Steps that bind                                                         *)
(***************************************************************************)
(* The arbiter after the update of a0.                                     *)
BoundAs(a0) ==
  /\ arb'.ids = a0.ids /\ arb'.last_id = a0.last_id /\ arb'.pending = a0.pending
  /\ arb'.direct = a0.direct /\ arb'.reservations = a0.reservations
  /\ a0.bound => /\ arb'.fully_bound = Resolved(a0)
                 /\ arb'.was_always_bound = (a0.was_always_bound /\ Resolved(a0))
  /\ ~a0.bound => /\ arb'.fully_bound = a0.fully_bound
                  /\ arb'.was_always_bound = a0.was_always_bound

LEMMA BindMembers ==
  ASSUME Shapes, NEW a0, DOMAIN a0 = DOMAIN arb, a0.bound \in BOOLEAN,
         NEW a, a = UpdateFullyBoundLocked(a0), arb' = TakePendingFlushCallbacks(a)
  PROVE  BoundAs(a0)
<1>1. a0.bound => /\ DOMAIN a = DOMAIN a0 /\ a.reservations = a0.reservations
                  /\ a.ids = a0.ids /\ a.last_id = a0.last_id /\ a.pending = a0.pending
                  /\ a.direct = a0.direct /\ a.fully_bound = Resolved(a0)
                  /\ a.was_always_bound = (a0.was_always_bound /\ Resolved(a0))
  BY DEF UpdateFullyBoundLocked, Shapes
<1>2. ~a0.bound => a = a0
  BY DEF UpdateFullyBoundLocked
<1>3. DOMAIN a = DOMAIN arb
  BY <1>1, <1>2
<1>4. /\ arb'.reservations = a.reservations /\ arb'.fully_bound = a.fully_bound
      /\ arb'.ids = a.ids /\ arb'.last_id = a.last_id /\ arb'.pending = a.pending
      /\ arb'.direct = a.direct /\ arb'.was_always_bound = a.was_always_bound
  BY <1>3 DEF TakePendingFlushCallbacks, Shapes
<1> QED BY <1>1, <1>2, <1>4 DEF BoundAs

(* An arbiter that was always bound stays so: the reservation r, if any,   *)
(* gets the value b.                                                       *)
LEMMA StaysBound ==
  ASSUME PatchInv, NEW a0, BoundAs(a0), arb.bound => a0.bound,
         a0.fully_bound = arb.fully_bound, a0.was_always_bound = arb.was_always_bound,
         NEW r, NEW b \in Ids,
         \/ a0.reservations = arb.reservations /\ a0.pending = arb.pending
         \/ /\ a0.reservations = [arb.reservations EXCEPT ![r] = b]
            /\ a0.pending = arb.pending \ {p \in arb.pending : p.target = r},
         env'.c = env.c, env'.claimed \subseteq env.c.targets
  PROVE  AlwaysBound'
<1>0. /\ AlwaysBound /\ Binding /\ BoundFirst
      /\ arb.reservations \in [Reservations -> Ids \cup {Absent, Unresolved}]
      /\ arb.fully_bound \in BOOLEAN
  BY PatchFacts DEF ThreadInv, WakeInv, WriterShapes, Shapes
<1>1. b # Unresolved
  BY ArbiterConstants DEF Ids, Unresolved, kInvalidBufferId
<1>2. Resolved(arb) => Resolved(a0)
  BY <1>0, <1>1 DEF Resolved
<1>3. arb'.was_always_bound \in BOOLEAN /\ (arb'.was_always_bound => arb'.fully_bound)
  BY <1>0 DEF BoundAs, AlwaysBound
<1>4. env.c.policy = "kStall" => arb'.was_always_bound
  BY <1>0, <1>2 DEF BoundAs, AlwaysBound, Binding, BoundFirst
<1>5. ASSUME NEW p \in arb'.pending
      PROVE  p.target \in Reservations /\ arb'.reservations[p.target] = Unresolved
  <2>1. p \in arb.pending /\ p.target \in Reservations /\ arb.reservations[p.target] = Unresolved
    BY <1>0, <1>5 DEF BoundAs, AlwaysBound
  <2>2. a0.reservations[p.target] = Unresolved
    BY <1>0, <1>5, <2>1 DEF BoundAs
  <2> QED BY <2>1, <2>2 DEF BoundAs
<1> QED BY <1>3, <1>4, <1>5 DEF AlwaysBound

LEMMA BindBooks ==
  ASSUME PatchInv, BindStep, AlwaysBound', free' = free, env'.c = env.c,
         arb'.ids = arb.ids, arb'.last_id = arb.last_id, arb'.direct = arb.direct
  PROVE  Books'
<1>1. PICK t \in Threads : \E first : Binds(t, first)
  BY DEF BindStep
<1>2. PICK first : Binds(t, first)
  BY <1>1
<1>3. /\ Goes(t, first) /\ (todo[t] # <<>> => Now(t).do # "commit")
      /\ \A x \in Elems(first) : x.do \notin Busy /\ x.do # "commit"
      /\ arb'.req = arb.req /\ writers' = writers /\ service' = service
  BY <1>2 DEF Binds, Busy
<1>4. Occupied'
  BY <1>3, PatchFacts, OccupiedSame
<1>5. Distinct' /\ Numbers' /\ PatchLists'
  BY <1>3, PatchFacts DEF Distinct, Numbers, PatchLists, Current, Live
<1>6. Slots'
  BY <1>3, SlotsSame DEF PatchInv
<1>7. Wire' = Wire
  BY <1>3, PatchFacts, WireKept
<1>8. PatchesSame /\ RequestIs(arb'.req)
  BY <1>3, PatchFacts DEF PatchesSame, InRequest
<1>9. InRequest' /\ Debts'
  BY <1>3, <1>7, <1>8, CalmDebts
<1> QED BY <1>4, <1>5, <1>6, <1>9 DEF Books, Desk

LEMMA BindToProducerEndpointBooks ==
  ASSUME PatchInv, BindToProducerEndpoint
  PROVE  Books'
<1>0. Shapes
  BY PatchFacts
<1>1. PICK a0 : a0 = [arb EXCEPT !.bound = TRUE]
  OBVIOUS
<1>2. PICK a : a = UpdateFullyBoundLocked(a0)
  OBVIOUS
<1>3. arb' = TakePendingFlushCallbacks(a) /\ free' = free /\ env' = env
  BY <1>1, <1>2, Zenon DEF BindToProducerEndpoint
<1>4. /\ DOMAIN a0 = DOMAIN arb /\ a0.bound = TRUE /\ a0.ids = arb.ids
      /\ a0.last_id = arb.last_id /\ a0.direct = arb.direct
      /\ a0.fully_bound = arb.fully_bound /\ a0.was_always_bound = arb.was_always_bound
      /\ a0.reservations = arb.reservations /\ a0.pending = arb.pending
  BY <1>0, <1>1 DEF Shapes
<1>5. BoundAs(a0)
  BY <1>0, <1>2, <1>3, <1>4, BindMembers
<1>6. PICK b : b \in Ids
  BY DEF Ids
<1>7. env'.c = env.c /\ env'.claimed \subseteq env.c.targets
  BY <1>3, EnvSame
<1>8. AlwaysBound'
  BY <1>4, <1>5, <1>6, <1>7, StaysBound
<1>9. BindStep
  BY PatchFacts, BindToProducerEndpointSteps
<1>10. arb'.ids = arb.ids /\ arb'.last_id = arb.last_id /\ arb'.direct = arb.direct
  BY <1>4, <1>5 DEF BoundAs
<1> QED BY <1>3, <1>7, <1>8, <1>9, <1>10, BindBooks

LEMMA BindImplBooks ==
  ASSUME PatchInv, BindStep, NEW t, NEW r, NEW b \in Ids, NEW rest,
         BindStartupTargetBufferImpl(t, r, b, rest),
         env'.c = env.c, env'.claimed \subseteq env.c.targets
  PROVE  Books'
<1>0. Shapes
  BY PatchFacts
<1>1. PICK res, pend : /\ res = [arb.reservations EXCEPT ![r] = b]
                       /\ pend = arb.pending \ {p \in arb.pending : p.target = r}
  OBVIOUS
<1>2. PICK a0 : a0 = [arb EXCEPT !.reservations = res, !.pending = pend]
  OBVIOUS
<1>3. a0 = [arb EXCEPT !.reservations[r] = b, !.pending = @ \ {p \in arb.pending : p.target = r}]
  BY <1>1, <1>2, Zenon
<1>4. PICK a : a = UpdateFullyBoundLocked(a0)
  OBVIOUS
<1>5. arb' = TakePendingFlushCallbacks(a) /\ free' = free
  BY <1>3, <1>4, Zenon DEF BindStartupTargetBufferImpl
<1>6. /\ DOMAIN a0 = DOMAIN arb /\ a0.bound = arb.bound /\ a0.bound \in BOOLEAN /\ a0.ids = arb.ids
      /\ a0.last_id = arb.last_id /\ a0.direct = arb.direct
      /\ a0.fully_bound = arb.fully_bound /\ a0.was_always_bound = arb.was_always_bound
      /\ a0.reservations = res /\ a0.pending = pend
  BY <1>0, <1>2 DEF Shapes
<1>7. BoundAs(a0)
  BY <1>0, <1>4, <1>5, <1>6, BindMembers
<1>8. AlwaysBound'
  BY <1>1, <1>6, <1>7, StaysBound
<1>9. arb'.ids = arb.ids /\ arb'.last_id = arb.last_id /\ arb'.direct = arb.direct
  BY <1>6, <1>7 DEF BoundAs
<1> QED BY <1>5, <1>8, <1>9, BindBooks

LEMMA ClaimBooks ==
  ASSUME PatchInv, NEW r, Claim(r), r \in env.c.targets
  PROVE  env'.c = env.c /\ env'.claimed \subseteq env.c.targets
<1>1. env'.c = env.c /\ env'.claimed = env.claimed \cup {r}
  BY PatchFacts DEF Claim, WriterShapes
<1> QED BY <1>1, PatchFacts DEF AlwaysBound

LEMMA BindStartupTargetBufferBooks ==
  ASSUME PatchInv, NEW r \in Reservations, NEW b \in Buffers, BindStartupTargetBuffer(r, b)
  PROVE  Books'
<1>1. BindStep /\ Claim(r)
  BY PatchFacts, BindStartupTargetBufferSteps
<1>2. PICK e : BindStartupTargetBufferImpl(IPC, r, b, e)
  BY DEF BindStartupTargetBuffer
<1>3. r \in env.c.targets /\ b \in Ids
  BY DEF BindStartupTargetBuffer, Ids
<1>4. env'.c = env.c /\ env'.claimed \subseteq env.c.targets
  BY <1>1, <1>3, ClaimBooks
<1> QED BY <1>1, <1>2, <1>3, <1>4, BindImplBooks

LEMMA AbortBooks ==
  ASSUME PatchInv, NEW t \in Threads, NEW r \in Reservations,
         AbortStartupTracingForReservation(t, r)
  PROVE  Books'
<1>1. CASE MustPostAbort(t)
  BY <1>1, AbortPostBooks
<1>2. CASE ~MustPostAbort(t)
  <2>1. BindStep /\ Claim(r)
    BY <1>2, PatchFacts, AbortBindSteps
  <2>2. PICK e, b : BindStartupTargetBufferImpl(t, r, b, e) /\ b \in Ids
    BY <1>2 DEF AbortStartupTracingForReservation, Ids
  <2>3. r \in env.c.targets
    BY DEF AbortStartupTracingForReservation
  <2>4. env'.c = env.c /\ env'.claimed \subseteq env.c.targets
    BY <2>1, <2>3, ClaimBooks
  <2> QED BY <2>1, <2>2, <2>4, BindImplBooks
<1> QED BY <1>1, <1>2

LEMMA RunAbortBooks ==
  ASSUME PatchInv, RunAbort
  PROVE  Books'
<1>1. BindStep /\ env' = env
  BY PatchFacts, RunAbortSteps
<1>2. PICK e, b, r : BindStartupTargetBufferImpl(IPC, r, b, e) /\ b \in Ids
  BY DEF RunAbort, Ids
<1>3. env'.c = env.c /\ env'.claimed \subseteq env.c.targets
  BY <1>1, EnvSame
<1> QED BY <1>1, <1>2, <1>3, BindImplBooks

(***************************************************************************)
(* Steps for a writer                                                      *)
(***************************************************************************)
(* The writer w becomes rec, for the chunks that it has returned as it was.*)
ListOf(rec) ==
  /\ IsSeq(rec.patches) /\ (rec.patches # <<>> => rec.live)
  /\ \A i \in DOMAIN rec.patches :
       /\ DOMAIN rec.patches[i] = {"n", "done"}
       /\ rec.patches[i].n \in 1 .. rec.n - (IF rec.cur THEN 1 ELSE 0)
Revises(w, rec) ==
  /\ writers' = [writers EXCEPT ![w] = rec]
  /\ rec.id = writers[w].id /\ rec.live = writers[w].live /\ rec.returned = writers[w].returned
  /\ rec.n <= env.c.chunks /\ ListOf(rec)
  /\ \A n \in 1 .. rec.returned : CountFor(rec.patches, n) = CountFor(writers[w].patches, n)

LEMMA RevisedBooks ==
  ASSUME PatchInv, NEW t \in Threads, NEW first, Goes(t, first),
         \A x \in Elems(first) : x.do # "commit",
         todo[t] # <<>> => Now(t).do # "commit",
         NEW w \in DOMAIN writers, NEW rec, Revises(w, rec), Occupied', Slots',
         arb' = arb, service' = service, env'.c = env.c, env'.claimed = env.claimed
  PROVE  Books'
<1>0. /\ Distinct /\ Numbers /\ AlwaysBound /\ PatchLists /\ IsSeq(writers)
  BY PatchFacts DEF WriterShapes
<1>1. /\ DOMAIN writers' = DOMAIN writers /\ writers'[w] = rec
      /\ \A v \in DOMAIN writers : v # w => writers'[v] = writers[v]
  BY DEF Revises
<1>2. \A v \in DOMAIN writers : /\ writers'[v].id = writers[v].id /\ writers'[v].live = writers[v].live
                                /\ writers'[v].returned = writers[v].returned
                                /\ writers'[v].n <= env.c.chunks
  BY <1>0, <1>1 DEF Revises, Numbers
<1>3. Distinct'
  BY <1>0, <1>1, <1>2 DEF Distinct, Live
<1>4. Numbers'
  <2>1. writers' = [v \in DOMAIN writers |-> writers'[v]]
    BY DEF Revises
  <2>2. IsSeq(writers')
    BY <1>0, <2>1, SameLength
  <2>3. Len(writers') = Len(writers)
    BY <1>0, <1>1, <2>2, SameLen
  <2> QED BY <1>0, <1>1, <1>2, <2>3 DEF Numbers
<1>5. AlwaysBound'
  BY <1>0 DEF AlwaysBound
<1>6. PatchLists'
  <2>1. \A v \in DOMAIN writers : ListOf(writers[v])
    BY <1>0 DEF PatchLists, ListOf, Current
  <2>2. \A v \in DOMAIN writers : ListOf(writers'[v])
    BY <1>1, <2>1 DEF Revises
  <2> QED BY <1>1, <2>2 DEF PatchLists, ListOf, Current
<1>7. PatchesSame
  <2>1. ASSUME NEW v \in DOMAIN writers, NEW n \in 1 .. writers[v].returned
        PROVE  CountFor(writers'[v].patches, n) = CountFor(writers[v].patches, n)
    BY <1>1, <2>1 DEF Revises
  <2> QED BY <1>1, <1>2, <2>1 DEF PatchesSame
<1>8. Wire' = Wire
  BY PatchFacts, WireKept
<1>9. InRequest' /\ Debts'
  BY <1>7, <1>8, ArbSame, CalmDebts
<1> QED BY <1>3, <1>4, <1>5, <1>6, <1>9 DEF Books, Desk

(* The writer w gives its chunk back, which needs no patch.                *)
LEMMA GivesBackBooks ==
  ASSUME PatchInv, NEW t \in Threads, todo[t] = <<>>, NEW w \in Owner(t),
         writers' = Dropped(w), NEW first, Goes(t, first),
         writers[w].patches = <<>> \/ \A x \in Elems(first) : x # Release(w),
         \A x \in Elems(first) :
           x \in Elems(ReturnCurrent(w)) \/ x = Release(w) \/ (x.do \notin Busy /\ x.do # "commit"),
         FinalLast(first),
         arb' = arb, service' = service, free' = free, env'.c = env.c, env'.claimed = env.claimed
  PROVE  Books'
<1>0. w \in DOMAIN writers /\ writers[w].thread = t /\ writers[w].live
  BY DEF Owner
<1>1. PICK rec : rec = [writers[w] EXCEPT !.cur = FALSE] /\ writers' = [writers EXCEPT ![w] = rec]
  BY DEF Dropped
<1>2. /\ rec.id = writers[w].id /\ rec.live = writers[w].live /\ rec.returned = writers[w].returned
      /\ rec.n = writers[w].n /\ rec.patches = writers[w].patches /\ rec.thread = t
  BY <1>0, <1>1, PatchFacts DEF WriterShapes
<1>3. ListOf(rec)
  <2>1. ~rec.cur /\ Current(w) \in 0 .. 1 /\ rec.n \in Nat
    BY <1>0, <1>1, <1>2, PatchFacts DEF WriterShapes, Current
  <2>2. \A i \in DOMAIN rec.patches : /\ DOMAIN rec.patches[i] = {"n", "done"}
                                     /\ rec.patches[i].n \in 1 .. rec.n
    <3>1. \A i \in DOMAIN rec.patches : /\ DOMAIN rec.patches[i] = {"n", "done"}
                                       /\ rec.patches[i].n \in 1 .. rec.n - Current(w)
      BY <1>0, <1>2, PatchFacts DEF PatchLists
    <3> QED BY <2>1, <3>1
  <2>3. IsSeq(rec.patches) /\ rec.live
    BY <1>0, <1>2, PatchFacts DEF PatchLists
  <2> QED BY <2>1, <2>2, <2>3 DEF ListOf
<1>4. Revises(w, rec)
  <2>1. rec.n <= env.c.chunks
    BY <1>0, <1>2, PatchFacts DEF Numbers
  <2>2. \A n \in 1 .. rec.returned : CountFor(rec.patches, n) = CountFor(writers[w].patches, n)
    BY <1>2
  <2>3. writers' = [writers EXCEPT ![w] = rec]
    BY <1>1
  <2> QED BY <1>2, <1>3, <2>1, <2>2, <2>3 DEF Revises
<1>5. /\ DOMAIN writers' = DOMAIN writers /\ writers'[w] = rec
      /\ \A v \in DOMAIN writers : v # w => writers'[v] = writers[v]
  BY <1>0, <1>4 DEF Revises
<1>6. writers[w].live = TRUE
  BY <1>0, PatchFacts DEF Distinct
<1>7. Occupied'
  <2>1. WritersBut(t)
    BY <1>0, <1>5 DEF WritersBut
  <2>2. ASSUME NEW x \in Elems(first) PROVE BusyWith(t, x)' /\ x.do # "commit"
    <3>1. CASE x \in Elems(ReturnCurrent(w))
      <4>1. x = Return(w, writers[w].n, 0) /\ writers[w].cur
        BY <3>1, ReturnCurrentFacts
      <4>2. x.do = "return" /\ x.w = w /\ x.k = 0 /\ x.n = writers[w].n
        BY <4>1 DEF Return
      <4>3. CountFor(writers'[w].patches, x.n) = 0
        <5>1. \A i \in DOMAIN writers[w].patches : writers[w].patches[i].n \in 1 .. writers[w].n - 1
          BY <1>0, <4>1, PatchFacts DEF PatchLists, Current
        <5>2. writers[w].n \in Nat /\ writers'[w].patches = writers[w].patches
          BY <1>0, <1>2, <1>5, PatchFacts DEF WriterShapes
        <5>3. \A i \in DOMAIN writers[w].patches : writers[w].patches[i].n # writers[w].n
          BY <5>1, <5>2
        <5>4. {i \in DOMAIN writers[w].patches : writers[w].patches[i].n = writers[w].n} = {}
          BY <5>3
        <5>5. CountFor(writers[w].patches, writers[w].n) = 0
          BY <5>4, FS_EmptySet DEF CountFor
        <5> QED BY <4>2, <5>2, <5>5
      <4> QED BY <1>0, <1>2, <1>5, <1>6, <4>2, <4>3 DEF BusyWith
    <3>2. CASE x = Release(w)
      <4>1. x.do = "release" /\ x.w = w
        BY <3>2 DEF Release
      <4>2. writers'[w].patches = <<>>
        BY <1>2, <1>5, <2>2, <3>2
      <4> QED BY <1>0, <1>2, <1>5, <1>6, <4>1, <4>2 DEF BusyWith
    <3>3. CASE x.do \notin Busy /\ x.do # "commit"
      BY <3>3 DEF BusyWith
    <3> QED BY <2>2, <3>1, <3>2, <3>3
  <2>3. Rest(t) = <<>> /\ Elems(Rest(t)) = {}
    BY ShortSeqs DEF Rest
  <2> QED BY <2>1, <2>2, <2>3, PatchFacts, OccupiedWriter
<1>8. \A x \in Elems(first) : x.do # "commit"
  <2>1. \A x \in Elems(ReturnCurrent(w)) : x.do # "commit"
    BY ReturnCurrentFacts, ReturnKind
  <2> QED BY <2>1 DEF Release
<1>9. Slots'
  <2>1. \A v \in DOMAIN writers : writers'[v].n = writers[v].n
    BY <1>2, <1>5
  <2> QED BY <1>5, <2>1, SlotsSame DEF PatchInv
<1> QED BY <1>0, <1>4, <1>7, <1>8, <1>9, RevisedBooks

LEMMA DestroyTraceWriterBooks ==
  ASSUME PatchInv, NEW t \in Threads, DestroyTraceWriter(t)
  PROVE  Books'
<1>0. /\ todo[t] = <<>> /\ arb' = arb /\ service' = service /\ env' = env /\ free' = free
  BY DEF DestroyTraceWriter, Idle
<1>1. PICK w \in Owner(t) :
        /\ todo' = [todo EXCEPT ![t] = ReturnCurrent(w)
                   \o (IF writers[w].cur THEN <<Flush({})>> ELSE <<>>) \o <<Release(w)>>]
        /\ writers' = Dropped(w) /\ writers[w].patches = <<>>
  BY DEF DestroyTraceWriter, Start, Dropped
<1>2. PICK flush : /\ flush = IF writers[w].cur THEN <<Flush({})>> ELSE <<>>
                   /\ IsSeq(flush) /\ Elems(flush) \subseteq {Flush({})}
  BY ShortSeqs
<1>3. PICK x, release : /\ x = Release(w) /\ release = <<x>> /\ IsSeq(release) /\ Elems(release) = {x}
                        /\ DOMAIN release = {1} /\ Len(release) = 1
  <2>1. PICK x : x = Release(w)
    OBVIOUS
  <2>2. IsSeq(<<x>>) /\ Elems(<<x>>) = {x} /\ DOMAIN <<x>> = {1} /\ Len(<<x>>) = 1
    BY ShortSeqs
  <2> QED BY <2>1, <2>2
<1>4. PICK both : both = ReturnCurrent(w) \o flush
  OBVIOUS
<1>5. IsSeq(both) /\ Elems(both) = Elems(ReturnCurrent(w)) \cup Elems(flush)
  BY <1>2, <1>4, ReturnCurrentFacts, ConcatSeq
<1>6. PICK first : first = both \o release /\ todo' = [todo EXCEPT ![t] = first]
  BY <1>1, <1>2, <1>3, <1>4
<1>7. IsSeq(first) /\ Elems(first) = Elems(both) \cup Elems(release)
  BY <1>3, <1>5, <1>6, ConcatSeq
<1>8. Goes(t, first)
  BY <1>0, <1>6, <1>7, PatchFacts, StartGoes
<1>9. \A y \in Elems(ReturnCurrent(w)) : y.do = "return"
  BY ReturnCurrentFacts, ReturnKind
<1>10. \A y \in Elems(flush) : y.do = "flush"
  BY <1>2, FlushKind
<1>11. FinalLast(first)
  <2>1. \A y \in Elems(both) : y.do \notin Final
    BY <1>5, <1>9, <1>10 DEF Final
  <2>2. FinalLast(release)
    BY <1>3 DEF FinalLast
  <2> QED BY <1>3, <1>5, <1>6, <2>1, <2>2, FinalConcat
<1>12. \A y \in Elems(first) :
         y \in Elems(ReturnCurrent(w)) \/ y = Release(w) \/ (y.do \notin Busy /\ y.do # "commit")
  BY <1>3, <1>5, <1>7, <1>10 DEF Busy
<1> QED BY <1>0, <1>1, <1>8, <1>11, <1>12, GivesBackBooks

LEMMA FlushWriterBooks ==
  ASSUME PatchInv, NEW t \in Threads, FlushWriter(t)
  PROVE  Books'
<1>0. /\ todo[t] = <<>> /\ arb' = arb /\ service' = service /\ free' = free
  BY DEF FlushWriter, Idle
<1>1. PICK w \in Owner(t) :
        /\ todo' = [todo EXCEPT ![t] = ReturnCurrent(w)
              \o <<Flush({[k |-> env.flushes + 1, w |-> w, n |-> writers[w].n]})>>]
        /\ writers' = Dropped(w) /\ env' = [env EXCEPT !.flushes = @ + 1]
  BY DEF FlushWriter, Start, Dropped
<1>2. PICK cb : cb = [k |-> env.flushes + 1, w |-> w, n |-> writers[w].n]
  OBVIOUS
<1>3. PICK x : x = Flush({cb}) /\ x.do = "flush"
  BY FlushKind
<1>4. PICK rest : rest = <<x>> /\ IsSeq(rest) /\ Elems(rest) = {x}
  BY ShortSeqs
<1>5. PICK first : first = ReturnCurrent(w) \o rest /\ todo' = [todo EXCEPT ![t] = first]
  BY <1>1, <1>2, <1>3, <1>4
<1>6. IsSeq(first) /\ Elems(first) = Elems(ReturnCurrent(w)) \cup Elems(rest)
  BY <1>4, <1>5, ReturnCurrentFacts, ConcatSeq
<1>7. Goes(t, first)
  BY <1>0, <1>5, <1>6, PatchFacts, StartGoes
<1>8. \A y \in Elems(ReturnCurrent(w)) : y.do = "return"
  BY ReturnCurrentFacts, ReturnKind
<1>9. FinalLast(first)
  BY <1>3, <1>4, <1>6, <1>8 DEF FinalLast, Final, Elems
<1>10. \A y \in Elems(first) :
         y \in Elems(ReturnCurrent(w)) \/ y = Release(w) \/ (y.do \notin Busy /\ y.do # "commit")
  BY <1>3, <1>4, <1>6 DEF Busy
<1>11. env'.c = env.c /\ env'.claimed = env.claimed
  BY <1>1, PatchFacts DEF WriterShapes
<1>12. writers' = Dropped(w) /\ \A y \in Elems(first) : y # Release(w)
  BY <1>1, <1>3, <1>4, <1>6, <1>8 DEF Release
<1> QED BY <1>0, <1>7, <1>9, <1>10, <1>11, <1>12, GivesBackBooks

LEMMA GetNewChunkExhaustedBooks ==
  ASSUME PatchInv, NEW t \in Threads, GetNewChunkExhausted(t)
  PROVE  Books'
<1>0. /\ todo[t] = <<>> /\ arb' = arb /\ service' = service /\ env' = env /\ free' = free
  BY DEF GetNewChunkExhausted, Idle
<1>1. PICK w \in Owner(t) :
        /\ writers[w].n < env.c.chunks
        /\ \/ todo' = [todo EXCEPT ![t] = <<Stall(w, 1)>>] /\ writers' = writers
           \/ todo' = [todo EXCEPT ![t] = ReturnCurrent(w)] /\ writers' = Dropped(w)
  BY DEF GetNewChunkExhausted, Start, Dropped
<1>2. CASE todo' = [todo EXCEPT ![t] = <<Stall(w, 1)>>] /\ writers' = writers
  <2>1. PICK x : x = Stall(w, 1) /\ x.do = "stall" /\ x.w = w
    BY StallKind
  <2>2. PICK first : first = <<x>> /\ IsSeq(first) /\ Elems(first) = {x}
    BY ShortSeqs
  <2>3. Goes(t, first)
    BY <1>0, <1>2, <2>1, <2>2, PatchFacts, StartGoes
  <2>4. w \in DOMAIN writers /\ writers[w].thread = t /\ writers[w].live = TRUE
    BY PatchFacts DEF Owner, Distinct
  <2>5. \A y \in Elems(first) : y.do # "commit" /\ BusyWith(t, y)'
    BY <1>0, <1>1, <1>2, <2>1, <2>2, <2>4 DEF BusyWith
  <2>6. WritersBut(t)
    BY <1>2 DEF WritersBut
  <2>7. Rest(t) = <<>> /\ Elems(Rest(t)) = {} /\ env'.c = env.c /\ FinalLast(first)
    BY <1>0, <2>2, ShortSeqs DEF Rest, FinalLast
  <2>8. Occupied'
    BY <2>3, <2>5, <2>6, <2>7, PatchFacts, OccupiedWriter
  <2>9. Desk'
    BY <1>0, <1>2, <2>8, ArbSame, EnvSame, DeskSame DEF PatchInv
  <2>10. Slots'
    BY <1>0, <1>2, SlotsSame DEF PatchInv
  <2>11. Wire' = Wire
    BY <1>0, <2>3, <2>5, PatchFacts, WireKept
  <2>12. PatchesSame
    BY <1>2 DEF PatchesSame
  <2>13. InRequest' /\ Debts'
    BY <1>0, <2>11, <2>12, ArbSame, CalmDebts
  <2> QED BY <2>9, <2>10, <2>13 DEF Books
<1>3. CASE todo' = [todo EXCEPT ![t] = ReturnCurrent(w)] /\ writers' = Dropped(w)
  <2>1. PICK first : first = ReturnCurrent(w) /\ IsSeq(first)
    BY ReturnCurrentFacts
  <2>2. Goes(t, first)
    BY <1>0, <1>3, <2>1, PatchFacts, StartGoes
  <2>3. \A y \in Elems(first) : y.do = "return" /\ y \in Elems(ReturnCurrent(w))
    BY <2>1, ReturnCurrentFacts, ReturnKind
  <2>4. FinalLast(first)
    BY <2>3 DEF FinalLast, Final, Elems
  <2>5. \A y \in Elems(first) : y # Release(w)
    BY <2>3 DEF Release
  <2> QED BY <1>0, <1>1, <1>3, <2>2, <2>3, <2>4, <2>5, GivesBackBooks
<1> QED BY <1>1, <1>2, <1>3

(* The patches of a chunk that a writer returns.                           *)
Fresh(m, k) == [i \in 1 .. k |-> [n |-> m, done |-> FALSE]]

LEMMA FreshPatches ==
  ASSUME NEW m \in Nat, NEW k \in Nat
  PROVE  /\ IsSeq(Fresh(m, k)) /\ CountFor(Fresh(m, k), m) = k
         /\ \A n : n # m => CountFor(Fresh(m, k), n) = 0
         /\ DOMAIN Fresh(m, k) = 1 .. k
         /\ \A i \in DOMAIN Fresh(m, k) : /\ DOMAIN Fresh(m, k)[i] = {"n", "done"}
                                          /\ Fresh(m, k)[i].n = m
<1>1. PICK x : x = [n |-> m, done |-> FALSE]
  OBVIOUS
<1>2. x.n = m /\ DOMAIN x = {"n", "done"}
  BY <1>1
<1>3. PICK f : f = Fresh(m, k)
  OBVIOUS
<1>4. f = [i \in 1 .. k |-> x]
  BY <1>1, <1>3 DEF Fresh
<1>5. DOMAIN f = 1 .. k /\ \A i \in 1 .. k : f[i] = x
  BY <1>4
<1>6. IsSeq(f)
  <2>1. f \in [1 .. k -> Elems(f)]
    BY <1>4, <1>5 DEF Elems
  <2> QED BY <2>1 DEF IsSeq
<1>7. CountFor(f, m) = k
  <2>1. {i \in DOMAIN f : f[i].n = m} = 1 .. k
    BY <1>2, <1>5
  <2>2. \A i, j \in Int : i <= j => Cardinality(i .. j) = j - i + 1
    BY FS_Interval
  <2>3. k > 0 => Cardinality(1 .. k) = k
    BY <2>2
  <2>4. k = 0 => 1 .. k = {}
    OBVIOUS
  <2>5. k = 0 => Cardinality(1 .. k) = 0
    BY <2>4, FS_EmptySet
  <2>6. PICK c : c = Cardinality(1 .. k)
    OBVIOUS
  <2>7. c = k
    BY <2>3, <2>5, <2>6
  <2> QED BY <2>1, <2>6, <2>7 DEF CountFor
<1>8. ASSUME NEW n, n # m PROVE CountFor(f, n) = 0
  <2>1. {i \in DOMAIN f : f[i].n = n} = {}
    BY <1>2, <1>5, <1>8
  <2> QED BY <2>1, FS_EmptySet DEF CountFor
<1> QED BY <1>2, <1>3, <1>5, <1>6, <1>7, <1>8

(* A writer has no patch for a chunk that it has not got.                  *)
LEMMA CountBeyond ==
  ASSUME NEW list, NEW m \in Nat, \A i \in DOMAIN list : list[i].n \in 1 .. m - 1
  PROVE  CountFor(list, m) = 0
<1>1. {i \in DOMAIN list : list[i].n = m} = {}
  OBVIOUS
<1> QED BY <1>1, FS_EmptySet DEF CountFor

(* A chunk is acquired.                                                    *)
LEMMA SlotsTake ==
  ASSUME Slots, free > 0, free' = free - 1, service'.landed = service.landed,
         DOMAIN writers' = DOMAIN writers, NEW w \in DOMAIN writers, writers[w].n \in Nat,
         writers'[w].n = writers[w].n + 1,
         \A v \in DOMAIN writers : v # w => writers'[v].n = writers[v].n
  PROVE  Slots'
<1>1. PICK x : x = <<w, writers[w].n + 1>>
  OBVIOUS
<1>2. Acquired' = Acquired \cup {x}
  <2>1. \A p : p \in Acquired <=> \E v \in DOMAIN writers : \E n \in 1 .. writers[v].n : p = <<v, n>>
    BY DEF Acquired
  <2>2. \A p : p \in Acquired' <=> \E v \in DOMAIN writers : \E n \in 1 .. writers'[v].n : p = <<v, n>>
    BY DEF Acquired
  <2>3. ASSUME NEW p \in Acquired PROVE p \in Acquired'
    <3>1. PICK v \in DOMAIN writers, n \in Int : n \in 1 .. writers[v].n /\ p = <<v, n>>
      BY <2>1, <2>3
    <3>2. n \in 1 .. writers'[v].n
      BY <3>1
    <3> QED BY <2>2, <3>1, <3>2
  <2>4. x \in Acquired'
    <3>1. writers[w].n + 1 \in 1 .. writers'[w].n
      OBVIOUS
    <3> QED BY <1>1, <2>2, <3>1
  <2>5. ASSUME NEW p \in Acquired' PROVE p \in Acquired \cup {x}
    <3>1. PICK v \in DOMAIN writers, n \in Int : n \in 1 .. writers'[v].n /\ p = <<v, n>>
      BY <2>2, <2>5
    <3>2. CASE v = w /\ n = writers[w].n + 1
      BY <1>1, <3>1, <3>2
    <3>3. CASE ~(v = w /\ n = writers[w].n + 1)
      <4>1. n \in 1 .. writers[v].n
        BY <3>1, <3>3
      <4> QED BY <2>1, <3>1, <4>1
    <3> QED BY <3>2, <3>3
  <2> QED BY <2>3, <2>4, <2>5
<1>3. x \notin Acquired
  BY <1>1 DEF Acquired
<1>4. IsFiniteSet(Acquired) /\ Cardinality(Acquired) \in Nat
  BY FS_CardinalityType DEF Slots
<1>5. IsFiniteSet(Acquired') /\ Cardinality(Acquired') = Cardinality(Acquired) + 1
  BY <1>2, <1>3, <1>4, FS_AddElement
<1> QED BY <1>4, <1>5 DEF Slots

(* A writer takes a chunk: the thread was idle or waited for it.           *)
LEMMA TakeChunkBooks ==
  ASSUME PatchInv, NEW t \in Threads, NEW w \in DOMAIN writers, writers[w].thread = t,
         writers[w].live = TRUE, NEW k \in Nat, k > 0 => writers[w].cur,
         NEW rest, IsSeq(rest), rest = Rest(t), TakeChunk(t, w, k, rest),
         todo[t] # <<>> => Now(t).do = "stall", Rest(t) = <<>>,
         free > 0, writers[w].n < env.c.chunks,
         arb' = arb, service' = service, env' = env
  PROVE  Books'
<1>0. Shapes /\ WriterShapes /\ Division /\ Returns /\ Numbers /\ PatchLists
  BY PatchFacts
<1>1. PICK sync \in BOOLEAN : \E list :
        /\ todo' = [todo EXCEPT ![t] = (IF sync THEN <<Flush({})>> ELSE <<>>)
             \o (IF writers[w].cur THEN <<Return(w, writers[w].n, k)>> ELSE <<>>) \o rest]
        /\ list = writers[w].patches \o Fresh(writers[w].n, k)
        /\ writers' = [writers EXCEPT ![w].cur = TRUE, ![w].n = @ + 1, ![w].patches = list]
        /\ free' = free - 1
  BY DEF TakeChunk, Fresh
<1>b. PICK list :
        /\ todo' = [todo EXCEPT ![t] = (IF sync THEN <<Flush({})>> ELSE <<>>)
             \o (IF writers[w].cur THEN <<Return(w, writers[w].n, k)>> ELSE <<>>) \o rest]
        /\ list = writers[w].patches \o Fresh(writers[w].n, k)
        /\ writers' = [writers EXCEPT ![w].cur = TRUE, ![w].n = @ + 1, ![w].patches = list]
        /\ free' = free - 1
  BY <1>1
<1>2. PICK flush, back : /\ flush = IF sync THEN <<Flush({})>> ELSE <<>>
                         /\ back = IF writers[w].cur THEN <<Return(w, writers[w].n, k)>>
                                   ELSE <<>>
  OBVIOUS
<1>3. IsSeq(flush) /\ Elems(flush) \subseteq {Flush({})}
  BY <1>2, ShortSeqs
<1>4. /\ IsSeq(back)
      /\ writers[w].cur => Elems(back) = {Return(w, writers[w].n, k)}
      /\ ~writers[w].cur => Elems(back) = {}
  <2>1. CASE writers[w].cur
    <3>1. PICK x : x = Return(w, writers[w].n, k) /\ back = <<x>>
      BY <2>1, <1>2
    <3> QED BY <2>1, <3>1, ShortSeqs
  <2>2. CASE ~writers[w].cur
    <3>1. back = <<>>
      BY <2>2, <1>2
    <3> QED BY <2>2, <3>1, ShortSeqs
  <2> QED BY <2>1, <2>2
<1>5. PICK first : first = flush \o back
  OBVIOUS
<1>6. IsSeq(first) /\ Elems(first) = Elems(flush) \cup Elems(back)
  BY <1>3, <1>4, <1>5, ConcatSeq
<1>7. todo' = [todo EXCEPT ![t] = first \o rest]
  BY <1>b, <1>2, <1>5
<1>8. Goes(t, first)
  BY <1>6, <1>7 DEF Goes
<1>9. PICK rec :
        /\ writers' = [writers EXCEPT ![w] = rec]
        /\ rec = [writers[w] EXCEPT !.cur = TRUE, !.n = @ + 1, !.patches = list]
  <2>1. writers' = [writers EXCEPT ![w] =
                      [writers[w] EXCEPT !.cur = TRUE, !.n = @ + 1, !.patches = list]]
    BY <1>b
  <2> QED BY <2>1, Zenon
<1>10. /\ rec.thread = writers[w].thread /\ rec.id = writers[w].id /\ rec.live = writers[w].live
       /\ rec.returned = writers[w].returned /\ rec.n = writers[w].n + 1 /\ rec.patches = list
  BY <1>0, <1>9 DEF WriterShapes
<1>11. rec.cur
  BY <1>0, <1>9 DEF WriterShapes
<1>12. /\ DOMAIN writers' = DOMAIN writers /\ writers'[w] = rec
       /\ \A v \in DOMAIN writers : v # w => writers'[v] = writers[v]
  BY <1>9
<1>13. /\ writers[w].n \in Nat /\ writers[w].returned \in Nat /\ IsSeq(writers[w].patches)
       /\ env.c.chunks \in Int
  BY <1>0, ArbiterConstants DEF WriterShapes, PatchLists, Numbers, Scenario
<1>14. writers[w].n = writers[w].returned + Current(w)
  <2>1. \A x \in Elems(todo[t]) : x.do # "return"
    <3>1. CASE todo[t] = <<>>
      BY <3>1, ShortSeqs
    <3>2. CASE todo[t] # <<>>
      <4>1. \A x \in Elems(Rest(t)) : x.do \notin InHand
        BY <3>2, <1>0, InHandRest, NoneByElems DEF Returns, InHand
      <4>2. Elems(todo[t]) = {Now(t)} \cup Elems(Rest(t))
        BY <3>2, <1>0, <1>8, GoesFacts
      <4> QED BY <3>2, <4>1, <4>2 DEF InHand
    <3> QED BY <3>1, <3>2
  <2> QED BY <1>0, <2>1, NothingReturning
<1>15. PICK old, m, fresh : /\ old = writers[w].patches /\ m = writers[w].n /\ fresh = Fresh(m, k)
                            /\ list = old \o fresh
  BY <1>b
<1>16. m \in Nat /\ IsSeq(old) /\ \A i \in DOMAIN old : /\ DOMAIN old[i] = {"n", "done"}
                                                        /\ old[i].n \in 1 .. m - Current(w)
  BY <1>0, <1>13, <1>15 DEF PatchLists
<1>17. /\ IsSeq(fresh) /\ CountFor(fresh, m) = k /\ \A n : n # m => CountFor(fresh, n) = 0
       /\ DOMAIN fresh = 1 .. k
       /\ \A i \in DOMAIN fresh : DOMAIN fresh[i] = {"n", "done"} /\ fresh[i].n = m
  BY <1>15, <1>16, FreshPatches
<1>18. IsSeq(list) /\ \A n : CountFor(list, n) = CountFor(old, n) + CountFor(fresh, n)
  BY <1>15, <1>16, <1>17, ConcatSeq, CountConcat
<1>19. k > 0 => m >= 1
  <2>1. k > 0 => Current(w) = 1
    BY DEF Current
  <2> QED BY <2>1, <1>13, <1>14, <1>15
<1>20. ListOf(rec)
  <2>1. \A i \in DOMAIN list : \/ \E j \in DOMAIN old : list[i] = old[j]
                              \/ \E j \in DOMAIN fresh : list[i] = fresh[j]
    <3>1. IsSeq(old) /\ IsSeq(fresh)
      BY <1>16, <1>17
    <3>2. Joins(old \o fresh, old, fresh)
      BY <3>1, JoinedLists
    <3>3. Joins(list, old, fresh)
      BY <1>15, <3>2
    <3> QED BY <3>3 DEF Joins
  <2>2. \A j \in DOMAIN old : DOMAIN old[j] = {"n", "done"} /\ old[j].n \in 1 .. m
    <3>1. Current(w) \in {0, 1}
      BY DEF Current
    <3> QED BY <1>16, <3>1
  <2>3. \A j \in DOMAIN fresh : DOMAIN fresh[j] = {"n", "done"} /\ fresh[j].n \in 1 .. m
    BY <1>16, <1>17, <1>19
  <2>4. \A i \in DOMAIN list : DOMAIN list[i] = {"n", "done"} /\ list[i].n \in 1 .. m
    BY <2>1, <2>2, <2>3
  <2>5. rec.n - (IF rec.cur THEN 1 ELSE 0) = m
    BY <1>10, <1>11, <1>15, <1>16
  <2> QED BY <1>10, <1>18, <2>4, <2>5 DEF ListOf
<1>21. \A n \in 1 .. rec.returned : CountFor(rec.patches, n) = CountFor(writers[w].patches, n)
  <2>1. SUFFICES ASSUME NEW n \in 1 .. rec.returned PROVE CountFor(list, n) = CountFor(old, n)
    BY <1>10, <1>15
  <2>2. CountFor(old, n) \in Nat
    BY <1>16, CountSplit
  <2>3. CASE n # m
    BY <1>17, <1>18, <2>2, <2>3
  <2>4. CASE n = m
    <3>1. k = 0
      <4>1. k > 0 => Current(w) = 1
        BY DEF Current
      <4> QED BY <2>1, <2>4, <4>1, <1>10, <1>13, <1>14, <1>15
    <3> QED BY <1>17, <1>18, <2>2, <2>4, <3>1
  <2> QED BY <2>3, <2>4
<1>22. rec.n <= env.c.chunks
  BY <1>10, <1>13
<1>23. Revises(w, rec)
  BY <1>9, <1>10, <1>20, <1>21, <1>22 DEF Revises
<1>24. Slots'
  <2>1. writers'[w].n = writers[w].n + 1
    BY <1>10, <1>12
  <2>2. \A v \in DOMAIN writers : v # w => writers'[v].n = writers[v].n
    BY <1>12
  <2>3. service'.landed = service.landed /\ Slots
    BY DEF PatchInv
  <2> QED BY <1>b, <1>12, <1>13, <2>1, <2>2, <2>3, SlotsTake
<1>25. \A x \in Elems(flush) : x.do = "flush"
  BY <1>3, FlushKind
<1>26. ASSUME NEW x \in Elems(first)
       PROVE  x.do \notin Final /\ x.do # "commit" /\ BusyWith(t, x)'
  <2>1. CASE x \in Elems(flush)
    BY <1>25, <2>1 DEF BusyWith, Busy, Final
  <2>2. CASE x \in Elems(back)
    <3>1. x = Return(w, m, k) /\ writers[w].cur
      BY <1>4, <1>15, <2>2
    <3>2. x.do = "return" /\ x.w = w /\ x.n = m /\ x.k = k
      BY <3>1 DEF Return
    <3>3. CountFor(old, m) = 0
      <4>1. \A i \in DOMAIN old : old[i].n \in 1 .. m - 1
        BY <1>16, <3>1 DEF Current
      <4> QED BY <1>16, <4>1, CountBeyond
    <3>4. CountFor(list, m) = k
      BY <1>17, <1>18, <3>3
    <3>5. CountFor(writers'[w].patches, x.n) = k
      BY <1>10, <1>12, <3>2, <3>4
    <3> QED BY <1>10, <1>12, <3>2, <3>5 DEF BusyWith, Final
  <2> QED BY <1>6, <1>26, <2>1, <2>2
<1>27. Elems(Rest(t)) = {}
  BY ShortSeqs
<1>28. WritersBut(t)
  BY <1>12 DEF WritersBut
<1>29. Occupied'
  BY <1>8, <1>26, <1>27, <1>28, PatchFacts, OccupiedWriter
<1>30. todo[t] # <<>> => Now(t).do # "commit"
  OBVIOUS
<1>31. env'.c = env.c /\ env'.claimed = env.claimed
  OBVIOUS
<1> QED BY <1>8, <1>23, <1>24, <1>26, <1>29, <1>30, <1>31, RevisedBooks

LEMMA GetNewChunkBooks ==
  ASSUME PatchInv, NEW t \in Threads, GetNewChunk(t)
  PROVE  Books'
<1>0. todo[t] = <<>> /\ arb' = arb /\ service' = service /\ env' = env
  BY DEF GetNewChunk, Idle
<1>1. PICK w \in Owner(t), k \in 0 .. env.c.patches :
        /\ writers[w].n < env.c.chunks /\ k \in PatchCounts(w) /\ free > 0 /\ TakeChunk(t, w, k, <<>>)
  BY DEF GetNewChunk
<1>2. w \in DOMAIN writers /\ writers[w].thread = t /\ writers[w].live = TRUE
  BY PatchFacts DEF Owner, Distinct
<1>3. k \in Nat /\ (k > 0 => writers[w].cur)
  BY <1>1 DEF PatchCounts
<1>4. PICK rest : IsSeq(rest) /\ rest = Rest(t) /\ Rest(t) = <<>> /\ TakeChunk(t, w, k, rest)
  BY <1>0, <1>1, ShortSeqs DEF Rest
<1> QED BY <1>0, <1>1, <1>2, <1>3, <1>4, TakeChunkBooks

(* A step that leaves the writers alone.                                   *)
LEMMA WaitingBooks ==
  ASSUME PatchInv, NEW t \in Threads, NEW first, Goes(t, first),
         \A x \in Elems(first) : x.do # "commit" /\ BusyWith(t, x),
         Rest(t) = <<>>, FinalLast(first),
         todo[t] # <<>> => Now(t).do # "commit",
         writers' = writers, arb' = arb, service' = service, env' = env, free' = free
  PROVE  Books'
<1>1. \A x \in Elems(first) : BusyWith(t, x)'
  BY DEF BusyWith
<1>2. WritersBut(t) /\ PatchesSame
  BY DEF WritersBut, PatchesSame
<1>3. \A x \in Elems(Rest(t)) : BusyWith(t, x) => BusyWith(t, x)'
  BY DEF BusyWith
<1>4. Occupied'
  BY <1>1, <1>2, <1>3, PatchFacts, OccupiedWriter
<1>5. Desk'
  BY <1>4, ArbSame, EnvSame, DeskSame DEF PatchInv
<1>6. Slots'
  BY SlotsSame DEF PatchInv
<1>7. Wire' = Wire
  BY PatchFacts, WireKept
<1>8. InRequest' /\ Debts'
  BY <1>2, <1>7, ArbSame, CalmDebts
<1> QED BY <1>5, <1>6, <1>8 DEF Books

LEMMA RetryGetNewChunkBooks ==
  ASSUME PatchInv, NEW t \in Threads, RetryGetNewChunk(t)
  PROVE  Books'
<1>0. /\ todo[t] # <<>> /\ Now(t).do = "stall" /\ arb' = arb /\ service' = service /\ env' = env
      /\ Shapes
  BY PatchFacts DEF RetryGetNewChunk, AtStep, Now
<1>1. PICK x : x = Now(t)
  OBVIOUS
<1>2. x \in Elems(todo[t]) /\ x.do = "stall"
  BY <1>0, <1>1, TailSeq DEF Shapes, Now
<1>3. BusyWith(t, x)
  BY <1>2, PatchFacts DEF Occupied
<1>4. PICK w : w = x.w /\ w = Now(t).w
  BY <1>1
<1>5. /\ w \in DOMAIN writers /\ writers[w].thread = t /\ writers[w].live = TRUE
      /\ writers[w].n < env.c.chunks
  BY <1>2, <1>3, <1>4 DEF BusyWith, Busy
<1>a. Rest(t) = <<>>
  <2>1. IsSeq(todo[t]) /\ FinalLast(todo[t])
    BY PatchFacts DEF Shapes, Occupied
  <2>2. Head(todo[t]).do \in Final
    BY <1>0 DEF Now, Final
  <2> QED BY <1>0, <2>1, <2>2, FinalTail DEF Rest
<1>6. CASE free > 0
  <2>1. PICK rest, k : rest = Rest(t) /\ k \in PatchCounts(w) /\ TakeChunk(t, w, k, rest)
    BY <1>0, <1>4, <1>6 DEF RetryGetNewChunk, Rest
  <2>2. IsSeq(rest)
    BY <1>0, <2>1, TailSeq DEF Rest, Shapes
  <2>3. k \in Nat /\ TakeChunk(t, w, k, rest)
    BY <2>1 DEF PatchCounts
  <2>4. k > 0 => writers[w].cur
    BY <2>1 DEF PatchCounts
  <2> QED BY <1>0, <1>a, <1>4, <1>5, <1>6, <2>1, <2>2, <2>3, <2>4, TakeChunkBooks
<1>7. CASE ~(free > 0)
  <2>1. PICK c, i : /\ todo' = [todo EXCEPT ![t] =
                         ((IF t = IPC /\ c THEN <<Flush({})>> ELSE <<>>)
                            \o <<Stall(w, i)>>) \o Tail(todo[t])]
                    /\ writers' = writers /\ free' = free
    BY <1>4, <1>7 DEF RetryGetNewChunk, Then
  <2>2. PICK flush, stall : /\ flush = IF t = IPC /\ c THEN <<Flush({})>> ELSE <<>>
                            /\ stall = <<Stall(w, i)>>
    OBVIOUS
  <2>3. IsSeq(flush) /\ Elems(flush) \subseteq {Flush({})}
    BY <2>2, ShortSeqs
  <2>4. IsSeq(stall) /\ Elems(stall) = {Stall(w, i)}
    BY <2>2, ShortSeqs
  <2>5. PICK first : first = flush \o stall
    OBVIOUS
  <2>6. IsSeq(first) /\ Elems(first) = Elems(flush) \cup Elems(stall)
    BY <2>3, <2>4, <2>5, ConcatSeq
  <2>7. todo' = [todo EXCEPT ![t] = first \o Tail(todo[t])]
    BY <2>1, <2>2, <2>5
  <2>8. Goes(t, first)
    BY <1>0, <2>6, <2>7, ThenGoes
  <2>9. \A y \in Elems(flush) : y.do = "flush"
    BY <2>3, FlushKind
  <2>10. \A y \in Elems(stall) : y.do = "stall" /\ y.w = w
    BY <2>4, StallKind
  <2>11. \A y \in Elems(flush) : y.do # "commit" /\ BusyWith(t, y) /\ y.do \notin Final
    BY <2>9 DEF BusyWith, Busy, Final
  <2>12. \A y \in Elems(stall) : y.do # "commit" /\ BusyWith(t, y)
    BY <1>5, <2>10 DEF BusyWith
  <2>13. \A y \in Elems(first) : y.do # "commit" /\ BusyWith(t, y)
    BY <2>6, <2>11, <2>12
  <2>a. FinalLast(first)
    <3>1. FinalLast(stall)
      BY <2>2 DEF FinalLast
    <3> QED BY <2>3, <2>4, <2>5, <2>11, <3>1, FinalConcat
  <2>14. todo[t] # <<>> => Now(t).do # "commit"
    BY <1>0
  <2>15. writers' = writers /\ free' = free
    BY <2>1
  <2> QED BY <1>0, <1>a, <2>8, <2>a, <2>13, <2>14, <2>15, WaitingBooks
<1> QED BY <1>6, <1>7

LEMMA FinalizeNestedBooks ==
  ASSUME PatchInv, NEW t \in Threads, FinalizeNested(t)
  PROVE  Books'
<1>0. /\ todo[t] = <<>> /\ todo' = todo /\ arb' = arb /\ service' = service /\ env' = env
      /\ free' = free /\ WriterShapes /\ ThreadInv
  BY PatchFacts DEF FinalizeNested, Idle
<1>1. PICK w, i : /\ w \in Owner(t)
                  /\ writers' = [writers EXCEPT ![w].patches[i].done = TRUE]
  <2> DEFINE open(w) == {i \in DOMAIN writers[w].patches : ~writers[w].patches[i].done}
             last(w) == CHOOSE i \in open(w) : \A j \in open(w) : j <= i
  <2>1. \E w \in Owner(t) : writers' = [writers EXCEPT ![w].patches[last(w)].done = TRUE]
    BY Zenon DEF FinalizeNested
  <2> HIDE DEF last
  <2> QED BY <2>1, Zenon
<1>2. w \in DOMAIN writers /\ writers[w].thread = t
  BY <1>1 DEF Owner
<1>3. PICK old : old = writers[w].patches
  OBVIOUS
<1>4. IsSeq(old) /\ (old # <<>> => writers[w].live)
      /\ \A j \in DOMAIN old : /\ DOMAIN old[j] = {"n", "done"}
                               /\ old[j].n \in 1 .. writers[w].n - Current(w)
  BY <1>2, <1>3, PatchFacts DEF PatchLists
<1>5. PICK list, rec : /\ list = [old EXCEPT ![i].done = TRUE]
                       /\ rec = [writers[w] EXCEPT !.patches = list]
                       /\ writers' = [writers EXCEPT ![w] = rec]
  <2>1. PICK list : list = [old EXCEPT ![i].done = TRUE]
    OBVIOUS
  <2>2. PICK rec : rec = [writers[w] EXCEPT !.patches = list]
    OBVIOUS
  <2>3. writers' = [writers EXCEPT ![w] =
          [writers[w] EXCEPT !.patches = [writers[w].patches EXCEPT ![i].done = TRUE]]]
    BY <1>1
  <2> QED BY <1>3, <2>1, <2>2, <2>3, Zenon
<1>6. /\ list = [j \in DOMAIN old |-> list[j]]
      /\ \A j \in DOMAIN old : list[j].n = old[j].n /\ DOMAIN list[j] = DOMAIN old[j]
  BY <1>4, <1>5
<1>7. IsSeq(list) /\ DOMAIN list = DOMAIN old
  BY <1>4, <1>6, SameLength
<1>8. \A n : CountFor(list, n) = CountFor(old, n)
  <2>1. \A n : {j \in DOMAIN list : list[j].n = n} = {j \in DOMAIN old : old[j].n = n}
    BY <1>6, <1>7
  <2> QED BY <2>1 DEF CountFor
<1>9. /\ rec.id = writers[w].id /\ rec.live = writers[w].live /\ rec.returned = writers[w].returned
      /\ rec.n = writers[w].n /\ rec.cur = writers[w].cur /\ rec.patches = list
  BY <1>0, <1>2, <1>5 DEF WriterShapes
<1>10. ListOf(rec)
  <2>1. \A j \in DOMAIN list : /\ DOMAIN list[j] = {"n", "done"}
                              /\ list[j].n \in 1 .. writers[w].n - Current(w)
    BY <1>4, <1>6, <1>7
  <2>2. list # <<>> => old # <<>>
    <3>1. DOMAIN <<>> = {}
      OBVIOUS
    <3>2. DOMAIN list = {} => list = <<>>
      BY <1>7 DEF IsSeq
    <3> QED BY <1>7, <3>1, <3>2
  <2>3. writers[w].n - Current(w) = rec.n - (IF rec.cur THEN 1 ELSE 0)
    BY <1>9 DEF Current
  <2>4. list # <<>> => rec.live
    BY <1>4, <1>9, <2>2
  <2> QED BY <1>7, <1>9, <2>1, <2>3, <2>4 DEF ListOf
<1>11. Revises(w, rec)
  <2>1. rec.n <= env.c.chunks
    BY <1>2, <1>9, PatchFacts DEF Numbers
  <2>2. \A n \in 1 .. rec.returned : CountFor(rec.patches, n) = CountFor(writers[w].patches, n)
    BY <1>3, <1>8, <1>9
  <2>3. writers' = [writers EXCEPT ![w] = rec]
    BY <1>5
  <2> QED BY <1>9, <1>10, <2>1, <2>2, <2>3 DEF Revises
<1>12. PICK first : Goes(t, first) /\ Elems(first) = {}
  BY <1>0, StaysIdle
<1>13. /\ DOMAIN writers' = DOMAIN writers /\ writers'[w] = rec
       /\ \A v \in DOMAIN writers : v # w => writers'[v] = writers[v]
  BY <1>2, <1>11 DEF Revises
<1>14. Occupied'
  <2>1. WritersBut(t)
    BY <1>2, <1>13 DEF WritersBut
  <2>2. Elems(Rest(t)) = {}
    BY <1>0, ShortSeqs DEF Rest
  <2>3. env'.c = env.c
    BY <1>0
  <2> QED BY <1>12, <2>1, <2>2, <2>3, PatchFacts, OccupiedWriter
<1>15. Slots'
  <2>1. \A v \in DOMAIN writers : writers'[v].n = writers[v].n
    BY <1>9, <1>13
  <2> QED BY <1>0, <1>13, <2>1, SlotsSame DEF PatchInv
<1>16. env'.c = env.c /\ env'.claimed = env.claimed
  BY <1>0
<1> QED BY <1>0, <1>2, <1>11, <1>12, <1>14, <1>15, <1>16, RevisedBooks

LEMMA ReleaseWriterIDBooks ==
  ASSUME PatchInv, NEW t \in Threads, ReleaseWriterID(t)
  PROVE  Books'
<1>0. /\ todo[t] # <<>> /\ Now(t).do = "release" /\ service' = service /\ free' = free
      /\ env' = env /\ Shapes /\ WriterShapes
  BY PatchFacts, SMTT(40) DEF ReleaseWriterID, AtStep, Now
<1>1. PICK x : x = Now(t)
  OBVIOUS
<1>2. PICK w, id, mine, c :
        /\ w = x.w /\ id = writers[w].id /\ mine = {p \in arb.pending : p.id = id}
        /\ arb' = [arb EXCEPT !.ids = @ \ {id}, !.pending = @ \ mine]
        /\ todo' = [todo EXCEPT ![t] =
             (IF c THEN <<>> ELSE <<Post(Unregister(id))>>) \o Tail(todo[t])]
        /\ writers' = [writers EXCEPT ![w].live = FALSE]
  BY <1>1 DEF ReleaseWriterID, Then
<1>3. x \in Elems(todo[t]) /\ x.do = "release"
  BY <1>0, <1>1, TailSeq DEF Shapes, Now
<1>4. BusyWith(t, x)
  BY <1>3, PatchFacts DEF Occupied
<1>5. w \in DOMAIN writers /\ writers[w].thread = t /\ writers[w].live = TRUE /\ writers[w].patches = <<>>
  BY <1>2, <1>3, <1>4 DEF BusyWith, Busy
<1>6. Rest(t) = <<>>
  <2>1. IsSeq(todo[t]) /\ FinalLast(todo[t])
    BY PatchFacts DEF Shapes, Occupied
  <2>2. Head(todo[t]).do \in Final
    BY <1>0 DEF Now, Final
  <2> QED BY <1>0, <2>1, <2>2, FinalTail DEF Rest
<1>7. PICK first : first = IF c THEN <<>> ELSE <<Post(Unregister(id))>>
  OBVIOUS
<1>8. IsSeq(first) /\ Elems(first) \subseteq {Post(Unregister(id))}
  BY <1>7, ShortSeqs
<1>9. Goes(t, first)
  <2>1. todo' = [todo EXCEPT ![t] = first \o Tail(todo[t])]
    BY <1>2, <1>7
  <2> QED BY <1>0, <1>8, <2>1, ThenGoes
<1>10. \A y \in Elems(first) : y.do = "post"
  BY <1>8, PostKind
<1>11. PICK rec : rec = [writers[w] EXCEPT !.live = FALSE] /\ writers' = [writers EXCEPT ![w] = rec]
  BY <1>2
<1>12. /\ rec.n = writers[w].n /\ rec.returned = writers[w].returned /\ rec.cur = writers[w].cur
       /\ rec.patches = <<>> /\ rec.id = id
  BY <1>0, <1>2, <1>5, <1>11 DEF WriterShapes
<1>13. rec.live = FALSE
  BY <1>0, <1>5, <1>11 DEF WriterShapes
<1>14. /\ DOMAIN writers' = DOMAIN writers /\ writers'[w] = rec
       /\ \A v \in DOMAIN writers : v # w => writers'[v] = writers[v]
  BY <1>5, <1>11
<1>15. \A v \in DOMAIN writers : /\ writers'[v].id = writers[v].id /\ writers'[v].n = writers[v].n
                                 /\ writers'[v].returned = writers[v].returned
                                 /\ writers'[v].cur = writers[v].cur
                                 /\ writers'[v].patches = writers[v].patches
  BY <1>2, <1>5, <1>12, <1>14
<1>16. /\ arb'.ids = arb.ids \ {id} /\ arb'.last_id = arb.last_id /\ arb'.pending \subseteq arb.pending
       /\ arb'.was_always_bound = arb.was_always_bound /\ arb'.fully_bound = arb.fully_bound
       /\ arb'.reservations = arb.reservations /\ arb'.req = arb.req /\ arb'.direct = arb.direct
  BY <1>0, <1>2 DEF Shapes
<1>17. Occupied'
  <2>1. WritersBut(t)
    BY <1>5, <1>14 DEF WritersBut
  <2>2. \A y \in Elems(first) : BusyWith(t, y)' /\ y.do \notin Final
    BY <1>10 DEF BusyWith, Busy, Final
  <2>3. Elems(Rest(t)) = {}
    BY <1>6, ShortSeqs
  <2>4. env'.c = env.c
    BY <1>0
  <2> QED BY <1>9, <2>1, <2>2, <2>3, <2>4, PatchFacts, OccupiedWriter
<1>18. Distinct'
  <2>1. arb'.ids \subseteq 1 .. kMaxWriterID /\ arb'.last_id \in 0 .. kMaxWriterID
    BY <1>16, PatchFacts DEF Distinct
  <2>2. ASSUME NEW v \in DOMAIN writers, v # w PROVE writers'[v].live = writers[v].live
    BY <1>14, <2>2
  <2>3. ASSUME NEW v \in DOMAIN writers
        PROVE  writers'[v].live \in BOOLEAN /\ (writers'[v].live => v # w /\ writers[v].live)
    <3>1. CASE v = w
      BY <1>13, <1>14, <3>1
    <3>2. CASE v # w
      BY <2>2, <3>2, PatchFacts DEF Distinct
    <3> QED BY <3>1, <3>2
  <2>4. ASSUME NEW v \in DOMAIN writers, writers'[v].live PROVE writers'[v].id \in arb'.ids
    <3>1. writers[v].live /\ v # w
      BY <2>3, <2>4
    <3>2. writers[v].id \in arb.ids /\ writers[v].id # writers[w].id
      BY <1>5, <3>1, PatchFacts DEF Distinct, Live
    <3> QED BY <1>2, <1>15, <1>16, <3>2
  <2>5. ASSUME NEW u \in DOMAIN writers, NEW v \in DOMAIN writers, writers'[u].live, writers'[v].live, u # v
        PROVE  writers'[u].id # writers'[v].id
    <3>1. writers[u].live /\ writers[v].live
      BY <2>3, <2>5
    <3>2. writers[u].id # writers[v].id
      BY <2>5, <3>1, PatchFacts DEF Distinct, Live
    <3> QED BY <1>15, <3>2
  <2> QED BY <1>14, <2>1, <2>3, <2>4, <2>5 DEF Distinct, Live
<1>19. Numbers'
  <2>1. writers' = [v \in DOMAIN writers |-> writers'[v]]
    BY <1>11
  <2>2. IsSeq(writers')
    BY <1>0, <2>1, SameLength DEF WriterShapes
  <2>3. Len(writers') = Len(writers)
    BY <1>0, <1>14, <2>2, SameLen DEF WriterShapes
  <2> QED BY <1>0, <1>14, <1>15, <2>3, PatchFacts DEF Numbers
<1>20. AlwaysBound'
  BY <1>0, <1>16, PatchFacts DEF AlwaysBound
<1>21. PatchLists'
  <2>1. \A v \in DOMAIN writers : v # w => writers'[v].live = writers[v].live
    BY <1>14
  <2>2. \A v \in DOMAIN writers : writers'[v].patches # <<>> => writers'[v].live
    BY <1>5, <1>15, <2>1, PatchFacts DEF PatchLists
  <2>3. \A v \in DOMAIN writers : Current(v)' = Current(v)
    BY <1>15 DEF Current
  <2> QED BY <1>14, <1>15, <2>2, <2>3, PatchFacts DEF PatchLists
<1>22. Slots'
  BY <1>0, <1>14, <1>15, SlotsSame DEF PatchInv
<1>23. PatchesSame
  BY <1>14, <1>15 DEF PatchesSame
<1>24. Wire' = Wire
  <2>1. \A y \in Elems(first) : y.do # "commit"
    BY <1>10
  <2>2. todo[t] # <<>> => Now(t).do # "commit"
    BY <1>0
  <2> QED BY <1>0, <1>9, <2>1, <2>2, PatchFacts, WireKept
<1>25. InRequest' /\ Debts'
  BY <1>0, <1>16, <1>23, <1>24, PatchFacts, CalmDebts DEF InRequest
<1> QED BY <1>17, <1>18, <1>19, <1>20, <1>21, <1>22, <1>25 DEF Books, Desk

(* IdAllocator hands out an id that is not in use.                         *)
LEMMA AllocateFacts ==
  ASSUME Allocate # 0, arb.last_id \in 0 .. kMaxWriterID
  PROVE  Allocate \in 1 .. kMaxWriterID /\ Allocate \notin arb.ids
<1>1. kMaxWriterID \in Nat \ {0}
  BY ArbiterConstants
<1>2. PICK steps : steps = FreeSteps
  OBVIOUS
<1>3. /\ steps # {} /\ steps \subseteq Nat
      /\ \A k \in steps : k \in 1 .. kMaxWriterID /\ IdAfter(k) \notin arb.ids
  BY <1>1, <1>2 DEF Allocate, FreeSteps
<1>4. \E k \in steps : \A j \in steps : k <= j
  BY <1>3, SmallestNumber
<1>5. PICK k : k = CHOOSE i \in steps : \A j \in steps : i <= j
  OBVIOUS
<1>6. k \in steps
  BY <1>4, <1>5
<1>7. Allocate = IdAfter(k)
  BY <1>2, <1>3, <1>5 DEF Allocate
<1>8. IdAfter(k) \in 1 .. kMaxWriterID
  <2>1. PICK a \in Nat : a = arb.last_id + k - 1
    BY <1>1, <1>3, <1>6
  <2>2. a % kMaxWriterID \in 0 .. kMaxWriterID - 1
    BY <1>1
  <2> QED BY <1>1, <2>1, <2>2 DEF IdAfter
<1> QED BY <1>3, <1>6, <1>7, <1>8

LEMMA CreateTraceWriterBooks ==
  ASSUME PatchInv, NEW t \in Threads, NEW b \in Buffers \cup Reservations,
         CreateTraceWriter(t, b)
  PROVE  Books'
<1> DEFINE id == Allocate
           target == TargetFor(b)
           startup == IsReservation(target)
           steps == IF startup \/ target = kInvalidBufferId THEN <<>>
                    ELSE <<Post(Register({[id |-> id, target |-> target]}))>>
           entry == [id |-> id, target |-> target]
<1>0. /\ Shapes /\ WriterShapes /\ todo[t] = <<>> /\ service' = service /\ free' = free
      /\ Len(writers) < env.c.writers /\ b \in env.c.targets /\ Owner(t) = {}
  BY PatchFacts DEF CreateTraceWriter, Idle
<1>1. PICK new : /\ writers' = Append(writers, new)
                 /\ new = [thread |-> t, id |-> id, target |-> target, live |-> TRUE, cur |-> FALSE,
                           n |-> 0, returned |-> 0, patches |-> <<>>]
  BY DEF CreateTraceWriter
<1>2. PICK pending :
        /\ pending = IF startup THEN arb.pending \cup {entry} ELSE arb.pending
        /\ arb' = [arb EXCEPT !.ids = @ \cup {id}, !.last_id = id, !.pending = pending,
                           !.reservations =
                             IF startup THEN [@ EXCEPT ![target] = Unresolved] ELSE @,
                           !.fully_bound = @ /\ ~startup,
                           !.was_always_bound = @ /\ ~startup]
  <2>1. arb' = [arb EXCEPT !.ids = @ \cup {id}, !.last_id = id,
                  !.pending = IF startup THEN @ \cup {entry} ELSE @,
                  !.reservations =
                    IF startup THEN [@ EXCEPT ![target] = Unresolved] ELSE @,
                  !.fully_bound = @ /\ ~startup,
                  !.was_always_bound = @ /\ ~startup]
    BY Zenon DEF CreateTraceWriter
  <2>2. PICK pending : pending = IF startup THEN arb.pending \cup {entry} ELSE arb.pending
    OBVIOUS
  <2> QED BY <2>1, <2>2, Zenon
<1>3. PICK overtaken : env' = [env EXCEPT !.overtaken = overtaken]
  BY Zenon DEF CreateTraceWriter
<1>4. todo' = [todo EXCEPT ![t] = steps]
  BY DEF CreateTraceWriter, Start
<1>5. id \in 1 .. kMaxWriterID /\ id \notin arb.ids
  <2>1. Allocate # 0
    BY DEF CreateTraceWriter
  <2> QED BY <2>1, PatchFacts, AllocateFacts DEF Distinct
<1>6. IsSeq(steps) /\ \A x \in Elems(steps) : x.do = "post"
  <2>1. CASE startup \/ target = kInvalidBufferId
    BY <2>1, ShortSeqs
  <2>2. CASE ~(startup \/ target = kInvalidBufferId)
    <3>1. PICK ws : steps = <<Post(Register(ws))>>
      BY <2>2
    <3> QED BY <3>1, ShortSeqs, PostKind
  <2> QED BY <2>1, <2>2
<1>7. startup => target \in Reservations
  BY DEF IsReservation
<1>8. env.c.policy = "kStall" => ~startup
  <2>1. env.c.policy = "kStall" => b \notin Reservations
    BY <1>0, ArbiterConstants, PatchFacts DEF Numbers
  <2> QED BY <2>1 DEF TargetFor, IsReservation
<1>9. entry.target = target
  OBVIOUS
<1>10. /\ new.thread = t /\ new.id = id /\ new.n = 0 /\ new.returned = 0
       /\ new.patches = <<>>
  BY <1>1
<1>11. new.live = TRUE
  BY <1>1
<1> HIDE DEF id, target, startup, steps, entry
<1>12. Goes(t, steps)
  BY <1>0, <1>4, <1>6, StartGoes
<1>13. /\ IsSeq(writers') /\ Len(writers) \in Nat /\ Len(writers') = Len(writers) + 1
       /\ DOMAIN writers = 1 .. Len(writers) /\ DOMAIN writers' = 1 .. Len(writers) + 1
       /\ \A v \in DOMAIN writers : writers'[v] = writers[v]
       /\ writers'[Len(writers) + 1] = new
  BY <1>0, <1>1, AppendSeq DEF WriterShapes
<1>14. \A v \in DOMAIN writers' : \/ v \in DOMAIN writers /\ writers'[v] = writers[v]
                                  \/ v \notin DOMAIN writers /\ writers'[v] = new
  BY <1>13
<1>15. /\ DOMAIN writers \subseteq DOMAIN writers'
       /\ \A v, u \in DOMAIN writers' : v \notin DOMAIN writers /\ u \notin DOMAIN writers => u = v
  BY <1>13
<1>16. /\ arb'.ids = arb.ids \cup {id} /\ arb'.last_id = id /\ arb'.pending = pending
       /\ arb'.req = arb.req /\ arb'.direct = arb.direct
       /\ arb'.reservations = IF startup THEN [arb.reservations EXCEPT ![target] = Unresolved]
                              ELSE arb.reservations
  BY <1>0, <1>2 DEF Shapes
<1>17. /\ arb'.fully_bound = (arb.fully_bound /\ ~startup)
       /\ arb'.was_always_bound = (arb.was_always_bound /\ ~startup)
  BY <1>0, <1>2 DEF Shapes
<1>18. env'.c = env.c /\ env'.claimed = env.claimed
  BY <1>0, <1>3 DEF WriterShapes
<1>19. Occupied'
  <2>1. WritersBut(t)
    BY <1>13, <1>15 DEF WritersBut
  <2>2. \A y \in Elems(steps) : BusyWith(t, y)' /\ y.do \notin Final
    BY <1>6 DEF BusyWith, Busy, Final
  <2>3. Elems(Rest(t)) = {}
    BY <1>0, ShortSeqs DEF Rest
  <2> QED BY <1>12, <1>18, <2>1, <2>2, <2>3, PatchFacts, OccupiedWriter
<1>20. Distinct'
  <2>1. arb'.ids \subseteq 1 .. kMaxWriterID /\ arb'.last_id \in 0 .. kMaxWriterID
    BY <1>5, <1>16, PatchFacts DEF Distinct
  <2>2. ASSUME NEW v \in DOMAIN writers'
        PROVE  writers'[v].live \in BOOLEAN /\ (writers'[v].live => writers'[v].id \in arb'.ids)
    <3>1. CASE v \in DOMAIN writers
      <4>1. writers'[v] = writers[v]
        BY <1>13, <3>1
      <4>2. writers[v].live \in BOOLEAN /\ (writers[v].live => writers[v].id \in arb.ids)
        BY <3>1, PatchFacts DEF Distinct
      <4> QED BY <1>16, <4>1, <4>2
    <3>2. CASE v \notin DOMAIN writers
      <4>1. writers'[v] = new
        BY <1>14, <2>2, <3>2
      <4> QED BY <1>10, <1>11, <1>16, <4>1
    <3> QED BY <3>1, <3>2
  <2>3. ASSUME NEW u \in DOMAIN writers, writers'[u].live PROVE writers'[u].id # id
    <3>1. writers'[u] = writers[u]
      BY <1>13
    <3>2. writers[u].id \in arb.ids
      BY <2>3, <3>1, PatchFacts DEF Distinct
    <3> QED BY <1>5, <3>1, <3>2
  <2>4. ASSUME NEW u \in DOMAIN writers', NEW v \in DOMAIN writers', writers'[u].live, writers'[v].live, u # v
        PROVE  writers'[u].id # writers'[v].id
    <3>1. CASE u \in DOMAIN writers /\ v \in DOMAIN writers
      <4>1. writers'[u] = writers[u] /\ writers'[v] = writers[v]
        BY <1>13, <3>1
      <4>2. writers[u].live /\ writers[v].live
        BY <2>4, <4>1
      <4>3. writers[u].id # writers[v].id
        BY <2>4, <3>1, <4>2, PatchFacts DEF Distinct, Live
      <4> QED BY <4>1, <4>3
    <3>2. CASE u \in DOMAIN writers /\ v \notin DOMAIN writers
      BY <1>10, <1>14, <2>3, <2>4, <3>2
    <3>3. CASE u \notin DOMAIN writers /\ v \in DOMAIN writers
      BY <1>10, <1>14, <2>3, <2>4, <3>3
    <3> QED BY <1>15, <2>4, <3>1, <3>2, <3>3
  <2> QED BY <2>1, <2>2, <2>4 DEF Distinct, Live
<1>21. Numbers'
  <2>1. env.c \in Scenarios /\ env.c.writers \in Int /\ env.c.chunks \in Nat
        /\ \A v \in DOMAIN writers : writers[v].n <= env.c.chunks
    BY ArbiterConstants, PatchFacts DEF Numbers, Scenario
  <2>2. \A v \in DOMAIN writers' : writers'[v].n <= env.c.chunks
    BY <1>10, <1>14, <2>1
  <2> QED BY <1>0, <1>13, <1>18, <2>1, <2>2 DEF Numbers
<1>22. AlwaysBound'
  <2>1. \A p \in pending : p \in arb.pending \/ (startup /\ p.target = target)
    BY <1>2, <1>9
  <2>2. \A r \in Reservations : arb.reservations[r] = Unresolved \/ (startup /\ r = target)
          => arb'.reservations[r] = Unresolved
    BY <1>0, <1>16 DEF WriterShapes
  <2>3. \A p \in arb'.pending : p.target \in Reservations /\ arb'.reservations[p.target] = Unresolved
    BY <1>7, <1>16, <2>1, <2>2, PatchFacts DEF AlwaysBound
  <2>4. arb'.was_always_bound \in BOOLEAN /\ (arb'.was_always_bound => arb'.fully_bound)
    BY <1>17, PatchFacts DEF AlwaysBound
  <2>5. env.c.policy = "kStall" => arb'.was_always_bound
    BY <1>8, <1>17, PatchFacts DEF AlwaysBound
  <2>6. env.claimed \subseteq env.c.targets
    BY PatchFacts DEF AlwaysBound
  <2> QED BY <1>18, <2>3, <2>4, <2>5, <2>6 DEF AlwaysBound
<1>23. PatchLists'
  <2>1. \A v \in DOMAIN writers : ListOf(writers[v])
    BY PatchFacts DEF PatchLists, ListOf, Current
  <2>2. ListOf(new)
    <3>1. IsSeq(<<>>)
      BY ShortSeqs
    <3>2. DOMAIN <<>> = {}
      OBVIOUS
    <3>3. IsSeq(new.patches) /\ DOMAIN new.patches = {}
      BY <1>10, <3>1, <3>2, Zenon
    <3> QED BY <1>10, <3>3 DEF ListOf
  <2>3. \A v \in DOMAIN writers' : ListOf(writers'[v])
    BY <1>14, <2>1, <2>2
  <2> QED BY <2>3 DEF PatchLists, ListOf, Current
<1>24. Slots'
  <2>1. \A p : p \in Acquired <=> \E v \in DOMAIN writers : \E n \in 1 .. writers[v].n : p = <<v, n>>
    BY DEF Acquired
  <2>2. \A p : p \in Acquired' <=> \E v \in DOMAIN writers' : \E n \in 1 .. writers'[v].n : p = <<v, n>>
    BY DEF Acquired
  <2>3. \A v \in DOMAIN writers' : \A n \in 1 .. writers'[v].n :
          v \in DOMAIN writers /\ n \in 1 .. writers[v].n
    BY <1>10, <1>14
  <2>4. \A v \in DOMAIN writers : \A n \in 1 .. writers[v].n :
          v \in DOMAIN writers' /\ n \in 1 .. writers'[v].n
    BY <1>13, <1>15
  <2>5. Acquired' = Acquired
    BY <2>1, <2>2, <2>3, <2>4
  <2> QED BY <1>0, <2>5 DEF PatchInv, Slots
<1>25. PatchesSame
  BY <1>13, <1>15 DEF PatchesSame
<1>26. Wire' = Wire
  <2>1. \A y \in Elems(steps) : y.do # "commit"
    BY <1>6
  <2> QED BY <1>0, <1>12, <2>1, PatchFacts, WireKept
<1>27. InRequest' /\ Debts'
  BY <1>0, <1>16, <1>25, <1>26, PatchFacts, CalmDebts DEF InRequest
<1> QED BY <1>19, <1>20, <1>21, <1>22, <1>23, <1>24, <1>27 DEF Books, Desk

(***************************************************************************)
(* The buffers of the patches                                              *)
(***************************************************************************)
LEMMA CalmPatchTargets ==
  ASSUME PatchInv, SettledKept, Wire' = Wire, arb'.req.patch = arb.req.patch,
         DOMAIN writers \subseteq DOMAIN writers',
         \A w \in DOMAIN writers : writers'[w].target = writers[w].target
  PROVE  PatchTargets'
<1>0. PatchTargets /\ InRequest
  BY PatchFacts DEF PatchInv
<1>1. Named(writers', arb.req.patch)
  BY <1>0 DEF PatchTargets, Named, InRequest, PatchOK
<1>2. ASSUME NEW list, SettledPatches(writers, arb.reservations, list)
      PROVE  SettledPatches(writers', arb'.reservations, list)
  <2>1. SUFFICES ASSUME NEW i \in DOMAIN list
                 PROVE  /\ list[i].target = StandsFor(arb'.reservations, writers'[list[i].w].target)
                        /\ list[i].target \in Ids /\ list[i].w \in DOMAIN writers'
    BY DEF SettledPatches, Settled
  <2>2. /\ list[i].w \in DOMAIN writers /\ list[i].target \in Ids
        /\ list[i].target = StandsFor(arb.reservations, writers[list[i].w].target)
    BY <1>2 DEF SettledPatches, Settled
  <2> QED BY <2>2 DEF StandsFor, IsReservation, SettledKept
<1> QED BY <1>0, <1>1, <1>2 DEF PatchTargets

LEMMA PlainPatchTargets ==
  ASSUME PatchInv, SettledKept, NEW t \in Threads, NEW first, Goes(t, first),
         todo[t] # <<>> => Now(t).do # "commit", \A x \in Elems(first) : x.do # "commit",
         writers' = writers \/ Edited \/ WritersKept, service' = service,
         arb'.req.patch = arb.req.patch
  PROVE  PatchTargets'
<1>1. Wire' = Wire
  BY PatchFacts, WireKept
<1>2. /\ DOMAIN writers \subseteq DOMAIN writers'
      /\ \A w \in DOMAIN writers : writers'[w].target = writers[w].target
  BY DEF Edited, WritersKept
<1> QED BY <1>1, <1>2, CalmPatchTargets

LEMMA NeutralPatchTargets ==
  ASSUME PatchInv, SettledKept, NeutralStep
  PROVE  PatchTargets'
<1>1. PICK t \in Threads : \E first : Neutral(t, first)
  BY DEF NeutralStep
<1>2. PICK first : Neutral(t, first)
  BY <1>1
<1> QED BY <1>2, PlainPatchTargets DEF Neutral

LEMMA BindPatchTargets ==
  ASSUME PatchInv, SettledKept, BindStep
  PROVE  PatchTargets'
<1>1. PICK t \in Threads : \E first : Binds(t, first)
  BY DEF BindStep
<1>2. PICK first : Binds(t, first)
  BY <1>1
<1> QED BY <1>2, PlainPatchTargets DEF Binds

LEMMA QuietPatchTargets ==
  ASSUME PatchInv, SettledKept, QuietStep
  PROVE  PatchTargets'
<1>1. NeutralStep
  BY DEF QuietStep, NeutralStep
<1> QED BY <1>1, NeutralPatchTargets

LEMMA OtherPatchTargets ==
  ASSUME PatchInv, SettledKept, NEW t \in Threads, NotifyFlushComplete(t) \/ FlushWriter(t) \/ PostTask(t)
  PROVE  PatchTargets'
<1>0. ThreadInv /\ Shapes /\ (~arb.req.open => arb.req = NoRequest)
  BY PatchFacts DEF Stream
<1>1. CASE NotifyFlushComplete(t)
  <2>1. PICK first : Goes(t, first) /\ \A x \in Elems(first) : x = Post(Flush({}))
    BY <1>0, <1>1, NotifyFlushCompleteSteps
  <2>2. \A x \in Elems(first) : x.do # "commit"
    BY <2>1, PostKind
  <2>3. todo[t] = <<>> /\ service' = service /\ writers' = writers
    BY <1>0, <1>1, NotifyFlushCompleteSteps
  <2>4. PICK old : old = IF arb.req.open THEN arb.req ELSE EmptyRequest
    OBVIOUS
  <2>5. DOMAIN old = {"open", "move", "patch", "flush"} /\ old.patch = arb.req.patch
    <3>1. CASE arb.req.open
      BY <1>0, <2>4, <3>1 DEF Shapes
    <3>2. CASE ~arb.req.open
      BY <1>0, <2>4, <3>2 DEF NoRequest, EmptyRequest
    <3> QED BY <3>1, <3>2
  <2>6. PICK number : arb' = [arb EXCEPT !.req = [old EXCEPT !.flush = number]]
    BY <1>1, <2>4, Zenon DEF NotifyFlushComplete
  <2>7. PICK new : new = [old EXCEPT !.flush = number] /\ arb' = [arb EXCEPT !.req = new]
    BY <2>6
  <2>8. arb'.req = new /\ new.patch = arb.req.patch
    BY <1>0, <2>5, <2>7 DEF Shapes
  <2> QED BY <2>1, <2>2, <2>3, <2>8, PlainPatchTargets
<1>2. CASE FlushWriter(t)
  <2>1. /\ todo[t] = <<>> /\ arb' = arb /\ service' = service /\ Edited
        /\ \E w \in DOMAIN writers : \E first, cb : FlushedFor(t, w, first, cb)
    BY <1>0, <1>2, FlushWriterSteps
  <2>2. PICK w \in DOMAIN writers : \E first, cb : FlushedFor(t, w, first, cb)
    BY <2>1
  <2>3. PICK first, cb : FlushedFor(t, w, first, cb)
    BY <2>2
  <2>4. Goes(t, first) /\ Elems(first) = Elems(ReturnCurrent(w)) \cup {Flush({cb})}
    BY <2>3 DEF FlushedFor
  <2>5. \A x \in Elems(ReturnCurrent(w)) : x.do = "return"
    BY ReturnCurrentFacts, ReturnKind
  <2>6. \A x \in Elems(first) : x.do # "commit"
    BY <2>4, <2>5, FlushKind
  <2> QED BY <2>1, <2>4, <2>6, PlainPatchTargets
<1>3. CASE PostTask(t)
  <2>1. /\ Now(t).do = "post" /\ \E e : Goes(t, e) /\ Elems(e) = {}
        /\ arb' = arb /\ writers' = writers /\ service' = service
    BY <1>0, <1>3, PostTaskSteps
  <2>2. PICK e : Goes(t, e) /\ Elems(e) = {}
    BY <2>1
  <2> QED BY <2>1, <2>2, PlainPatchTargets
<1> QED BY <1>1, <1>2, <1>3

LEMMA TaskPatchTargets ==
  ASSUME PatchInv, SettledKept, RunTask \/ RunCallback
  PROVE  PatchTargets'
<1>0. ThreadInv /\ Division /\ IPC \in Threads
  BY PatchFacts, ArbiterConstants
<1>1. CASE RunTask
  <2>1. /\ todo[IPC] = <<>> /\ Goes(IPC, <<Head(tasks)>>) /\ Head(tasks) \in Elems(tasks)
        /\ arb' = arb /\ writers' = writers /\ service' = service
    BY <1>0, <1>1, RunTaskSteps
  <2>2. PICK x : x = Head(tasks) /\ x.do \in TaskKinds
    BY <1>0, <2>1 DEF Division
  <2>3. PICK first : Goes(IPC, first) /\ Elems(first) = {x}
    BY <2>1, <2>2, ShortSeqs
  <2>4. \A y \in Elems(first) : y.do # "commit"
    BY <2>2, <2>3 DEF TaskKinds, PostKinds
  <2> QED BY <1>0, <2>1, <2>3, <2>4, PlainPatchTargets
<1>2. CASE RunCallback
  <2>1. /\ Now(IPC).do = "callback" /\ \E e : Goes(IPC, e) /\ Elems(e) = {}
        /\ arb' = arb /\ writers' = writers /\ service' = service
    BY <1>0, <1>2, RunCallbackSteps
  <2>2. PICK e : Goes(IPC, e) /\ Elems(e) = {}
    BY <2>1
  <2> QED BY <1>0, <2>1, <2>2, PlainPatchTargets
<1> QED BY <1>1, <1>2

(* A patch that joins the request names the target of its writer.          *)
LEMMA UpdatePatchTargets ==
  ASSUME PatchInv, NEW t \in Threads, NEW w \in DOMAIN writers, NEW count, Updates(t, w, count),
         NEW chunk, NEW rest, UpdateCommitDataRequest(t, w, chunk, rest),
         todo[t] # <<>> => Now(t).do # "commit"
  PROVE  PatchTargets'
<1>0. PICK list, patch : list = writers[w].patches /\ patch = arb.req.patch
  OBVIOUS
<1>1. PICK req : Grown(req, chunk) /\ Updated(req, w, list)
  BY <1>0, PatchFacts, UpdateRequest DEF Stream
<1>2. PICK sent : sent = SentPatches(req, w, list)
  OBVIOUS
<1>3. arb'.req.patch = patch \o sent
  BY <1>0, <1>1, <1>2 DEF Updated, Grown
<1>4. /\ Wire' = Wire /\ arb'.reservations = arb.reservations /\ DOMAIN writers' = DOMAIN writers
      /\ \A v \in DOMAIN writers : writers'[v].target = writers[v].target
  BY PatchFacts, UpdateWire
<1>5. IsSeq(patch) /\ IsSeq(list) /\ Named(writers, patch) /\ \A i \in DOMAIN patch : patch[i].w \in DOMAIN writers
  BY <1>0, PatchFacts DEF PatchInv, PatchTargets, InRequest, PatchOK
<1>6. IsSeq(sent) /\ \A k \in DOMAIN sent : \E i \in DOMAIN list : sent[k] = PatchEntry(w, list, i)
  BY <1>2, <1>5, SentCount
<1>7. Joins(patch \o sent, patch, sent)
  BY <1>5, <1>6, JoinedLists
<1>8. \A i \in DOMAIN patch : patch[i].target = writers'[patch[i].w].target
  BY <1>4, <1>5 DEF Named
<1>9. \A k \in DOMAIN sent : sent[k].target = writers'[sent[k].w].target
  BY <1>4, <1>6 DEF PatchEntry
<1>10. Named(writers', patch \o sent)
  BY <1>7, <1>8, <1>9 DEF Named, Joins
<1>11. \A i \in SentIn(Wire) : SettledPatches(writers', arb.reservations, Wire[i].req.patch)
  BY <1>4 DEF PatchInv, PatchTargets, SettledPatches, Settled
<1> QED BY <1>3, <1>4, <1>10, <1>11 DEF PatchTargets

LEMMA ReturnPatchTargets ==
  ASSUME PatchInv, NEW t \in Threads, ReturnCompletedChunk(t)
  PROVE  PatchTargets'
<1>0. PICK w : w = Now(t).w
  OBVIOUS
<1>1. Updates(t, w, 1) /\ Now(t).do = "return" /\ w \in DOMAIN writers
  BY <1>0, PatchFacts, ReturnCompletedChunkSteps
<1>2. PICK chunk : UpdateCommitDataRequest(t, w, chunk, Tail(todo[t]))
  BY <1>0, Zenon DEF ReturnCompletedChunk
<1> QED BY <1>1, <1>2, UpdatePatchTargets

LEMMA SendPatchesPatchTargets ==
  ASSUME PatchInv, NEW t \in Threads, SendPatches(t)
  PROVE  PatchTargets'
<1>1. PICK w \in DOMAIN writers : Updates(t, w, 0) /\ UpdateCommitDataRequest(t, w, <<>>, <<>>)
  BY PatchFacts, SendPatchesSteps
<1>2. PICK none : UpdateCommitDataRequest(t, w, none, none)
  BY <1>1, Zenon
<1>3. todo[t] = <<>>
  BY PatchFacts, SendPatchesSteps
<1> QED BY <1>1, <1>2, <1>3, UpdatePatchTargets

(* A patch that is sent names the buffer that its target stands for.       *)
LEMMA FlushPendingPatchTargets ==
  ASSUME PatchInv, SettledKept, NEW t \in Threads, FlushPendingCommitDataRequests(t)
  PROVE  PatchTargets'
<1>0. ThreadInv /\ Shapes /\ (~arb.req.open => arb.req = NoRequest) /\ PatchTargets
  BY PatchFacts DEF Stream, PatchInv
<1>1. PICK cbs : cbs = Now(t).cbs
  OBVIOUS
<1>2. /\ todo[t] # <<>> /\ Now(t).do = "flush" /\ writers' = writers /\ service' = service
      /\ \E first : /\ Goes(t, first)
                    /\ \/ Leaves(t, first, cbs) \/ PassesOn(t, first, cbs)
                       \/ Sends(t, first, cbs)
  BY <1>0, <1>1, FlushPendingSteps
<1>3. PICK first : /\ Goes(t, first)
                   /\ \/ Leaves(t, first, cbs) \/ PassesOn(t, first, cbs)
                      \/ Sends(t, first, cbs)
  BY <1>2
<1>4. CASE Leaves(t, first, cbs)
  <2>1. arb' = [arb EXCEPT !.callbacks = @ \cup cbs] /\ Elems(first) = {}
    BY <1>4 DEF Leaves
  <2>2. arb'.req = arb.req
    BY <1>0, <2>1 DEF Shapes
  <2> QED BY <1>2, <1>3, <2>1, <2>2, PlainPatchTargets
<1>5. CASE PassesOn(t, first, cbs)
  <2>1. arb' = arb /\ \A x \in Elems(first) : x.do # "commit"
    BY <1>5, ShortSeqs, PostKind DEF PassesOn
  <2> QED BY <1>2, <1>3, <2>1, PlainPatchTargets
<1>6. CASE Sends(t, first, cbs)
  <2>0. t = IPC /\ arb.fully_bound /\ arb' = [arb EXCEPT !.req = NoRequest]
    BY <1>6 DEF Sends
  <2>1. arb'.req = NoRequest /\ arb'.reservations = arb.reservations
    BY <1>0, <2>0 DEF Shapes
  <2>2. CASE first = <<>> /\ ~arb.req.open
    <3>1. Elems(first) = {} /\ arb'.req = arb.req
      BY <1>0, <2>1, <2>2, ShortSeqs
    <3> QED BY <1>2, <1>3, <3>1, PlainPatchTargets
  <2>3. CASE first = <<Commit(ToSend, cbs)>>
    <3>1. PICK x : x = Commit(ToSend, cbs) /\ x.do = "commit" /\ x.req = ToSend
      BY CommitKind
    <3>2. first # <<>> /\ Head(first) = x
      BY <2>3, <3>1
    <3>3. todo'[IPC] # <<>> /\ Head(todo'[IPC]) = x
      BY <1>0, <1>3, <2>0, <3>2, GoesHead
    <3>4. Wire' = Append(service.inbox, x) /\ Wire = service.inbox
      BY <1>2, <2>0, <3>1, <3>3 DEF Wire, Now
    <3>5. Adds(Wire', Wire, x)
      BY <1>0, <3>4, SentAppend DEF Shapes
    <3>6. SettledPatches(writers, arb.reservations, x.req.patch)
      BY <2>0, <3>1, ToSendLeft
    <3>7. DOMAIN arb'.req.patch = {}
      <4>1. arb'.req.patch = <<>>
        BY <2>1 DEF NoRequest
      <4>2. DOMAIN <<>> = {}
        OBVIOUS
      <4> QED BY <4>1, <4>2
    <3>8. \A i \in SentIn(Wire') : SettledPatches(writers, arb.reservations, Wire'[i].req.patch)
      BY <1>0, <3>5, <3>6 DEF PatchTargets, Adds
    <3> QED BY <1>2, <2>1, <3>7, <3>8 DEF PatchTargets, Named
  <2> QED BY <1>6, <2>2, <2>3 DEF Sends
<1> QED BY <1>3, <1>4, <1>5, <1>6

LEMMA CallEndpointPatchTargets ==
  ASSUME PatchInv, NEW t \in Threads, CallEndpoint(t)
  PROVE  PatchTargets'
<1>0. Shapes /\ Division /\ ThreadInv /\ PatchTargets
  BY PatchFacts DEF PatchInv
<1>1. /\ t = IPC /\ todo[t] # <<>> /\ \E e : Goes(t, e) /\ Elems(e) = {}
      /\ service'.inbox = Append(service.inbox, Now(t)) /\ arb' = arb /\ writers' = writers
  BY <1>0, CallEndpointSteps
<1>2. PICK e : Goes(IPC, e) /\ Elems(e) = {}
  BY <1>1
<1>3. Wire' = Append(service.inbox, Now(IPC))
  BY <1>0, <1>1, <1>2, WireAfter
<1>4. CASE Now(IPC).do = "commit"
  <2>1. Wire' = Wire
    BY <1>1, <1>3, <1>4, WireNow
  <2> QED BY <1>0, <1>1, <2>1 DEF PatchTargets
<1>5. CASE Now(IPC).do # "commit"
  <2>1. PICK x : x = Now(IPC) /\ x.do # "commit"
    BY <1>5
  <2>2. Adds(Wire', Wire, x)
    BY <1>0, <1>3, <1>5, <2>1, WireNow, SentAppend DEF Shapes
  <2> QED BY <1>0, <1>1, <2>1, <2>2 DEF PatchTargets, Adds
<1> QED BY <1>4, <1>5

LEMMA ServicePatchTargets ==
  ASSUME PatchInv, ServiceStep
  PROVE  PatchTargets'
<1>1. PICK m : m = Head(service.inbox)
  OBVIOUS
<1>2. arb' = arb /\ writers' = writers
  BY DEF ServiceStep
<1>3. Takes(Wire', Wire, m)
  BY <1>1, PatchFacts, WireTakes
<1> QED BY <1>2, <1>3 DEF PatchInv, PatchTargets, Takes

LEMMA NextPatchTargets ==
  ASSUME PatchInv, SettledKept, [Next]_vars
  PROVE  PatchTargets'
<1>0. ThreadInv
  BY PatchFacts
<1>1. ASSUME NEW t \in Threads, Call(t) PROVE PatchTargets'
  <2>1. ASSUME NEW r \in Reservations, AbortStartupTracingForReservation(t, r)
        PROVE  PatchTargets'
    BY <1>0, <2>1, AbortPostNeutral, AbortBindSteps, NeutralPatchTargets, BindPatchTargets
  <2>2. ASSUME NEW b \in Buffers \cup Reservations, CreateTraceWriter(t, b)
        PROVE  PatchTargets'
    BY <1>0, <2>2, CreateTraceWriterNeutral, NeutralPatchTargets
  <2> QED BY <1>0, <1>1, <2>1, <2>2, DestroyTraceWriterNeutral, GetNewChunkNeutral,
     GetNewChunkExhaustedNeutral, FinalizeNestedNeutral, QuietPatchTargets, OtherPatchTargets,
     SendPatchesPatchTargets DEF Call
<1>2. ASSUME NEW t \in Threads, Step(t) PROVE PatchTargets'
  BY <1>0, <1>2, ReleaseWriterIDNeutral, RetryGetNewChunkNeutral, PostDelayedTaskNeutral,
     QuietPatchTargets, OtherPatchTargets, ReturnPatchTargets, FlushPendingPatchTargets,
     CallEndpointPatchTargets DEF Step
<1>3. ASSUME Bind PROVE PatchTargets'
  BY <1>0, <1>3, BindToProducerEndpointSteps, BindStartupTargetBufferSteps, BindPatchTargets,
     QuietNeutral, QuietPatchTargets DEF Bind
<1>4. ASSUME TaskRunner PROVE PatchTargets'
  BY <1>0, <1>4, RunDelayedTaskNeutral, ClearDelayedNeutral, QuietPatchTargets, TaskPatchTargets,
     RunAbortSteps, BindPatchTargets DEF TaskRunner
<1>5. ASSUME UNCHANGED vars PROVE PatchTargets'
  BY <1>5 DEF vars, PatchInv, PatchTargets, Wire
<1> QED BY <1>1, <1>2, <1>3, <1>4, <1>5, ServicePatchTargets DEF Next

(***************************************************************************)
(* The theorem                                                             *)
(***************************************************************************)
LEMMA InitBooks ==
  ASSUME Init
  PROVE  Books /\ PatchTargets
<1>0. PICK c \in Scenarios :
        /\ env = [c |-> c, claimed |-> {}, flushes |-> 0, asked |-> <<>>, overtaken |-> {}]
        /\ arb = [bound |-> c.bound, fully_bound |-> c.bound,
                  was_always_bound |-> c.bound,
                  req |-> NoRequest, scheduled |-> FALSE, callbacks |-> {},
                  pending |-> {}, reservations |-> [r \in Reservations |-> Absent],
                  ids |-> {}, last_id |-> 0, did_shutdown |-> FALSE, direct |-> FALSE]
  BY Zenon DEF Init
<1>1. /\ todo = [t \in Threads |-> <<>>] /\ writers = <<>> /\ free = NumSlots
      /\ service = [inbox |-> <<>>, landed |-> <<>>, registered |-> {}, flushed |-> 0]
  BY Zenon DEF Init
<1>2. /\ arb.pending = {} /\ arb.ids = {} /\ arb.last_id = 0 /\ arb.req = NoRequest
      /\ arb.was_always_bound = c.bound /\ arb.fully_bound = c.bound
      /\ env.c = c /\ env.claimed = {} /\ service.landed = <<>> /\ service.inbox = <<>>
  BY <1>0, <1>1
<1>3. DOMAIN <<>> = {} /\ IsSeq(<<>>) /\ Elems(<<>>) = {} /\ Len(<<>>) = 0
  <2>1. DOMAIN <<>> = {}
    OBVIOUS
  <2>2. IsSeq(<<>>) /\ Elems(<<>>) = {} /\ Len(<<>>) = 0
    BY ShortSeqs
  <2> QED BY <2>1, <2>2
<1>4. PICK none : none = <<>>
  OBVIOUS
<1>5. /\ DOMAIN none = {} /\ IsSeq(none) /\ Elems(none) = {} /\ Len(none) = 0
      /\ writers = none /\ service.landed = none /\ service.inbox = none
      /\ \A t \in Threads : todo[t] = none
  BY <1>1, <1>2, <1>3, <1>4
<1>6. /\ c.bound \in BOOLEAN /\ c.writers \in Nat
      /\ c.policy = "kStall" => c.bound
  BY ArbiterConstants DEF Scenario
<1>7. Occupied
  BY <1>5 DEF Occupied, FinalLast
<1>8. Distinct
  BY <1>2, <1>5, ArbiterConstants DEF Distinct
<1>9. Numbers
  BY <1>2, <1>5, <1>6 DEF Numbers
<1>10. AlwaysBound
  BY <1>2, <1>6 DEF AlwaysBound
<1>11. PatchLists
  BY <1>5 DEF PatchLists
<1>12. Slots
  <2>1. Acquired = {}
    BY <1>5 DEF Acquired
  <2>2. IsFiniteSet(Acquired) /\ Cardinality(Acquired) = 0
    BY <2>1, FS_EmptySet
  <2> QED BY <1>1, <1>5, <2>2, ArbiterConstants DEF Slots
<1>13. arb.req.move = none /\ arb.req.patch = none
  BY <1>2, <1>4 DEF NoRequest
<1>14. RequestIs(arb.req)
  BY <1>2 DEF RequestIs, NoRequest
<1>15. InRequest
  BY <1>5, <1>13, <1>14 DEF InRequest
<1>16. Wire = none
  BY <1>4, <1>5, ArbiterConstants DEF Wire
<1>17. Debts
  BY <1>5, <1>13, <1>16 DEF Debts, Posted, Owes, Owing, SentIn
<1>18. PatchTargets
  BY <1>5, <1>13, <1>16 DEF PatchTargets, Named, SentIn
<1> QED BY <1>7, <1>8, <1>9, <1>10, <1>11, <1>12, <1>15, <1>17, <1>18 DEF Books, Desk

LEMMA NextBooks ==
  ASSUME PatchInv, AnswerInv', [Next]_vars
  PROVE  Books'
<1>1. ASSUME NEW t \in Threads, Call(t) PROVE Books'
  BY <1>1, AbortBooks, CreateTraceWriterBooks, DestroyTraceWriterBooks, GetNewChunkBooks,
     GetNewChunkExhaustedBooks, FinalizeNestedBooks, SendPatchesBooks, FlushWriterBooks,
     NotifyBooks DEF Call
<1>2. ASSUME NEW t \in Threads, Step(t) PROVE Books'
  BY <1>2, ReleaseWriterIDBooks, RetryGetNewChunkBooks, ReturnBooks, FlushPendingBooks,
     PostTaskBooks, PostDelayedTaskBooks, CallEndpointBooks DEF Step
<1>3. ASSUME Bind PROVE Books'
  BY <1>3, BindToProducerEndpointBooks, BindStartupTargetBufferBooks, QuietBooks DEF Bind
<1>4. ASSUME TaskRunner PROVE Books'
  BY <1>4, RunTaskBooks, RunDelayedTaskBooks, ClearDelayedBooks, RunCallbackBooks,
     RunAbortBooks DEF TaskRunner
<1>5. ASSUME UNCHANGED vars PROVE Books'
  <2>1. arb' = arb /\ writers' = writers /\ free' = free /\ todo' = todo /\ service' = service /\ env' = env
    BY <1>5 DEF vars
  <2>2. Occupied'
    BY <2>1, PatchFacts DEF Occupied, BusyWith
  <2>3. Desk'
    BY <2>1, <2>2, ArbSame, EnvSame, DeskSame DEF PatchInv
  <2>4. Slots'
    BY <2>1, SlotsSame DEF PatchInv
  <2>5. Wire' = Wire
    BY <2>1 DEF Wire
  <2>6. PatchesSame
    BY <2>1 DEF PatchesSame
  <2>7. InRequest' /\ Debts'
    BY <2>1, <2>5, <2>6, ArbSame, CalmDebts
  <2> QED BY <2>3, <2>4, <2>7 DEF Books
<1> QED BY <1>1, <1>2, <1>3, <1>4, <1>5, ServiceBooks DEF Next

(* The invariant from which the theorems below follow.                     *)
THEOREM PatchInvHolds == Spec => []PatchInv
<1>1. Init => Books /\ PatchTargets
  BY InitBooks
<1>2. ASSUME AnswerInv, AnswerInv', Books /\ PatchTargets, [Next]_vars
      PROVE  Books' /\ PatchTargets'
  <2>1. PatchInv
    BY <1>2 DEF Books, PatchInv
  <2>2. SettledKept
    BY <1>2, NextBinding DEF AnswerInv, StreamInv
  <2> QED BY <1>2, <2>1, <2>2, NextBooks, NextPatchTargets
<1>3. AnswerInv /\ Books /\ PatchTargets => PatchInv
  BY DEF Books, PatchInv
<1> QED BY <1>1, <1>2, <1>3, AnswerInvHolds, PTL DEF Spec

(* The commits that are on their way are those of the wire: a thread has   *)
(* no commit after its first step.                                         *)
LEMMA WireCommits ==
  ASSUME Shapes, Division
  PROVE  Commits = Sent /\ \A i \in Commits : OnTheWay[i] = Wire[i]
<1>1. IPC \in Threads /\ IsSeq(service.inbox) /\ IsSeq(todo[IPC])
  BY ArbiterConstants DEF Shapes
<1>2. PICK in, mine, all, wire : /\ in = service.inbox /\ mine = todo[IPC] /\ all = OnTheWay /\ wire = Wire
  OBVIOUS
<1>3. /\ IsSeq(in) /\ IsSeq(mine) /\ all = in \o mine
  BY <1>1, <1>2 DEF OnTheWay
<1>4. /\ Len(in) \in Nat /\ Len(mine) \in Nat /\ DOMAIN in = 1 .. Len(in) /\ DOMAIN mine = 1 .. Len(mine)
      /\ DOMAIN all = 1 .. Len(in) + Len(mine)
      /\ \A i \in DOMAIN in : all[i] = in[i]
      /\ \A i \in DOMAIN mine : all[Len(in) + i] = mine[i]
  BY <1>3, ConcatSeq
<1>5. \A i \in DOMAIN mine : i # 1 => mine[i].do # "commit"
  <2>1. SUFFICES ASSUME NEW i \in DOMAIN mine, i # 1 PROVE mine[i].do # "commit"
    OBVIOUS
  <2>2. mine # <<>>
    <3>1. DOMAIN <<>> = {}
      OBVIOUS
    <3> QED BY <3>1
  <2>3. /\ DOMAIN Tail(mine) = 1 .. Len(mine) - 1
        /\ \A j \in DOMAIN Tail(mine) : j + 1 \in DOMAIN mine /\ Tail(mine)[j] = mine[j + 1]
    BY <1>3, <2>2, TailSeq
  <2>4. \A x \in Elems(Tail(mine)) : x.do # "commit"
    BY <1>1, <1>2, <2>2 DEF Division
  <2>5. i - 1 \in DOMAIN Tail(mine) /\ Tail(mine)[i - 1] = mine[i]
    BY <1>4, <2>1, <2>3
  <2>6. mine[i] \in Elems(Tail(mine))
    BY <2>5 DEF Elems
  <2> QED BY <2>4, <2>6
<1>6. CASE mine # <<>> /\ Head(mine).do = "commit"
  <2>1. wire = Append(in, Head(mine))
    BY <1>2, <1>6 DEF Wire
  <2>2. PICK x : x = Head(mine)
    OBVIOUS
  <2>3. /\ DOMAIN wire = 1 .. Len(in) + 1 /\ \A i \in DOMAIN in : wire[i] = in[i]
        /\ wire[Len(in) + 1] = x
    BY <1>3, <2>1, <2>2, AppendSeq
  <2>4. x = mine[1] /\ 1 \in DOMAIN mine /\ x.do = "commit"
    BY <1>3, <1>4, <1>6, <2>2, TailSeq
  <2>5. ASSUME NEW i \in DOMAIN all, all[i].do = "commit"
        PROVE  i \in DOMAIN wire /\ wire[i] = all[i]
    <3>1. CASE i \in DOMAIN in
      BY <1>4, <2>3, <3>1
    <3>2. CASE i \notin DOMAIN in
      <4>0. i - Len(in) \in 1 .. Len(mine) /\ i = Len(in) + (i - Len(in))
        BY <1>4, <3>2
      <4>1. PICK j \in DOMAIN mine : i = Len(in) + j
        BY <1>4, <4>0
      <4>2. all[i] = mine[j]
        BY <1>4, <4>1
      <4>3. j = 1
        BY <1>5, <2>5, <4>2
      <4> QED BY <1>4, <2>3, <2>4, <4>1, <4>2, <4>3
    <3> QED BY <3>1, <3>2
  <2>6. ASSUME NEW i \in DOMAIN wire PROVE i \in DOMAIN all /\ all[i] = wire[i]
    BY <1>4, <2>3, <2>4
  <2> QED BY <1>2, <2>5, <2>6 DEF Commits, Sent, SentIn
<1>7. CASE ~(mine # <<>> /\ Head(mine).do = "commit")
  <2>1. wire = in
    BY <1>2, <1>7 DEF Wire
  <2>2. \A i \in DOMAIN mine : mine[i].do # "commit"
    <3>1. SUFFICES ASSUME NEW i \in DOMAIN mine, i = 1 PROVE mine[i].do # "commit"
      BY <1>5
    <3>2. mine # <<>>
      <4>1. DOMAIN <<>> = {}
        OBVIOUS
      <4> QED BY <4>1
    <3>3. Head(mine) = mine[1]
      BY <1>3, <3>2, TailSeq
    <3> QED BY <1>7, <3>1, <3>2, <3>3
  <2>3. ASSUME NEW i \in DOMAIN all, all[i].do = "commit"
        PROVE  i \in DOMAIN wire /\ wire[i] = all[i]
    <3>1. CASE i \in DOMAIN in
      BY <1>4, <2>1, <3>1
    <3>2. CASE i \notin DOMAIN in
      <4>0. i - Len(in) \in 1 .. Len(mine) /\ i = Len(in) + (i - Len(in))
        BY <1>4, <3>2
      <4>1. PICK j \in DOMAIN mine : i = Len(in) + j
        BY <1>4, <4>0
      <4>2. all[i] = mine[j]
        BY <1>4, <4>1
      <4> QED BY <2>2, <2>3, <4>2
    <3> QED BY <3>1, <3>2
  <2>4. ASSUME NEW i \in DOMAIN wire PROVE i \in DOMAIN all /\ all[i] = wire[i]
    BY <1>4, <2>1
  <2> QED BY <1>2, <2>3, <2>4 DEF Commits, Sent, SentIn
<1> QED BY <1>6, <1>7

(* Every patch that a chunk still misses is still to come, and none comes  *)
(* twice: a chunk that the service has, that is on its way, or that waits  *)
(* in the request misses as many patches as its writer holds, the request  *)
(* carries and messages bring, also when the arbiter patches in place and  *)
(* a flush takes the chunk away (TryDirectPatchLocked,                     *)
(* UpdateCommitDataRequest, FlushPendingCommitDataRequests).               *)
THEOREM PatchesAreNotLostHolds == Spec => []PatchesAreNotLost
<1>1. ASSUME PatchInv PROVE PatchesAreNotLost
  <2>1. /\ Shapes /\ Division
        /\ Owes(writers, service.landed, Wire, arb.req.move, arb.req.patch)
    BY <1>1, PatchFacts
  <2>2. Commits = Sent /\ \A i \in Commits : OnTheWay[i] = Wire[i]
    BY <2>1, WireCommits
  <2>3. \A w, n : Outstanding(w, n) = Owed(writers, Wire, arb.req.patch, w, n)
    <3>1. SUFFICES ASSUME NEW w, NEW n
                   PROVE  Outstanding(w, n) = Owed(writers, Wire, arb.req.patch, w, n)
      OBVIOUS
    <3>2. UNION {{i} \X PatchesIn(OnTheWay[i].req.patch, w, n) : i \in Commits} = SentFor(Wire, w, n)
      BY <2>2 DEF SentFor, Sent
    <3> QED BY <3>2 DEF Outstanding, Owed
  <2>4. /\ Owing(writers, Wire, arb.req.patch, service.landed)
        /\ Owing(writers, Wire, arb.req.patch, arb.req.move)
        /\ \A i \in Commits : Owing(writers, Wire, arb.req.patch, OnTheWay[i].req.move)
    BY <2>1, <2>2 DEF Owes, Sent
  <2> QED BY <2>3, <2>4 DEF PatchesAreNotLost, Owing
<1> QED BY <1>1, PatchInvHolds, PTL

(***************************************************************************)
(* The types                                                               *)
(***************************************************************************)
LEMMA ReturnedOnly ==
  ASSUME WriterShapes, Returns, NEW w \in DOMAIN writers
  PROVE  writers[w].returned <= writers[w].n /\ writers[w].returned \in Nat /\ writers[w].n \in Nat
<1>1. writers[w].returned \in Nat /\ writers[w].n \in Nat /\ Current(w) \in Nat
  BY DEF WriterShapes, Current
<1>2. CASE Returning(w)
  <2>1. PICK t \in Threads : \E x \in Elems(todo[t]) : x.do = "return" /\ x.w = w
    BY <1>2 DEF Returning
  <2>2. PICK x \in Elems(todo[t]) : x.do = "return" /\ x.w = w
    BY <2>1
  <2>3. writers[w].n = writers[w].returned + 1 + Current(w)
    BY <2>2 DEF Returns
  <2> QED BY <1>1, <2>3
<1>3. CASE ~Returning(w)
  <2>1. writers[w].n = writers[w].returned + Current(w)
    BY <1>3 DEF Returns
  <2> QED BY <1>1, <2>1
<1> QED BY <1>2, <1>3

(* Every chunk that has landed was acquired, and landed once.              *)
LEMMA LandedAcquired ==
  ASSUME PatchInv
  PROVE  /\ Len(service.landed) \in Nat /\ Len(service.landed) <= Cardinality(Acquired)
         /\ ChunksOf(service.landed) \subseteq Acquired
         /\ Cardinality(ChunksOf(service.landed)) = Len(service.landed)
<1>1. PICK landed : landed = service.landed
  OBVIOUS
<1>2. /\ WriterShapes /\ Returns /\ IsSeq(landed) /\ Increasing(landed)
      /\ \A i \in DOMAIN landed : Entry(writers, landed[i])
  BY <1>1, PatchFacts DEF Flow, Lists, Entries
<1>3. Len(landed) \in Nat /\ DOMAIN landed = 1 .. Len(landed)
  BY <1>2 DEF IsSeq
<1>4. PICK f : f = [i \in DOMAIN landed |-> <<landed[i].w, landed[i].n>>]
  OBVIOUS
<1>5. PICK seen : seen = {f[i] : i \in DOMAIN landed}
  OBVIOUS
<1>6. ASSUME NEW i \in DOMAIN landed PROVE f[i] \in Acquired
  <2>1. landed[i].w \in DOMAIN writers /\ landed[i].n \in 1 .. writers[landed[i].w].returned
    BY <1>2 DEF Entry
  <2>2. landed[i].n \in 1 .. writers[landed[i].w].n
    BY <1>2, <2>1, ReturnedOnly
  <2>3. f[i] = <<landed[i].w, landed[i].n>>
    BY <1>4
  <2> QED BY <2>1, <2>2, <2>3 DEF Acquired
<1>7. seen \subseteq Acquired
  BY <1>5, <1>6
<1>8. \A i, j \in DOMAIN landed : f[i] = f[j] => i = j
  <2>1. SUFFICES ASSUME NEW i \in DOMAIN landed, NEW j \in DOMAIN landed, f[i] = f[j] PROVE i = j
    OBVIOUS
  <2>2. landed[i].w = landed[j].w /\ landed[i].n = landed[j].n
    BY <1>4, <2>1
  <2>3. landed[i].n \in Int
    BY <1>2 DEF Entry
  <2>4. ~(i < j) /\ ~(j < i)
    BY <1>2, <2>2, <2>3 DEF Increasing
  <2> QED BY <1>3, <2>4
<1>9. f \in [DOMAIN landed -> seen] /\ \A c \in seen : \E i \in DOMAIN landed : f[i] = c
  BY <1>4, <1>5
<1>10. IsFiniteSet(DOMAIN landed)
  BY <1>2, PlacesFinite
<1>11. IsFiniteSet(seen) /\ Cardinality(seen) = Cardinality(DOMAIN landed)
  BY <1>8, <1>9, <1>10, SameNumber
<1>12. Cardinality(DOMAIN landed) = Len(landed)
  <2>1. \A i, j \in Int : i <= j => Cardinality(i .. j) = j - i + 1
    BY FS_Interval, SMTT(40)
  <2>2. PICK len \in Nat : len = Len(landed)
    BY <1>3
  <2>3. len > 0 => Cardinality(1 .. len) = len
    BY <2>1
  <2>4. len = 0 => 1 .. len = {}
    OBVIOUS
  <2>5. len = 0 => Cardinality(1 .. len) = 0
    BY <2>4, FS_EmptySet
  <2>6. PICK c : c = Cardinality(1 .. len)
    OBVIOUS
  <2>7. c = len
    BY <2>3, <2>5, <2>6
  <2> QED BY <1>3, <2>2, <2>6, <2>7
<1>13. IsFiniteSet(Acquired)
  BY DEF PatchInv, Slots
<1>14. Cardinality(seen) <= Cardinality(Acquired)
  BY <1>7, <1>13, FS_Subset
<1>15. ChunksOf(service.landed) = seen
  BY <1>1, <1>4, <1>5 DEF ChunksOf
<1> QED BY <1>1, <1>3, <1>7, <1>11, <1>12, <1>14, <1>15

LEMMA RequestType ==
  ASSUME PatchInv
  PROVE  arb.req \in Request
<1>0. /\ Shapes /\ WriterShapes /\ Returns /\ TargetsKept /\ InRequest /\ Numbers
      /\ Flow(writers, service.landed, Wire, arb.req.move) /\ Replies
      /\ Owes(writers, service.landed, Wire, arb.req.move, arb.req.patch)
  BY PatchFacts DEF PatchInv, AnswerInv
<1>1. PICK req : req = arb.req
  OBVIOUS
<1>2. /\ req.open \in BOOLEAN /\ RequestIs(req)
  BY <1>0, <1>1 DEF Shapes, InRequest
<1>3. req.flush \in Nat
  <2>1. Len(env.asked) \in Nat
    BY <1>0 DEF WriterShapes, IsSeq
  <2> QED BY <1>0, <1>1, <2>1 DEF Replies
<1>4. \A w \in DOMAIN writers : w \in 1 .. MaxWriters
  <2>1. DOMAIN writers = 1 .. Len(writers) /\ Len(writers) \in Nat
    BY <1>0 DEF WriterShapes, IsSeq
  <2>2. env.c.writers \in 0 .. MaxWriters /\ Len(writers) <= env.c.writers /\ MaxWriters \in Nat
    BY <1>0, ArbiterConstants DEF Numbers, Scenario
  <2> QED BY <2>1, <2>2
<1>5. \A w \in DOMAIN writers : \A n \in 1 .. writers[w].returned : n \in 1 .. MaxChunks
  <2>1. env.c.chunks \in 0 .. MaxChunks /\ MaxChunks \in Nat
    BY <1>0, ArbiterConstants DEF Numbers, Scenario
  <2>2. SUFFICES ASSUME NEW w \in DOMAIN writers, NEW n \in 1 .. writers[w].returned
                 PROVE  n \in 1 .. MaxChunks
    OBVIOUS
  <2>3. writers[w].returned <= writers[w].n /\ writers[w].returned \in Nat /\ writers[w].n \in Nat
    BY <1>0, ReturnedOnly
  <2>4. writers[w].n <= env.c.chunks
    BY <1>0 DEF Numbers
  <2> QED BY <2>1, <2>3, <2>4
<1> DEFINE Chunk == [w : 1 .. MaxWriters, n : 1 .. MaxChunks, left : Nat,
                     target : Buffers \cup Reservations \cup {kInvalidBufferId},
                     writing : BOOLEAN]
           Patch == [w : 1 .. MaxWriters, n : 1 .. MaxChunks,
                     target : Buffers \cup Reservations \cup {kInvalidBufferId},
                     more : BOOLEAN]
<1>6. ASSUME NEW i \in DOMAIN req.move PROVE req.move[i] \in Chunk
  <2>1. PICK e : e = req.move[i]
    OBVIOUS
  <2>2. e.w \in DOMAIN writers /\ e.n \in 1 .. writers[e.w].returned
    BY <1>0, <1>1, <2>1 DEF Flow, Lists, Entries, Entry
  <2>3. e.w \in 1 .. MaxWriters /\ e.n \in 1 .. MaxChunks
    BY <1>4, <1>5, <2>2
  <2>4. e.target = writers[e.w].target
    BY <1>0, <1>1, <2>1 DEF TargetsKept, Targets, Named
  <2>5. e.target \in Buffers \cup Reservations \cup {kInvalidBufferId}
    BY <1>0, <2>2, <2>4 DEF WriterShapes, Ids
  <2>6. e.left \in Nat
    <3>1. e.left = Owed(writers, Wire, arb.req.patch, e.w, e.n)
      BY <1>0, <1>1, <2>1 DEF Owes, Owing
    <3>2. IsSeq(writers[e.w].patches) /\ PatchSeqs(Wire) /\ IsSeq(arb.req.patch)
      BY <2>2, PatchFacts
    <3> QED BY <3>1, <3>2, OwedNat
  <2>7. e = EntryOf(e) /\ e.writing \in BOOLEAN
    BY <1>0, <1>1, <2>1 DEF InRequest, Marked
  <2>8. EntryOf(e) \in Chunk
    BY <2>3, <2>5, <2>6, <2>7 DEF EntryOf
  <2> QED BY <2>1, <2>7, <2>8
<1>7. ASSUME NEW i \in DOMAIN req.patch PROVE req.patch[i] \in Patch
  <2>1. PICK p : p = req.patch[i]
    OBVIOUS
  <2>2. PatchOK(writers, p)
    BY <1>0, <1>1, <2>1 DEF InRequest
  <2>3. p.w \in 1 .. MaxWriters /\ p.n \in 1 .. MaxChunks /\ p.more \in BOOLEAN
    BY <1>4, <1>5, <2>2 DEF PatchOK
  <2>4. p = [w |-> p.w, n |-> p.n, target |-> p.target, more |-> p.more]
    BY <2>2 DEF PatchOK
  <2>5. p.target \in Buffers \cup Reservations \cup {kInvalidBufferId}
    <3>1. p.target = writers[p.w].target /\ p.w \in DOMAIN writers
      BY <1>1, <2>1, <2>2 DEF PatchInv, PatchTargets, Named, PatchOK
    <3> QED BY <1>0, <3>1 DEF WriterShapes, Ids
  <2>6. [w |-> p.w, n |-> p.n, target |-> p.target, more |-> p.more] \in Patch
    BY <2>3, <2>5
  <2> QED BY <2>1, <2>4, <2>6
<1>8. IsSeq(req.move) /\ IsSeq(req.patch)
  BY <1>0, <1>1 DEF Flow, Lists, Entries, InRequest
<1> HIDE DEF Chunk, Patch
<1>9. req.move \in Seq(Chunk)
  BY <1>6, <1>8 DEF IsSeq, Elems
<1>10. req.patch \in Seq(Patch)
  BY <1>7, <1>8 DEF IsSeq, Elems
<1>11. PICK open, move, patch, flush :
         /\ open = req.open /\ move = req.move /\ patch = req.patch /\ flush = req.flush
  OBVIOUS
<1>12. req = [open |-> open, move |-> move, patch |-> patch, flush |-> flush]
  BY <1>2, <1>11 DEF RequestIs
<1>13. req \in [open : BOOLEAN, move : Seq(Chunk), patch : Seq(Patch), flush : Nat]
  BY <1>2, <1>3, <1>9, <1>10, <1>11, <1>12
<1> QED BY <1>1, <1>13 DEF Request, Chunk, Patch

(* The members of the arbiter have their types in every reachable state.   *)
(* In particular an arbiter whose writers stall was bound from the start   *)
(* (the check in GetNewChunk), and a writer waits in pending_writers_ only *)
(* for a reservation that is not resolved.                                 *)
THEOREM ArbiterTypeHolds == Spec => []TypeOK
<1>1. ASSUME PatchInv PROVE TypeOK
  <2>1. /\ ThreadInv /\ Shapes /\ BoundFirst /\ Stream
        /\ Distinct /\ Numbers /\ AlwaysBound /\ Slots /\ WriterShapes
    BY <1>1, PatchFacts DEF PatchInv, ThreadInv, WakeInv
  <2>2. arb.req \in Request
    BY <1>1, RequestType
  <2>3. arb.req # NoRequest => arb.req.open
    BY <2>1 DEF Stream
  <2>4. Len(writers) <= MaxWriters
    <3>1. Len(writers) \in Nat
      BY <2>1 DEF WriterShapes, IsSeq
    <3>2. env.c.writers \in 0 .. MaxWriters /\ Len(writers) <= env.c.writers /\ MaxWriters \in Nat
      BY <2>1, ArbiterConstants DEF Numbers, Scenario
    <3> QED BY <3>1, <3>2
  <2>5. free \in 0 .. NumSlots
    <3>1. IsFiniteSet(Acquired) /\ free \in Nat
          /\ free + Cardinality(Acquired) = NumSlots + Len(service.landed)
      BY <2>1 DEF Slots
    <3>2. Cardinality(Acquired) \in Nat /\ NumSlots \in Nat
      BY <3>1, FS_CardinalityType, ArbiterConstants
    <3>3. Len(service.landed) \in Nat /\ Len(service.landed) <= Cardinality(Acquired)
      BY <1>1, LandedAcquired
    <3> QED BY <3>1, <3>2, <3>3
  <2>6. /\ arb.bound \in BOOLEAN /\ arb.fully_bound \in BOOLEAN /\ delayed \in Nat
        /\ arb.fully_bound => arb.bound
    BY <2>1 DEF Shapes, BoundFirst
  <2>7. /\ arb.was_always_bound => arb.fully_bound
        /\ env.c.policy = "kStall" => arb.was_always_bound
        /\ \A p \in arb.pending : arb.reservations[p.target] = Unresolved
    BY <2>1 DEF AlwaysBound
  <2>8. arb.ids \subseteq 1 .. kMaxWriterID
    BY <2>1 DEF Distinct
  <2> QED BY <2>2, <2>3, <2>4, <2>5, <2>6, <2>7, <2>8 DEF TypeOK
<1> QED BY <1>1, PatchInvHolds, PTL

(***************************************************************************)
(* The chunks of the shared memory                                         *)
(***************************************************************************)
(* The commits and the chunks that are ahead.                              *)
LEMMA AheadOf ==
  ASSUME PatchInv
  PROVE  /\ \A x : x \in Coming("return") <=>
              x.do = "return" /\ \E t \in Threads : x \in Elems(todo[t])
         /\ \A x : x \in Coming("commit") <=> \E i \in SentIn(Wire) : x = Wire[i]
<1>0. /\ Shapes /\ Division /\ IPC \in Threads /\ IsSeq(service.inbox) /\ IsSeq(todo[IPC])
      /\ Commits = Sent /\ \A i \in Commits : OnTheWay[i] = Wire[i]
  BY PatchFacts, WireCommits, ArbiterConstants DEF Shapes
<1>1. \A t : Steps(t) = Elems(todo[t])
  BY DEF Steps, Elems
<1>2. ASSUME NEW x, x.do \in {"return", "commit"}
      PROVE  x \in Ahead <=> \/ \E t \in Threads : x \in Elems(todo[t])
                             \/ x \in Elems(service.inbox)
  <2>1. x \notin Elems(tasks)
    BY <1>0, <1>2 DEF Division, TaskKinds, PostKinds
  <2>2. x \notin {s.task : s \in Posting}
    BY <1>0, <1>1, <1>2 DEF Posting, Division, PostKinds
  <2> QED BY <1>1, <2>1, <2>2 DEF Ahead, Elems
<1>3. \A x : x.do = "return" => x \notin Elems(service.inbox)
  BY <1>0 DEF Division, Endpoint
<1>4. ASSUME NEW x
      PROVE  x \in Coming("return") <=> x.do = "return" /\ \E t \in Threads : x \in Elems(todo[t])
  BY <1>2, <1>3 DEF Coming
<1>5. ASSUME NEW x, x.do = "commit"
      PROVE  x \in Ahead <=> x \in Elems(OnTheWay)
  <2>1. Elems(OnTheWay) = Elems(service.inbox) \cup Elems(todo[IPC])
    BY <1>0, ConcatSeq DEF OnTheWay
  <2>2. \A t \in Threads : x \in Elems(todo[t]) => t = IPC
    BY <1>0, <1>5 DEF Division, Endpoint
  <2> QED BY <1>0, <1>2, <1>5, <2>1, <2>2
<1>6. ASSUME NEW x
      PROVE  x \in Coming("commit") <=> \E i \in SentIn(Wire) : x = Wire[i]
  <2>1. x \in Coming("commit") <=> x.do = "commit" /\ x \in Elems(OnTheWay)
    BY <1>5 DEF Coming
  <2>2. x.do = "commit" /\ x \in Elems(OnTheWay) <=> \E i \in Commits : x = OnTheWay[i]
    BY DEF Elems, Commits
  <2> QED BY <1>0, <2>1, <2>2 DEF Sent
<1> QED BY <1>4, <1>6

(* The chunks in use are those that writers acquired and the service has   *)
(* not got.                                                                *)
LEMMA InUseAcquired ==
  ASSUME PatchInv
  PROVE  InUse = Acquired \ ChunksOf(service.landed)
<1>0. /\ WriterShapes /\ Returns /\ Flow(writers, service.landed, Wire, arb.req.move)
  BY PatchFacts
<1>1. PICK landed, wire, move : landed = service.landed /\ wire = Wire /\ move = arb.req.move
  OBVIOUS
<1>2. /\ Entries(writers, landed) /\ Entries(writers, move)
      /\ \A i \in SentIn(wire) : Entries(writers, wire[i].req.move)
      /\ Before(landed, move) /\ \A i \in SentIn(wire) : Before(landed, wire[i].req.move)
      /\ Everything(writers, landed, wire, move)
  BY <1>0, <1>1 DEF Flow, Lists, InTurn
<1>3. \A w \in DOMAIN writers : /\ writers[w].returned <= writers[w].n
                                /\ writers[w].returned \in Nat /\ writers[w].n \in Nat
  BY <1>0, ReturnedOnly
<1>4. ASSUME NEW w \in DOMAIN writers, NEW n \in 1 .. writers[w].n, n > writers[w].returned
      PROVE  <<w, n>> \in Acquired \ ChunksOf(landed)
  <2>1. <<w, n>> \in Acquired
    BY <1>4 DEF Acquired
  <2>2. \A i \in DOMAIN landed : landed[i].w = w => landed[i].n # n
    BY <1>2, <1>3, <1>4 DEF Entries, Entry
  <2> QED BY <2>1, <2>2 DEF ChunksOf
<1>5. ASSUME NEW list, Entries(writers, list), Before(landed, list)
      PROVE  ChunksOf(list) \subseteq Acquired \ ChunksOf(landed)
  <2>1. SUFFICES ASSUME NEW j \in DOMAIN list
                 PROVE  <<list[j].w, list[j].n>> \in Acquired \ ChunksOf(landed)
    BY DEF ChunksOf
  <2>2. list[j].w \in DOMAIN writers /\ list[j].n \in 1 .. writers[list[j].w].n
    BY <1>3, <1>5 DEF Entries, Entry
  <2>3. \A i \in DOMAIN landed : landed[i].w = list[j].w => landed[i].n # list[j].n
    BY <1>2, <1>3, <1>5, <2>2 DEF Before, Entries, Entry
  <2> QED BY <2>2, <2>3 DEF Acquired, ChunksOf
<1>6. ASSUME NEW w \in DOMAIN writers, NEW t \in Threads, NEW x \in Elems(todo[t]),
             x.do = "return", x.w = w
      PROVE  x.n = writers[w].returned + 1 /\ writers[w].n = writers[w].returned + 1 + Current(w)
  BY <1>0, <1>6 DEF Returns
<1>7. ChunksHeld \subseteq Acquired \ ChunksOf(landed)
  <2>1. SUFFICES ASSUME NEW w \in DOMAIN writers, writers[w].cur
                 PROVE  <<w, writers[w].n>> \in Acquired \ ChunksOf(landed)
    BY DEF ChunksHeld
  <2>2. writers[w].n > writers[w].returned
    <3>1. Current(w) = 1
      BY <2>1 DEF Current
    <3>2. CASE Returning(w)
      BY <1>3, <1>6, <3>1, <3>2 DEF Returning
    <3>3. CASE ~Returning(w)
      BY <1>0, <1>3, <3>1, <3>3 DEF Returns
    <3> QED BY <3>2, <3>3
  <2>3. writers[w].n \in 1 .. writers[w].n
    BY <1>3, <2>2
  <2> QED BY <1>4, <2>2, <2>3
<1>8. ChunksReturning \subseteq Acquired \ ChunksOf(landed)
  <2>1. SUFFICES ASSUME NEW x \in Coming("return")
                 PROVE  <<x.w, x.n>> \in Acquired \ ChunksOf(landed)
    BY DEF ChunksReturning
  <2>2. PICK t \in Threads : x \in Elems(todo[t]) /\ x.do = "return"
    BY <2>1, AheadOf
  <2>3. x.w \in DOMAIN writers
    BY <1>0, <2>2 DEF Returns, InHand
  <2>4. x.n = writers[x.w].returned + 1 /\ x.n \in 1 .. writers[x.w].n
    <3>1. Current(x.w) \in {0, 1}
      BY DEF Current
    <3> QED BY <1>3, <1>6, <2>2, <2>3, <3>1
  <2> QED BY <1>3, <1>4, <2>3, <2>4
<1>9. UNION {ChunksOf(m.req.move) : m \in Coming("commit")} \subseteq Acquired \ ChunksOf(landed)
  <2>1. SUFFICES ASSUME NEW m \in Coming("commit")
                 PROVE  ChunksOf(m.req.move) \subseteq Acquired \ ChunksOf(landed)
    OBVIOUS
  <2>2. PICK i \in SentIn(wire) : m = wire[i]
    BY <1>1, <2>1, AheadOf
  <2> QED BY <1>2, <1>5, <2>2
<1>10. InUse \subseteq Acquired \ ChunksOf(landed)
  BY <1>1, <1>2, <1>5, <1>7, <1>8, <1>9 DEF InUse
<1>11. ASSUME NEW c \in Acquired \ ChunksOf(landed) PROVE c \in InUse
  <2>0. PICK w \in DOMAIN writers : c \in {w} \X (1 .. writers[w].n)
    BY <1>11 DEF Acquired
  <2>1. PICK n \in 1 .. writers[w].n : c = <<w, n>>
    BY <2>0
  <2>2. CASE n <= writers[w].returned
    <3>1. Somewhere(landed, wire, move, w, n)
      BY <1>2, <1>3, <2>2 DEF Everything
    <3>2. ~Has(landed, w, n)
      BY <1>11, <2>1 DEF Has, ChunksOf
    <3>3. CASE Has(move, w, n)
      BY <1>1, <2>1, <3>3 DEF Has, ChunksOf, InUse
    <3>4. CASE \E i \in SentIn(wire) : Has(wire[i].req.move, w, n)
      <4>1. PICK i \in SentIn(wire) : Has(wire[i].req.move, w, n)
        BY <3>4
      <4>2. PICK m : m = wire[i] /\ m \in Coming("commit")
        BY <1>1, <4>1, AheadOf
      <4>3. c \in ChunksOf(m.req.move)
        BY <2>1, <4>1, <4>2 DEF Has, ChunksOf
      <4> QED BY <4>2, <4>3 DEF InUse
    <3> QED BY <3>1, <3>2, <3>3, <3>4 DEF Somewhere
  <2>3. CASE ~(n <= writers[w].returned)
    <3>1. writers[w].cur /\ n = writers[w].n => c \in InUse
      BY <2>1 DEF InUse, ChunksHeld
    <3>2. CASE Returning(w)
      <4>1. PICK t \in Threads : \E x \in Elems(todo[t]) : x.do = "return" /\ x.w = w
        BY <3>2 DEF Returning
      <4>2. PICK x \in Elems(todo[t]) : x.do = "return" /\ x.w = w
        BY <4>1
      <4>3. x.n = writers[w].returned + 1 /\ writers[w].n = writers[w].returned + 1 + Current(w)
        BY <1>6, <4>2
      <4>4. CASE n = writers[w].returned + 1
        <5>1. x \in Coming("return")
          BY <4>2, AheadOf
        <5>2. c = <<x.w, x.n>>
          BY <2>1, <4>2, <4>3, <4>4
        <5> QED BY <5>1, <5>2 DEF InUse, ChunksReturning
      <4>5. CASE n # writers[w].returned + 1
        BY <1>3, <2>3, <3>1, <4>3, <4>5 DEF Current
      <4> QED BY <4>4, <4>5
    <3>3. CASE ~Returning(w)
      <4>1. writers[w].n = writers[w].returned + Current(w)
        BY <1>0, <3>3 DEF Returns
      <4> QED BY <1>3, <2>3, <3>1, <4>1 DEF Current
    <3> QED BY <3>2, <3>3
  <2> QED BY <2>2, <2>3
<1> QED BY <1>1, <1>10, <1>11

(* No chunk of the shared memory is lost or freed twice: those that are    *)
(* free, that writers have or are returning, and that requests carry are   *)
(* always as many as the shared memory has, however GetNewChunk(),         *)
(* ReturnCompletedChunk() and the commits of several threads interleave.   *)
THEOREM ChunksAreConservedHolds == Spec => []ChunksAreConserved
<1>1. ASSUME PatchInv PROVE ChunksAreConserved
  <2>1. IsFiniteSet(Acquired) /\ free \in Nat
        /\ free + Cardinality(Acquired) = NumSlots + Len(service.landed)
    BY <1>1 DEF PatchInv, Slots
  <2>2. PICK seen : seen = ChunksOf(service.landed)
    OBVIOUS
  <2>3. /\ seen \subseteq Acquired /\ Cardinality(seen) = Len(service.landed)
        /\ Len(service.landed) \in Nat
    BY <1>1, <2>2, LandedAcquired
  <2>4. Acquired \cap seen = seen
    BY <2>3
  <2>5. Cardinality(Acquired \ seen) = Cardinality(Acquired) - Cardinality(Acquired \cap seen)
    BY <2>1, FS_Difference
  <2>6. InUse = Acquired \ seen
    BY <1>1, <2>2, InUseAcquired
  <2>7. Cardinality(Acquired) \in Nat /\ NumSlots \in Nat
    BY <2>1, FS_CardinalityType, ArbiterConstants
  <2>8. PICK used, all : used = Cardinality(InUse) /\ all = Cardinality(Acquired)
    OBVIOUS
  <2>9. used = all - Len(service.landed) /\ all \in Nat
    BY <2>3, <2>4, <2>5, <2>6, <2>7, <2>8
  <2>10. free + used = NumSlots
    BY <2>1, <2>3, <2>7, <2>8, <2>9
  <2> QED BY <2>8, <2>10 DEF ChunksAreConserved
<1> QED BY <1>1, PatchInvHolds, PTL

(***************************************************************************)
(* Registrations: the messages about writers                               *)
(***************************************************************************)
Speaks == {"register", "unregister"}
Mail(x) == x.do \in Speaks \/ (x.do = "post" /\ x.task.do \in Speaks)
Drops(x, i) == x.do = "unregister" /\ x.id = i
Tells(x, e) == x.do = "register" /\ e \in x.ws
About(x, i) == Drops(x, i) \/ \E e : Tells(x, e) /\ e.id = i

(* A message leaves a thread by its first step, and is of its known form.  *)
Letters ==
  /\ \A t \in Threads : \A x \in Elems(Rest(t)) : x.do \notin {"register", "unregister", "post"}
  /\ \A x \in Elems(tasks) : x.do = "unregister" => x = Unregister(x.id)
  /\ \A t \in Threads : \A x \in Elems(todo[t]) :
       /\ x.do = "unregister" => x = Unregister(x.id)
       /\ x.do = "post" => /\ x = Post(x.task)
                           /\ x.task.do = "unregister" => x.task = Unregister(x.task.id)

(* The live writer that an entry is about.                                 *)
OwnedBy(e, w) ==
  /\ e = [id |-> e.id, target |-> e.target]
  /\ Live(w) /\ writers[w].id = e.id
  /\ e.target \in Buffers /\ BufferOf(writers[w].target) = e.target
Owned(e) == \E w \in DOMAIN writers : OwnedBy(e, w)

(* Withdrawals of an id in a sequence after place k, and behind a stage.   *)
Later(s, k, i) == \E j \in DOMAIN s : k < j /\ Drops(s[j], i)
DropPosted(i) == \E t \in Threads : \E x \in Elems(todo[t]) : x.do = "post" /\ Drops(x.task, i)
DropBehind(i) == Later(tasks, 0, i) \/ DropPosted(i)
DropAhead(i) == (\E x \in Elems(todo[IPC]) : Drops(x, i)) \/ DropBehind(i)

(* What the service knows or is about to be told is about a live writer,   *)
(* or is withdrawn later.                                                  *)
Withdrawn ==
  /\ \A e \in service.registered :
       Owned(e) \/ Later(service.inbox, 0, e.id) \/ DropAhead(e.id)
  /\ \A k \in DOMAIN service.inbox : \A e : Tells(service.inbox[k], e)
       => Owned(e) \/ Later(service.inbox, k, e.id) \/ DropAhead(e.id)
  /\ \A x \in Elems(todo[IPC]) : \A e : Tells(x, e) => Owned(e) \/ DropBehind(e.id)
  /\ \A k \in DOMAIN tasks : \A e : Tells(tasks[k], e)
       => Owned(e) \/ Later(tasks, k, e.id) \/ DropPosted(e.id)
  /\ \A t \in Threads : \A x \in Elems(todo[t]) : \A e : x.do = "post" /\ Tells(x.task, e)
       => \E w \in DOMAIN writers : OwnedBy(e, w) /\ writers[w].thread = t

(* Nothing about an id in a sequence after place k, and behind a stage.    *)
Silent(s, k, i) == \A j \in DOMAIN s : k < j => ~About(s[j], i)
SilentPosts(i) == \A t \in Threads : \A x \in Elems(todo[t]) : x.do = "post" => ~About(x.task, i)
SilentBehind(i) == Silent(tasks, 0, i) /\ SilentPosts(i)
SilentAhead(i) == (\A x \in Elems(todo[IPC]) : ~About(x, i)) /\ SilentBehind(i)

(* The service knows a live writer, or will be told and nothing follows.   *)
EntryFor(w) == [id |-> writers[w].id, target |-> BufferOf(writers[w].target)]
Told(e, t) ==
  \/ /\ e \in service.registered
     /\ Silent(service.inbox, 0, e.id) /\ SilentAhead(e.id)
  \/ \E k \in DOMAIN service.inbox :
       /\ Tells(service.inbox[k], e)
       /\ Silent(service.inbox, k, e.id) /\ SilentAhead(e.id)
  \/ \E x \in Elems(todo[IPC]) : Tells(x, e) /\ SilentBehind(e.id)
  \/ \E k \in DOMAIN tasks :
       Tells(tasks[k], e) /\ Silent(tasks, k, e.id) /\ SilentPosts(e.id)
  \/ /\ \E x \in Elems(todo[t]) : x.do = "post" /\ Tells(x.task, e)
     /\ \A u \in Threads \ {t} : \A x \in Elems(todo[u]) : x.do = "post" => ~About(x.task, e.id)
Reached ==
  \A w \in DOMAIN writers :
    /\ Live(w) /\ BufferOf(writers[w].target) \in Buffers
    /\ writers[w].id \notin env.overtaken
    => Told(EntryFor(w), writers[w].thread)

(* The writers that a bind will register.                                  *)
Awaited ==
  /\ \A w \in DOMAIN writers :
       /\ Live(w) /\ writers[w].target \in Reservations
       /\ arb.reservations[writers[w].target] = Unresolved
       => [id |-> writers[w].id, target |-> writers[w].target] \in arb.pending
  /\ \A p \in arb.pending :
       /\ p = [id |-> p.id, target |-> p.target]
       /\ \E w \in DOMAIN writers : Live(w) /\ writers[w].id = p.id /\ writers[w].target = p.target
       /\ p.id \notin env.overtaken => SilentBehind(p.id)

(* A buffer is known only to an arbiter that is bound.                     *)
Known ==
  /\ \A w \in DOMAIN writers : writers[w].target \in Buffers => arb.bound
  /\ \A r \in Reservations : arb.reservations[r] \in Buffers => arb.bound

Registry == Letters /\ Withdrawn /\ Reached /\ Awaited /\ Known

LEMMA MailAppend ==
  ASSUME NEW s, IsSeq(s), NEW x, NEW i
  PROVE  /\ \A k \in 0 .. Len(s) : Later(s, k, i) \/ Drops(x, i) => Later(Append(s, x), k, i)
         /\ \A k \in Int : Silent(s, k, i) /\ ~About(x, i) => Silent(Append(s, x), k, i)
         /\ Silent(Append(s, x), Len(s) + 1, i)
BY AppendSeq DEF Later, Silent

LEMMA MailTail ==
  ASSUME NEW s, IsSeq(s), s # <<>>, NEW i
  PROVE  /\ \A k \in DOMAIN s : /\ Later(s, k, i) => Later(Tail(s), k - 1, i)
                                /\ Silent(s, k, i) => Silent(Tail(s), k - 1, i)
         /\ Later(s, 0, i) => Drops(Head(s), i) \/ Later(Tail(s), 0, i)
         /\ Silent(s, 0, i) => ~About(Head(s), i) /\ Silent(Tail(s), 0, i)
<1>1. /\ DOMAIN s = 1 .. Len(s) /\ Len(s) \in Nat \ {0} /\ Head(s) = s[1]
      /\ DOMAIN Tail(s) = 1 .. Len(s) - 1
      /\ \A j \in DOMAIN Tail(s) : j + 1 \in DOMAIN s /\ Tail(s)[j] = s[j + 1]
      /\ \A j \in DOMAIN s : j # 1 => j - 1 \in DOMAIN Tail(s) /\ s[j] = Tail(s)[j - 1]
  BY TailSeq
<1>2. PICK rest, one : rest = Tail(s) /\ one = Head(s)
  OBVIOUS
<1>3. ASSUME NEW k \in DOMAIN s, Later(s, k, i) PROVE Later(rest, k - 1, i)
  <2>1. PICK j \in DOMAIN s : k < j /\ Drops(s[j], i)
    BY <1>3 DEF Later
  <2>2. j - 1 \in DOMAIN rest /\ k - 1 < j - 1 /\ Drops(rest[j - 1], i)
    BY <1>1, <1>2, <2>1
  <2> QED BY <2>2 DEF Later
<1>4. ASSUME NEW k \in DOMAIN s, Silent(s, k, i) PROVE Silent(rest, k - 1, i)
  <2>1. ASSUME NEW j \in DOMAIN rest, k - 1 < j PROVE ~About(rest[j], i)
    <3>1. j + 1 \in DOMAIN s /\ k < j + 1 /\ rest[j] = s[j + 1]
      BY <1>1, <1>2, <2>1
    <3> QED BY <1>4, <3>1 DEF Silent
  <2> QED BY <2>1 DEF Silent
<1>5. ASSUME Later(s, 0, i) PROVE Drops(one, i) \/ Later(rest, 0, i)
  <2>1. PICK j \in DOMAIN s : 0 < j /\ Drops(s[j], i)
    BY <1>5 DEF Later
  <2>2. j # 1 => j - 1 \in DOMAIN rest /\ 0 < j - 1 /\ Drops(rest[j - 1], i)
    BY <1>1, <1>2, <2>1
  <2> QED BY <1>1, <1>2, <2>1, <2>2 DEF Later
<1>6. ASSUME Silent(s, 0, i) PROVE ~About(one, i) /\ Silent(rest, 0, i)
  <2>1. 1 \in DOMAIN s /\ 0 < 1
    BY <1>1
  <2>2. ~About(one, i)
    BY <1>1, <1>2, <1>6, <2>1 DEF Silent
  <2>3. ASSUME NEW j \in DOMAIN rest, 0 < j PROVE ~About(rest[j], i)
    <3>1. j + 1 \in DOMAIN s /\ 0 < j + 1 /\ rest[j] = s[j + 1]
      BY <1>1, <1>2, <2>3
    <3> QED BY <1>6, <3>1 DEF Silent
  <2> QED BY <2>2, <2>3 DEF Silent
<1> QED BY <1>2, <1>3, <1>4, <1>5, <1>6

(* Messages stay with their thread, and what is new is known.              *)
KeptMail == \A u \in Threads : \A x \in Elems(todo[u]) : Mail(x) => x \in Elems(todo'[u])
Names(x, i) == About(x, i) \/ (x.do = "post" /\ About(x.task, i))
Unnamed(i) == \A u \in Threads : \A x \in Elems(todo'[u]) : x \in Elems(todo[u]) \/ ~Names(x, i)

LEMMA GoesMail ==
  ASSUME Shapes, NEW t \in Threads, NEW first, Goes(t, first),
         todo[t] # <<>> => ~Mail(Now(t))
  PROVE  /\ KeptMail
         /\ \A u \in Threads : \A x \in Elems(todo'[u]) :
              x \in Elems(todo[u]) \/ (u = t /\ x \in Elems(first))
<1>1. /\ \A u \in Threads \ {t} : todo'[u] = todo[u]
      /\ Elems(todo'[t]) = Elems(first) \cup Elems(Rest(t))
      /\ todo[t] = <<>> => Elems(todo[t]) = {}
      /\ todo[t] # <<>> => Elems(todo[t]) = {Now(t)} \cup Elems(Rest(t))
      /\ Elems(Rest(t)) \subseteq Elems(todo[t])
  BY GoesFacts
<1> QED BY <1>1 DEF KeptMail

LEMMA MailKinds ==
  ASSUME NEW x
  PROVE  /\ \A i : Drops(x, i) => Mail(x) /\ About(x, i)
         /\ \A e : Tells(x, e) => Mail(x) /\ About(x, e.id)
         /\ \A i : About(x, i) => x.do \in Speaks
         /\ x.do = "post" => /\ \A i : Drops(x.task, i) => Mail(x)
                             /\ \A e : Tells(x.task, e) => Mail(x)
BY DEF Drops, Tells, About, Mail, Speaks

LEMMA ToldKept ==
  ASSUME NEW e, NEW t \in Threads, Told(e, t), KeptMail, Unnamed(e.id), IPC \in Threads,
         tasks' = tasks, service' = service
  PROVE  Told(e, t)'
<1>1. SilentPosts(e.id) => SilentPosts(e.id)'
  BY DEF SilentPosts, Unnamed, Names
<1>2. SilentBehind(e.id) => SilentBehind(e.id)'
  BY <1>1 DEF SilentBehind
<1>3. SilentAhead(e.id) => SilentAhead(e.id)'
  BY <1>2 DEF SilentAhead, Unnamed, Names
<1>4. \A x \in Elems(todo[IPC]) : Tells(x, e) => x \in Elems(todo'[IPC])
  BY MailKinds DEF KeptMail
<1>5. \A x \in Elems(todo[t]) : x.do = "post" /\ Tells(x.task, e) => x \in Elems(todo'[t])
  BY MailKinds DEF KeptMail
<1>6. ASSUME \A u \in Threads \ {t} : \A x \in Elems(todo[u]) : x.do = "post" => ~About(x.task, e.id)
      PROVE  \A u \in Threads \ {t} : \A x \in Elems(todo'[u]) : x.do = "post" => ~About(x.task, e.id)
  BY <1>6 DEF Unnamed, Names
<1> QED BY <1>1, <1>2, <1>3, <1>4, <1>5, <1>6 DEF Told

LEMMA DropsKept ==
  ASSUME KeptMail, IPC \in Threads, tasks' = tasks, NEW i
  PROVE  /\ DropPosted(i) => DropPosted(i)'
         /\ DropBehind(i) => DropBehind(i)'
         /\ DropAhead(i) => DropAhead(i)'
<1>1. DropPosted(i) => DropPosted(i)'
  BY MailKinds DEF KeptMail, DropPosted
<1>2. DropBehind(i) => DropBehind(i)'
  BY <1>1 DEF DropBehind
<1>3. \A x \in Elems(todo[IPC]) : Drops(x, i) => x \in Elems(todo'[IPC])
  BY MailKinds DEF KeptMail
<1> QED BY <1>1, <1>2, <1>3 DEF DropAhead

Letter == {"register", "unregister", "post"}
WellFormed(x) ==
  /\ x.do = "unregister" => x = Unregister(x.id)
  /\ x.do = "post" => /\ x = Post(x.task)
                      /\ x.task.do = "unregister" => x.task = Unregister(x.task.id)

LEMMA LettersStep ==
  ASSUME Shapes, Letters, NEW t \in Threads, NEW first, Goes(t, first),
         \A x \in Elems(tasks') : x \in Elems(tasks) \/ (x.do = "unregister" => x = Unregister(x.id)),
         first # <<>> => \A x \in Elems(Tail(first)) : x.do \notin Letter,
         \A x \in Elems(first) : WellFormed(x)
  PROVE  Letters'
<1>1. /\ \A u \in Threads \ {t} : todo'[u] = todo[u]
      /\ Elems(todo'[t]) = Elems(first) \cup Elems(Rest(t))
      /\ Elems(Rest(t)) \subseteq Elems(todo[t]) /\ IsSeq(Rest(t))
  BY GoesFacts
<1>2. ASSUME NEW u \in Threads, NEW x \in Elems(Rest(u)') PROVE x.do \notin Letter
  <2>1. CASE u # t
    <3>1. Rest(u)' = Rest(u)
      BY <1>1, <2>1 DEF Rest
    <3> QED BY <1>2, <3>1 DEF Letters, Letter
  <2>2. CASE u = t /\ first = <<>>
    <3>1. todo'[t] = Rest(t)
      BY <2>2, GoesHead
    <3>2. PICK s : s = Rest(t)
      OBVIOUS
    <3>3. Elems(Rest(t)') \subseteq Elems(s)
      <4>1. CASE s = <<>>
        BY <3>1, <3>2, <4>1 DEF Rest
      <4>2. CASE s # <<>>
        <5>1. Rest(t)' = Tail(s)
          BY <3>1, <3>2, <4>2 DEF Rest
        <5>2. IsSeq(s)
          BY <1>1, <3>2
        <5> QED BY <4>2, <5>1, <5>2, TailSeq
      <4> QED BY <4>1, <4>2
    <3> QED BY <1>2, <2>2, <3>2, <3>3 DEF Letters, Letter
  <2>3. CASE u = t /\ first # <<>>
    <3>1. /\ todo'[t] # <<>>
          /\ Elems(Tail(todo'[t])) = Elems(Tail(first)) \cup Elems(Rest(t))
      BY <2>3, GoesHead
    <3>2. Rest(t)' = Tail(todo'[t])
      BY <3>1 DEF Rest
    <3> QED BY <1>2, <2>3, <3>1, <3>2 DEF Letters, Letter
  <2> QED BY <2>1, <2>2, <2>3
<1>3. \A u \in Threads : \A x \in Elems(todo'[u]) : WellFormed(x)
  BY <1>1 DEF Letters, WellFormed
<1>4. \A x \in Elems(tasks') : x.do = "unregister" => x = Unregister(x.id)
  BY DEF Letters
<1> QED BY <1>2, <1>3, <1>4 DEF Letters, Letter, WellFormed

LEMMA PlainLetters ==
  ASSUME Shapes, NEW t \in Threads, NEW first, Goes(t, first),
         \/ \A x \in Elems(first) : x.do \notin Letter
         \/ \E x : first = <<x>> /\ WellFormed(x)
  PROVE  /\ first # <<>> => \A x \in Elems(Tail(first)) : x.do \notin Letter
         /\ \A x \in Elems(first) : WellFormed(x)
<1>1. IsSeq(first)
  BY DEF Goes
<1>2. CASE \A x \in Elems(first) : x.do \notin Letter
  <2>1. first # <<>> => Elems(Tail(first)) \subseteq Elems(first)
    BY <1>1, TailSeq
  <2> QED BY <1>2, <2>1 DEF Letter, WellFormed
<1>3. CASE \E x : first = <<x>> /\ WellFormed(x)
  <2>1. PICK x : first = <<x>> /\ WellFormed(x)
    BY <1>3
  <2>2. Elems(first) = {x} /\ Tail(first) = <<>> /\ Elems(Tail(first)) = {}
    BY <2>1, ShortSeqs
  <2> QED BY <2>1, <2>2
<1> QED BY <1>2, <1>3

(* What is known or told stays about a live writer, or is withdrawn.       *)
LEMMA WithdrawnStep ==
  ASSUME Withdrawn, KeptMail, IPC \in Threads, tasks' = tasks, service' = service,
         \A e : Owned(e) => Owned(e)' \/ DropPosted(e.id)',
         \A x \in Elems(todo'[IPC]) : \A e : Tells(x, e) => x \in Elems(todo[IPC]) \/ Owned(e)',
         \A t \in Threads : \A x \in Elems(todo'[t]) : \A e : x.do = "post" /\ Tells(x.task, e)
           => \E w \in DOMAIN writers' : OwnedBy(e, w)' /\ writers'[w].thread = t
  PROVE  Withdrawn'
<1>1. \A i : /\ DropPosted(i) => DropPosted(i)'
             /\ DropBehind(i) => DropBehind(i)'
             /\ DropAhead(i) => DropAhead(i)'
  BY DropsKept
<1>2. \A i : DropPosted(i)' => DropBehind(i)' /\ DropAhead(i)'
  BY DEF DropBehind, DropAhead
<1>3. \A e \in service'.registered :
        Owned(e)' \/ Later(service'.inbox, 0, e.id) \/ DropAhead(e.id)'
  BY <1>1, <1>2 DEF Withdrawn
<1>4. \A k \in DOMAIN service'.inbox : \A e : Tells(service'.inbox[k], e)
        => Owned(e)' \/ Later(service'.inbox, k, e.id) \/ DropAhead(e.id)'
  BY <1>1, <1>2 DEF Withdrawn
<1>5. \A x \in Elems(todo'[IPC]) : \A e : Tells(x, e) => Owned(e)' \/ DropBehind(e.id)'
  BY <1>1, <1>2 DEF Withdrawn
<1>6. \A k \in DOMAIN tasks' : \A e : Tells(tasks'[k], e)
        => Owned(e)' \/ Later(tasks', k, e.id) \/ DropPosted(e.id)'
  BY <1>1, <1>2 DEF Withdrawn
<1> QED BY <1>3, <1>4, <1>5, <1>6 DEF Withdrawn

(* The writers that a step leaves alone.                                   *)
SameWriter(w) ==
  /\ w \in DOMAIN writers /\ w \in DOMAIN writers'
  /\ writers'[w].id = writers[w].id /\ writers'[w].live = writers[w].live
  /\ writers'[w].target = writers[w].target /\ writers'[w].thread = writers[w].thread

LEMMA OwnedKept ==
  ASSUME WriterShapes, SettledKept, NEW w, SameWriter(w), NEW e, OwnedBy(e, w)
  PROVE  OwnedBy(e, w)'
<1>1. writers[w].target \in Ids \cup Reservations
  BY DEF WriterShapes, SameWriter
<1>2. writers[w].target \in Reservations
        => arb'.reservations[writers[w].target] = arb.reservations[writers[w].target]
  BY DEF OwnedBy, BufferOf, IsReservation, SettledKept, Ids
<1> QED BY <1>1, <1>2 DEF OwnedBy, SameWriter, BufferOf, IsReservation, Live

(* A step that concerns no message and no writer's registration.           *)
Apathetic(t, first) ==
  /\ Goes(t, first) /\ (todo[t] # <<>> => ~Mail(Now(t)))
  /\ \A x \in Elems(first) : ~Mail(x)
  /\ \/ \A x \in Elems(first) : x.do \notin Letter
     \/ \E x : first = <<x>> /\ WellFormed(x)
  /\ DOMAIN writers' = DOMAIN writers /\ \A w \in DOMAIN writers : SameWriter(w)
  /\ arb'.reservations = arb.reservations /\ arb'.pending = arb.pending
  /\ (arb.bound => arb'.bound) /\ env'.overtaken = env.overtaken
  /\ tasks' = tasks /\ service' = service

LEMMA AwaitedKept ==
  ASSUME NEW i, SilentBehind(i), Unnamed(i), tasks' = tasks
  PROVE  SilentBehind(i)'
BY DEF SilentBehind, SilentPosts, Unnamed, Names

LEMMA ApatheticRegistry ==
  ASSUME PatchInv, Registry, NEW t \in Threads, NEW first, Apathetic(t, first)
  PROVE  Registry'
<1>0. /\ Shapes /\ WriterShapes /\ IPC \in Threads /\ Goes(t, first)
      /\ Letters /\ Withdrawn /\ Reached /\ Awaited /\ Known
  BY PatchFacts, ArbiterConstants DEF Registry, Apathetic
<1>1. /\ KeptMail
      /\ \A u \in Threads : \A x \in Elems(todo'[u]) :
           x \in Elems(todo[u]) \/ (u = t /\ x \in Elems(first))
  BY <1>0, GoesMail DEF Apathetic
<1>2. \A u \in Threads : \A x \in Elems(todo'[u]) : Mail(x) => x \in Elems(todo[u])
  BY <1>1 DEF Apathetic
<1>3. \A i : Unnamed(i)
  <2>1. \A x, i : Names(x, i) => Mail(x)
    BY MailKinds DEF Names, Mail
  <2> QED BY <1>2, <2>1 DEF Unnamed
<1>4. Letters'
  BY <1>0, PlainLetters, LettersStep DEF Apathetic
<1>5. SettledKept /\ \A w \in DOMAIN writers : SameWriter(w)
  BY DEF Apathetic, SettledKept
<1>6. \A e, w : OwnedBy(e, w) /\ w \in DOMAIN writers => OwnedBy(e, w)'
  BY <1>0, <1>5, OwnedKept
<1>7. Withdrawn'
  <2>1. \A e : Owned(e) => Owned(e)'
    BY <1>6 DEF Owned, Apathetic
  <2>2. \A x \in Elems(todo'[IPC]) : \A e : Tells(x, e) => x \in Elems(todo[IPC])
    BY <1>0, <1>2, MailKinds
  <2>3. ASSUME NEW u \in Threads, NEW x \in Elems(todo'[u]), NEW e, x.do = "post", Tells(x.task, e)
        PROVE  \E w \in DOMAIN writers' : OwnedBy(e, w)' /\ writers'[w].thread = u
    <3>1. x \in Elems(todo[u])
      BY <1>2, <2>3, MailKinds
    <3>2. PICK w \in DOMAIN writers : OwnedBy(e, w) /\ writers[w].thread = u
      BY <1>0, <2>3, <3>1 DEF Withdrawn
    <3> QED BY <1>5, <1>6, <3>2 DEF SameWriter
  <2>4. tasks' = tasks /\ service' = service
    BY DEF Apathetic
  <2> QED BY <1>0, <1>1, <2>1, <2>2, <2>3, <2>4, WithdrawnStep
<1>8. Reached'
  <2>1. SUFFICES ASSUME NEW w \in DOMAIN writers',
                        (Live(w) /\ BufferOf(writers[w].target) \in Buffers)',
                        writers'[w].id \notin env'.overtaken
                 PROVE  Told(EntryFor(w), writers[w].thread)'
    BY DEF Reached
  <2>2. /\ w \in DOMAIN writers /\ writers'[w].thread = writers[w].thread
        /\ Live(w) /\ BufferOf(writers[w].target) \in Buffers
        /\ writers[w].id \notin env.overtaken /\ EntryFor(w)' = EntryFor(w)
    BY <2>1, <1>5 DEF Apathetic, SameWriter, Live, BufferOf, EntryFor, IsReservation
  <2>3. Told(EntryFor(w), writers[w].thread) /\ writers[w].thread \in Threads
    BY <1>0, <2>2 DEF Reached, WriterShapes
  <2>4. PICK e, u : e = EntryFor(w) /\ u = writers[w].thread
    OBVIOUS
  <2>5. Told(e, u)'
    BY <1>0, <1>1, <1>3, <2>3, <2>4, ToldKept DEF Apathetic
  <2> QED BY <2>2, <2>4, <2>5
<1>9. Awaited'
  <2>1. \A i : SilentBehind(i) => SilentBehind(i)'
    BY <1>3, AwaitedKept DEF Apathetic
  <2>2. \A w \in DOMAIN writers' :
          /\ Live(w)' /\ writers'[w].target \in Reservations
          /\ arb'.reservations[writers'[w].target] = Unresolved
          => [id |-> writers'[w].id, target |-> writers'[w].target] \in arb'.pending
    BY <1>0, <1>5 DEF Awaited, Apathetic, SameWriter, Live
  <2>3. ASSUME NEW p \in arb'.pending
        PROVE  /\ p = [id |-> p.id, target |-> p.target]
               /\ \E w \in DOMAIN writers' : Live(w)' /\ writers'[w].id = p.id /\ writers'[w].target = p.target
               /\ p.id \notin env'.overtaken => SilentBehind(p.id)'
    <3>1. p \in arb.pending
      BY <2>3 DEF Apathetic
    <3>2. PICK w \in DOMAIN writers : Live(w) /\ writers[w].id = p.id /\ writers[w].target = p.target
      BY <1>0, <3>1 DEF Awaited
    <3>3. w \in DOMAIN writers' /\ Live(w)' /\ writers'[w].id = p.id /\ writers'[w].target = p.target
      BY <1>5, <3>2 DEF SameWriter, Live
    <3> QED BY <1>0, <2>1, <3>1, <3>3 DEF Awaited, Apathetic
  <2> QED BY <2>2, <2>3 DEF Awaited
<1>10. Known'
  BY <1>0, <1>5 DEF Known, Apathetic, SameWriter
<1> QED BY <1>4, <1>7, <1>8, <1>9, <1>10 DEF Registry

(* The same from what most actions do.                                     *)
ArbCalm ==
  /\ arb'.reservations = arb.reservations /\ arb'.pending = arb.pending
  /\ (arb.bound => arb'.bound) /\ env'.overtaken = env.overtaken
  /\ tasks' = tasks /\ service' = service
WritersCalm == DOMAIN writers' = DOMAIN writers /\ \A w \in DOMAIN writers : SameWriter(w)

LEMMA DullRegistry ==
  ASSUME PatchInv, Registry, NEW t \in Threads, NEW first, Goes(t, first),
         todo[t] # <<>> => Now(t).do \notin Letter,
         \A x \in Elems(first) : x.do \notin Letter, ArbCalm, WritersCalm
  PROVE  Registry'
<1>1. \A x : x.do \notin Letter => ~Mail(x)
  BY DEF Mail, Letter, Speaks
<1>2. Apathetic(t, first)
  BY <1>1 DEF Apathetic, ArbCalm, WritersCalm
<1> QED BY <1>2, ApatheticRegistry

LEMMA PostRegistry ==
  ASSUME PatchInv, Registry, NEW t \in Threads, NEW x, Goes(t, <<Post(x)>>),
         x.do \in {"flush", "abort"}, todo[t] # <<>> => Now(t).do \notin Letter,
         ArbCalm, WritersCalm
  PROVE  Registry'
<1>1. PICK y : y = Post(x) /\ y.do = "post" /\ y.task = x
  BY PostKind
<1>2. PICK first : first = <<y>> /\ Elems(first) = {y} /\ Goes(t, first)
  BY <1>1, ShortSeqs
<1>3. todo[t] # <<>> => ~Mail(Now(t))
  BY DEF Mail, Letter, Speaks
<1>4. ~Mail(y) /\ WellFormed(y)
  BY <1>1 DEF Mail, Speaks, WellFormed
<1>5. Apathetic(t, first)
  BY <1>2, <1>3, <1>4 DEF Apathetic, ArbCalm, WritersCalm
<1> QED BY <1>5, ApatheticRegistry

LEMMA NothingRegistry ==
  ASSUME PatchInv, Registry, NEW t \in Threads, \E first : Goes(t, first) /\ Elems(first) = {},
         todo[t] # <<>> => Now(t).do \notin Letter, ArbCalm, WritersCalm
  PROVE  Registry'
BY DullRegistry

LEMMA WritersAsBefore ==
  ASSUME writers' = writers
  PROVE  WritersCalm
BY DEF WritersCalm, SameWriter

LEMMA WriterRevised ==
  ASSUME NEW w \in DOMAIN writers, NEW rec, writers' = [writers EXCEPT ![w] = rec],
         rec.id = writers[w].id, rec.live = writers[w].live,
         rec.target = writers[w].target, rec.thread = writers[w].thread
  PROVE  WritersCalm
<1>1. /\ DOMAIN writers' = DOMAIN writers /\ writers'[w] = rec
      /\ \A v \in DOMAIN writers : v # w => writers'[v] = writers[v]
  OBVIOUS
<1>2. ASSUME NEW v \in DOMAIN writers PROVE SameWriter(v)
  <2>1. CASE v = w
    BY <1>1, <2>1 DEF SameWriter
  <2>2. CASE v # w
    BY <1>1, <2>2 DEF SameWriter
  <2> QED BY <2>1, <2>2
<1> QED BY <1>1, <1>2 DEF WritersCalm

LEMMA WriterDropped ==
  ASSUME WriterShapes, NEW w \in DOMAIN writers, writers' = Dropped(w)
  PROVE  WritersCalm
<1>1. PICK rec : rec = [writers[w] EXCEPT !.cur = FALSE] /\ writers' = [writers EXCEPT ![w] = rec]
  BY DEF Dropped
<1>2. /\ rec.id = writers[w].id /\ rec.live = writers[w].live
      /\ rec.target = writers[w].target /\ rec.thread = writers[w].thread
  BY <1>1 DEF WriterShapes
<1> QED BY <1>1, <1>2, WriterRevised

LEMMA DestroyTraceWriterRegistry ==
  ASSUME PatchInv, Registry, NEW t \in Threads, DestroyTraceWriter(t)
  PROVE  Registry'
<1>0. todo[t] = <<>> /\ Shapes /\ WriterShapes
  BY PatchFacts DEF DestroyTraceWriter, Idle
<1>1. PICK w \in Owner(t) :
        /\ todo' = [todo EXCEPT ![t] = ReturnCurrent(w)
                   \o (IF writers[w].cur THEN <<Flush({})>> ELSE <<>>) \o <<Release(w)>>]
        /\ writers' = Dropped(w)
  BY DEF DestroyTraceWriter, Start, Dropped
<1>2. PICK flush : /\ flush = IF writers[w].cur THEN <<Flush({})>> ELSE <<>>
                   /\ IsSeq(flush) /\ Elems(flush) \subseteq {Flush({})}
  BY ShortSeqs
<1>3. PICK x, release : x = Release(w) /\ release = <<x>> /\ IsSeq(release) /\ Elems(release) = {x}
  BY ShortSeqs
<1>4. PICK both : both = ReturnCurrent(w) \o flush
  OBVIOUS
<1>5. IsSeq(both) /\ Elems(both) = Elems(ReturnCurrent(w)) \cup Elems(flush)
  BY <1>2, <1>4, ReturnCurrentFacts, ConcatSeq
<1>6. PICK first : first = both \o release /\ todo' = [todo EXCEPT ![t] = first]
  BY <1>1, <1>2, <1>3, <1>4
<1>7. IsSeq(first) /\ Elems(first) = Elems(both) \cup Elems(release)
  BY <1>3, <1>5, <1>6, ConcatSeq
<1>8. Goes(t, first)
  BY <1>0, <1>6, <1>7, StartGoes
<1>9. \A y \in Elems(ReturnCurrent(w)) : y.do = "return"
  BY ReturnCurrentFacts, ReturnKind
<1>10. \A y \in Elems(flush) : y.do = "flush"
  BY <1>2, FlushKind
<1>11. x.do = "release"
  BY <1>3 DEF Release
<1>12. \A y \in Elems(first) : y.do \notin Letter
  BY <1>3, <1>5, <1>7, <1>9, <1>10, <1>11 DEF Letter
<1>13. ArbCalm
  BY DEF DestroyTraceWriter, ArbCalm
<1>14. WritersCalm
  BY <1>0, <1>1, WriterDropped DEF Owner
<1> QED BY <1>0, <1>8, <1>12, <1>13, <1>14, DullRegistry

LEMMA FlushWriterRegistry ==
  ASSUME PatchInv, Registry, NEW t \in Threads, FlushWriter(t)
  PROVE  Registry'
<1>0. todo[t] = <<>> /\ Shapes /\ WriterShapes
  BY PatchFacts DEF FlushWriter, Idle
<1>1. PICK w \in Owner(t) :
        /\ todo' = [todo EXCEPT ![t] = ReturnCurrent(w)
              \o <<Flush({[k |-> env.flushes + 1, w |-> w, n |-> writers[w].n]})>>]
        /\ writers' = Dropped(w) /\ env' = [env EXCEPT !.flushes = @ + 1]
  BY DEF FlushWriter, Start, Dropped
<1>12. PICK cb : cb = [k |-> env.flushes + 1, w |-> w, n |-> writers[w].n]
  OBVIOUS
<1>2. PICK x : x = Flush({cb}) /\ x.do = "flush"
  BY FlushKind
<1>3. PICK rest : rest = <<x>> /\ IsSeq(rest) /\ Elems(rest) = {x}
  BY ShortSeqs
<1>4. PICK first : first = ReturnCurrent(w) \o rest /\ todo' = [todo EXCEPT ![t] = first]
  BY <1>1, <1>2, <1>3, <1>12
<1>5. IsSeq(first) /\ Elems(first) = Elems(ReturnCurrent(w)) \cup Elems(rest)
  BY <1>3, <1>4, ReturnCurrentFacts, ConcatSeq
<1>6. Goes(t, first)
  BY <1>0, <1>4, <1>5, StartGoes
<1>7. \A y \in Elems(ReturnCurrent(w)) : y.do = "return"
  BY ReturnCurrentFacts, ReturnKind
<1>8. \A y \in Elems(first) : y.do \notin Letter
  BY <1>2, <1>3, <1>5, <1>7 DEF Letter
<1>9. env'.overtaken = env.overtaken
  BY <1>0, <1>1 DEF WriterShapes
<1>10. ArbCalm
  BY <1>9 DEF FlushWriter, ArbCalm
<1>11. WritersCalm
  BY <1>0, <1>1, WriterDropped DEF Owner
<1> QED BY <1>0, <1>6, <1>8, <1>10, <1>11, DullRegistry

LEMMA GetNewChunkExhaustedRegistry ==
  ASSUME PatchInv, Registry, NEW t \in Threads, GetNewChunkExhausted(t)
  PROVE  Registry'
<1>0. todo[t] = <<>> /\ Shapes /\ WriterShapes
  BY PatchFacts DEF GetNewChunkExhausted, Idle
<1>1. PICK w \in Owner(t) :
        \/ todo' = [todo EXCEPT ![t] = <<Stall(w, 1)>>] /\ writers' = writers
        \/ todo' = [todo EXCEPT ![t] = ReturnCurrent(w)] /\ writers' = Dropped(w)
  BY DEF GetNewChunkExhausted, Start, Dropped
<1>2. ArbCalm
  BY DEF GetNewChunkExhausted, ArbCalm
<1>3. CASE todo' = [todo EXCEPT ![t] = <<Stall(w, 1)>>] /\ writers' = writers
  <2>1. PICK x : x = Stall(w, 1) /\ x.do = "stall"
    BY StallKind
  <2>2. PICK first : first = <<x>> /\ IsSeq(first) /\ Elems(first) = {x}
    BY ShortSeqs
  <2>3. Goes(t, first)
    BY <1>0, <1>3, <2>1, <2>2, StartGoes
  <2>4. \A y \in Elems(first) : y.do \notin Letter
    BY <2>1, <2>2 DEF Letter
  <2> QED BY <1>0, <1>2, <1>3, <2>3, <2>4, WritersAsBefore, DullRegistry
<1>4. CASE todo' = [todo EXCEPT ![t] = ReturnCurrent(w)] /\ writers' = Dropped(w)
  <2>1. PICK first : first = ReturnCurrent(w) /\ IsSeq(first)
    BY ReturnCurrentFacts
  <2>2. Goes(t, first)
    BY <1>0, <1>4, <2>1, StartGoes
  <2>3. \A y \in Elems(first) : y.do \notin Letter
    BY <2>1, ReturnCurrentFacts, ReturnKind DEF Letter
  <2>4. WritersCalm
    BY <1>0, <1>4, WriterDropped DEF Owner
  <2> QED BY <1>0, <1>2, <2>2, <2>3, <2>4, DullRegistry
<1> QED BY <1>1, <1>3, <1>4

LEMMA TakeChunkRegistry ==
  ASSUME PatchInv, Registry, NEW t \in Threads, NEW w \in DOMAIN writers, NEW k,
         NEW rest, IsSeq(rest), rest = Rest(t), TakeChunk(t, w, k, rest),
         todo[t] # <<>> => Now(t).do = "stall", ArbCalm
  PROVE  Registry'
<1>0. Shapes /\ WriterShapes
  BY PatchFacts, SMTT(30)
<1>1. PICK sync, list :
        /\ todo' = [todo EXCEPT ![t] = (IF sync THEN <<Flush({})>> ELSE <<>>)
             \o (IF writers[w].cur THEN <<Return(w, writers[w].n, k)>> ELSE <<>>) \o rest]
        /\ writers' = [writers EXCEPT ![w].cur = TRUE, ![w].n = @ + 1, ![w].patches = list]
  BY DEF TakeChunk
<1>2. PICK flush, back : /\ flush = IF sync THEN <<Flush({})>> ELSE <<>>
                         /\ back = IF writers[w].cur THEN <<Return(w, writers[w].n, k)>>
                                   ELSE <<>>
  OBVIOUS
<1>3. IsSeq(flush) /\ Elems(flush) \subseteq {Flush({})}
  BY <1>2, ShortSeqs
<1>4. IsSeq(back) /\ Elems(back) \subseteq {Return(w, writers[w].n, k)}
  BY <1>2, ShortSeqs
<1>5. PICK first : first = flush \o back
  OBVIOUS
<1>6. IsSeq(first) /\ Elems(first) = Elems(flush) \cup Elems(back)
  BY <1>3, <1>4, <1>5, ConcatSeq
<1>7. todo' = [todo EXCEPT ![t] = first \o rest]
  <2>1. todo' = [todo EXCEPT ![t] = (flush \o back) \o rest]
    BY <1>1, <1>2
  <2> QED BY <1>5, <2>1
<1>8. Goes(t, first)
  BY <1>6, <1>7 DEF Goes
<1>9. \A y \in Elems(first) : y.do \notin Letter
  BY <1>3, <1>4, <1>6, FlushKind, ReturnKind DEF Letter
<1>10. PICK rec :
        /\ writers' = [writers EXCEPT ![w] = rec]
        /\ rec = [writers[w] EXCEPT !.cur = TRUE, !.n = @ + 1, !.patches = list]
  <2>1. writers' = [writers EXCEPT ![w] =
                      [writers[w] EXCEPT !.cur = TRUE, !.n = @ + 1, !.patches = list]]
    BY <1>1
  <2> QED BY <2>1, Zenon
<1>11. /\ rec.thread = writers[w].thread /\ rec.id = writers[w].id /\ rec.live = writers[w].live
       /\ rec.target = writers[w].target
  BY <1>0, <1>10 DEF WriterShapes
<1>12. WritersCalm
  BY <1>10, <1>11, WriterRevised
<1>13. todo[t] # <<>> => Now(t).do \notin Letter
  BY DEF Letter
<1> QED BY <1>8, <1>9, <1>12, <1>13, DullRegistry

LEMMA GetNewChunkRegistry ==
  ASSUME PatchInv, Registry, NEW t \in Threads, GetNewChunk(t)
  PROVE  Registry'
<1>1. todo[t] = <<>> /\ ArbCalm
  BY DEF GetNewChunk, Idle, ArbCalm
<1>2. PICK rest : rest = <<>> /\ rest = Rest(t) /\ IsSeq(rest)
  BY <1>1, ShortSeqs DEF Rest
<1>3. PICK w \in Owner(t), k \in 0 .. env.c.patches : TakeChunk(t, w, k, rest)
  BY <1>2 DEF GetNewChunk
<1>4. w \in DOMAIN writers
  BY DEF Owner
<1> QED BY <1>1, <1>2, <1>3, <1>4, TakeChunkRegistry

LEMMA RetryGetNewChunkRegistry ==
  ASSUME PatchInv, Registry, NEW t \in Threads, RetryGetNewChunk(t)
  PROVE  Registry'
<1>0. todo[t] # <<>> /\ Now(t).do = "stall" /\ ArbCalm /\ Shapes
  BY PatchFacts DEF RetryGetNewChunk, AtStep, Now, ArbCalm
<1>1. PICK x : x = Now(t)
  OBVIOUS
<1>2. x \in Elems(todo[t]) /\ x.do = "stall"
  BY <1>0, <1>1, TailSeq DEF Shapes, Now
<1>3. BusyWith(t, x)
  BY <1>2, PatchFacts DEF Occupied
<1>4. PICK w : w = x.w /\ w = Now(t).w
  BY <1>1
<1>5. w \in DOMAIN writers
  BY <1>2, <1>3, <1>4 DEF BusyWith, Busy
<1>6. CASE free > 0
  <2>1. PICK rest, k : rest = Rest(t) /\ TakeChunk(t, w, k, rest)
    BY <1>0, <1>4, <1>6 DEF RetryGetNewChunk, Rest
  <2>2. IsSeq(rest)
    BY <1>0, <2>1, TailSeq DEF Rest, Shapes
  <2> QED BY <1>0, <1>5, <2>1, <2>2, TakeChunkRegistry
<1>7. CASE ~(free > 0)
  <2>1. PICK c, i : /\ todo' = [todo EXCEPT ![t] =
                         ((IF t = IPC /\ c THEN <<Flush({})>> ELSE <<>>)
                            \o <<Stall(w, i)>>) \o Tail(todo[t])]
                    /\ writers' = writers
    BY <1>4, <1>7 DEF RetryGetNewChunk, Then
  <2>2. PICK flush, stall : /\ flush = IF t = IPC /\ c THEN <<Flush({})>> ELSE <<>>
                            /\ stall = <<Stall(w, i)>>
    OBVIOUS
  <2>3. IsSeq(flush) /\ Elems(flush) \subseteq {Flush({})}
    BY <2>2, ShortSeqs
  <2>4. IsSeq(stall) /\ Elems(stall) = {Stall(w, i)}
    BY <2>2, ShortSeqs
  <2>5. PICK first : first = flush \o stall
    OBVIOUS
  <2>6. IsSeq(first) /\ Elems(first) = Elems(flush) \cup Elems(stall)
    BY <2>3, <2>4, <2>5, ConcatSeq
  <2>7. todo' = [todo EXCEPT ![t] = first \o Tail(todo[t])]
    BY <2>1, <2>2, <2>5
  <2>8. Goes(t, first)
    BY <1>0, <2>6, <2>7, ThenGoes
  <2>9. \A y \in Elems(first) : y.do \notin Letter
    BY <2>3, <2>4, <2>6, FlushKind, StallKind DEF Letter
  <2>10. Now(t).do \notin Letter
    BY <1>0 DEF Letter
  <2> QED BY <1>0, <2>1, <2>8, <2>9, <2>10, WritersAsBefore, DullRegistry
<1> QED BY <1>6, <1>7

LEMMA FinalizeNestedRegistry ==
  ASSUME PatchInv, Registry, NEW t \in Threads, FinalizeNested(t)
  PROVE  Registry'
<1>0. todo[t] = <<>> /\ todo' = todo /\ ArbCalm /\ WriterShapes /\ ThreadInv
  BY PatchFacts DEF FinalizeNested, Idle, ArbCalm
<1>1. PICK w, i : /\ w \in Owner(t)
                  /\ writers' = [writers EXCEPT ![w].patches[i].done = TRUE]
  <2> DEFINE open(w) == {i \in DOMAIN writers[w].patches : ~writers[w].patches[i].done}
             last(w) == CHOOSE i \in open(w) : \A j \in open(w) : j <= i
  <2>1. \E w \in Owner(t) : writers' = [writers EXCEPT ![w].patches[last(w)].done = TRUE]
    BY Zenon DEF FinalizeNested
  <2> HIDE DEF last
  <2> QED BY <2>1, Zenon
<1>2. PICK list, rec : /\ rec = [writers[w] EXCEPT !.patches = list]
                       /\ writers' = [writers EXCEPT ![w] = rec]
  <2>1. PICK list : list = [writers[w].patches EXCEPT ![i].done = TRUE]
    OBVIOUS
  <2>2. PICK rec : rec = [writers[w] EXCEPT !.patches = list]
    OBVIOUS
  <2>3. writers' = [writers EXCEPT ![w] = rec]
    BY <1>1, <2>1, <2>2
  <2> QED BY <2>2, <2>3
<1>3. w \in DOMAIN writers
  BY <1>1 DEF Owner
<1>4. /\ rec.id = writers[w].id /\ rec.live = writers[w].live
      /\ rec.target = writers[w].target /\ rec.thread = writers[w].thread
  BY <1>0, <1>2, <1>3 DEF WriterShapes
<1>5. WritersCalm
  BY <1>2, <1>3, <1>4, WriterRevised
<1> QED BY <1>0, <1>5, StaysIdle, NothingRegistry, SMTT(30)

LEMMA UpdateRegistry ==
  ASSUME PatchInv, Registry, NEW t \in Threads, NEW w \in DOMAIN writers, NEW count,
         Updates(t, w, count), NEW chunk, NEW rest,
         UpdateCommitDataRequest(t, w, chunk, rest),
         todo[t] # <<>> => Now(t).do = "return"
  PROVE  Registry'
<1>1. PICK first : Goes(t, first) /\ \A x \in Elems(first) : x = Delay
  BY DEF Updates
<1>2. \A x \in Elems(first) : x.do \notin Letter
  BY <1>1 DEF Delay, Letter
<1>3. DeskKept /\ \A v \in DOMAIN writers : writers'[v].live = writers[v].live /\ writers'[v].id = writers[v].id
  BY PatchFacts, UpdateKeeps DEF Stream
<1>4. DOMAIN writers' = DOMAIN writers
  BY DEF Updates
<1>5. WritersCalm
  BY <1>3, <1>4 DEF Updates, WritersCalm, SameWriter
<1>6. arb'.bound = arb.bound
  <2>1. PICK req, scheduled : arb' = [arb EXCEPT !.req = req, !.scheduled = scheduled]
    BY Zenon DEF UpdateCommitDataRequest
  <2> QED BY <2>1, PatchFacts DEF Shapes
<1>7. ArbCalm
  BY <1>3, <1>6 DEF Updates, DeskKept, ArbCalm
<1>8. todo[t] # <<>> => Now(t).do \notin Letter
  BY DEF Letter
<1> QED BY <1>1, <1>2, <1>5, <1>7, <1>8, DullRegistry

LEMMA ReturnRegistry ==
  ASSUME PatchInv, Registry, NEW t \in Threads, ReturnCompletedChunk(t)
  PROVE  Registry'
<1>1. PICK w : w = Now(t).w
  OBVIOUS
<1>2. w \in DOMAIN writers /\ Updates(t, w, 1) /\ Now(t).do = "return"
  BY <1>1, PatchFacts, ReturnCompletedChunkSteps
<1>3. \E chunk, rest : UpdateCommitDataRequest(t, w, chunk, rest)
  BY <1>1 DEF ReturnCompletedChunk
<1> QED BY <1>2, <1>3, UpdateRegistry

LEMMA SendPatchesRegistry ==
  ASSUME PatchInv, Registry, NEW t \in Threads, SendPatches(t)
  PROVE  Registry'
<1>1. todo[t] = <<>> /\ \E w \in DOMAIN writers : /\ Updates(t, w, 0)
                                               /\ UpdateCommitDataRequest(t, w, <<>>, <<>>)
  BY PatchFacts, SendPatchesSteps
<1>2. PICK w \in DOMAIN writers : Updates(t, w, 0) /\ UpdateCommitDataRequest(t, w, <<>>, <<>>)
  BY <1>1
<1>3. PICK none : UpdateCommitDataRequest(t, w, none, none)
  BY <1>2
<1> QED BY <1>1, <1>2, <1>3, UpdateRegistry

LEMMA NotifyRegistry ==
  ASSUME PatchInv, Registry, NEW t \in Threads, NotifyFlushComplete(t)
  PROVE  Registry'
<1>0. Shapes /\ WriterShapes /\ ThreadInv /\ todo[t] = <<>>
  BY PatchFacts, NotifyFlushCompleteSteps
<1>1. PICK req, asked : /\ arb' = [arb EXCEPT !.req = req]
                        /\ env' = [env EXCEPT !.asked = asked]
  BY Zenon DEF NotifyFlushComplete
<1>2. ArbCalm /\ writers' = writers
  <2>1. /\ arb'.reservations = arb.reservations /\ arb'.pending = arb.pending
        /\ arb'.bound = arb.bound
    BY <1>0, <1>1 DEF Shapes
  <2>2. env'.overtaken = env.overtaken
    BY <1>0, <1>1 DEF WriterShapes
  <2> QED BY <2>1, <2>2 DEF ArbCalm, NotifyFlushComplete
<1>3. \/ todo' = [todo EXCEPT ![t] = <<Post(Flush({}))>>]
      \/ todo' = [todo EXCEPT ![t] = <<>>]
  BY DEF NotifyFlushComplete, Start
<1>4. CASE todo' = [todo EXCEPT ![t] = <<Post(Flush({}))>>]
  <2>1. PICK x : x = Flush({}) /\ x.do = "flush"
    BY FlushKind
  <2>2. PICK y : y = Post(x)
    OBVIOUS
  <2>3. Goes(t, <<y>>)
    BY <1>0, <1>4, <2>1, <2>2, ShortSeqs, StartGoes
  <2> QED BY <1>0, <1>2, <2>1, <2>2, <2>3, WritersAsBefore, PostRegistry
<1>5. CASE todo' = [todo EXCEPT ![t] = <<>>]
  <2>1. PICK none : none = <<>> /\ IsSeq(none) /\ Elems(none) = {}
    BY ShortSeqs
  <2>2. Goes(t, none)
    BY <1>0, <1>5, <2>1, StartGoes
  <2> QED BY <1>0, <1>2, <2>1, <2>2, WritersAsBefore, NothingRegistry
<1> QED BY <1>3, <1>4, <1>5

LEMMA FlushPendingRegistry ==
  ASSUME PatchInv, Registry, NEW t \in Threads, FlushPendingCommitDataRequests(t)
  PROVE  Registry'
<1>1. PICK cbs : cbs = Now(t).cbs
  OBVIOUS
<1>2. /\ todo[t] # <<>> /\ Now(t).do = "flush"
      /\ writers' = writers /\ tasks' = tasks /\ service' = service /\ env' = env
      /\ \E first : /\ Goes(t, first)
                    /\ \/ Leaves(t, first, cbs) \/ PassesOn(t, first, cbs)
                       \/ Sends(t, first, cbs)
  BY <1>1, PatchFacts, FlushPendingSteps
<1>3. PICK first : /\ Goes(t, first)
                   /\ \/ Leaves(t, first, cbs) \/ PassesOn(t, first, cbs)
                      \/ Sends(t, first, cbs)
  BY <1>2
<1>4. Now(t).do \notin Letter /\ WritersCalm
  BY <1>2, WritersAsBefore DEF Letter
<1>5. ArbCalm
  <2>1. /\ arb'.reservations = arb.reservations /\ arb'.pending = arb.pending
        /\ arb'.bound = arb.bound
    BY <1>3, PatchFacts DEF Leaves, PassesOn, Sends, Shapes
  <2> QED BY <1>2, <2>1 DEF ArbCalm
<1>6. CASE PassesOn(t, first, cbs)
  <2>1. PICK x : x = Flush(cbs) /\ x.do = "flush"
    BY FlushKind
  <2>2. Goes(t, <<Post(x)>>)
    BY <1>3, <1>6, <2>1 DEF PassesOn
  <2> QED BY <1>4, <1>5, <2>1, <2>2, PostRegistry
<1>7. CASE Leaves(t, first, cbs) \/ Sends(t, first, cbs)
  <2>1. \A x \in Elems(first) : x.do \notin Letter
    <3>1. CASE Elems(first) = {}
      BY <3>1
    <3>2. CASE first = <<>>
      BY <3>2, ShortSeqs
    <3>3. CASE first = <<Commit(ToSend, cbs)>>
      <4>1. PICK x : x = Commit(ToSend, cbs) /\ x.do = "commit"
        BY CommitKind
      <4>2. Elems(first) = {x}
        BY <3>3, <4>1, ShortSeqs
      <4> QED BY <4>1, <4>2 DEF Letter
    <3> QED BY <1>7, <3>1, <3>2, <3>3 DEF Leaves, Sends
  <2> QED BY <1>3, <1>4, <1>5, <2>1, DullRegistry
<1> QED BY <1>3, <1>6, <1>7

LEMMA AbortKind ==
  ASSUME NEW r
  PROVE  Abort(r).do = "abort" /\ Abort(r).r = r
BY DEF Abort

LEMMA AbortPostRegistry ==
  ASSUME PatchInv, Registry, NEW t \in Threads, NEW r, AbortStartupTracingForReservation(t, r),
         MustPostAbort(t)
  PROVE  Registry'
<1>1. todo[t] = <<>> /\ writers' = writers /\ arb' = arb /\ service' = service /\ tasks' = tasks
  BY DEF AbortStartupTracingForReservation, Idle
<1>2. Goes(t, <<Post(Abort(r))>>) /\ env' = [env EXCEPT !.claimed = @ \cup {r}]
  BY PatchFacts, AbortPostNeutral
<1>3. ArbCalm
  <2>1. env'.overtaken = env.overtaken
    BY <1>2, PatchFacts DEF WriterShapes
  <2> QED BY <1>1, <2>1 DEF ArbCalm
<1>4. PICK x : x = Abort(r) /\ x.do = "abort"
  BY AbortKind
<1>5. Goes(t, <<Post(x)>>)
  BY <1>2, <1>4
<1> QED BY <1>1, <1>3, <1>4, <1>5, WritersAsBefore, PostRegistry

LEMMA QuietRegistry ==
  ASSUME PatchInv, Registry, EnableDirectSMBPatching \/ TryShutdown
  PROVE  Registry'
<1>1. IPC \in Threads /\ todo[IPC] = <<>> /\ todo' = todo /\ writers' = writers
  BY ArbiterConstants DEF EnableDirectSMBPatching, TryShutdown, Idle
<1>2. ArbCalm
  BY PatchFacts DEF EnableDirectSMBPatching, TryShutdown, Shapes, ArbCalm
<1> QED BY <1>1, <1>2, PatchFacts, StaysIdle, WritersAsBefore, NothingRegistry

LEMMA DelayRegistry ==
  ASSUME PatchInv, Registry,
         \/ \E t \in Threads : PostDelayedTask(t)
         \/ ClearDelayedFlushScheduled \/ RunCallback
  PROVE  Registry'
<1>0. Shapes /\ IPC \in Threads
  BY PatchFacts, ArbiterConstants
<1>1. PICK t \in Threads : /\ todo[t] # <<>> /\ Then(t, <<>>) /\ writers' = writers
                           /\ Now(t).do \in {"delay", "clear", "callback"}
                           /\ env' = env /\ tasks' = tasks /\ service' = service
                           /\ arb' = arb \/ arb' = [arb EXCEPT !.scheduled = FALSE]
  BY <1>0 DEF PostDelayedTask, ClearDelayedFlushScheduled, RunCallback, AtStep, Now
<1>2. ArbCalm
  BY <1>0, <1>1 DEF ArbCalm, Shapes
<1>3. Now(t).do \notin Letter
  BY <1>1 DEF Letter
<1>4. \E e : Goes(t, e) /\ Elems(e) = {}
  BY <1>0, <1>1, ThenNothing
<1> QED BY <1>1, <1>2, <1>3, <1>4, WritersAsBefore, NothingRegistry

LEMMA RunDelayedTaskRegistry ==
  ASSUME PatchInv, Registry, RunDelayedTask
  PROVE  Registry'
<1>1. /\ IPC \in Threads /\ todo[IPC] = <<>> /\ todo' = [todo EXCEPT ![IPC] = <<Clear, Flush({})>>]
      /\ writers' = writers /\ ArbCalm
  BY ArbiterConstants DEF RunDelayedTask, Idle, Start, ArbCalm
<1>2. IsSeq(<<Clear, Flush({})>>) /\ Elems(<<Clear, Flush({})>>) \subseteq {Clear, Flush({})}
  <2>1. PICK c, f : c = Clear /\ f = Flush({})
    OBVIOUS
  <2>2. <<c, f>> \in Seq({c, f})
    OBVIOUS
  <2> QED BY <2>1, <2>2, TypedIsSeq
<1>3. PICK first : /\ IsSeq(first) /\ Elems(first) \subseteq {Clear, Flush({})}
                   /\ todo' = [todo EXCEPT ![IPC] = first]
  BY <1>1, <1>2
<1>4. Goes(IPC, first)
  BY <1>1, <1>3, PatchFacts, StartGoes
<1>5. \A x \in Elems(first) : x.do \notin Letter
  BY <1>3 DEF Clear, Flush, Letter
<1> QED BY <1>1, <1>4, <1>5, WritersAsBefore, DullRegistry

LEMMA BindToProducerEndpointRegistry ==
  ASSUME PatchInv, Registry, BindToProducerEndpoint
  PROVE  Registry'
<1>0. /\ Shapes /\ IPC \in Threads /\ todo[IPC] = <<>> /\ writers' = writers
      /\ tasks' = tasks /\ service' = service
  BY PatchFacts, ArbiterConstants DEF BindToProducerEndpoint, Idle
<1>1. PICK a0 : a0 = [arb EXCEPT !.bound = TRUE]
  OBVIOUS
<1>2. PICK a : a = UpdateFullyBoundLocked(a0)
  OBVIOUS
<1>3. /\ arb' = TakePendingFlushCallbacks(a) /\ env' = env
      /\ todo' = [todo EXCEPT ![IPC] = FlushIfBound(a)]
  BY <1>1, <1>2, Zenon DEF BindToProducerEndpoint, Start
<1>4. /\ DOMAIN a0 = DOMAIN arb /\ a0.bound = TRUE
      /\ a0.reservations = arb.reservations /\ a0.pending = arb.pending
  BY <1>0, <1>1 DEF Shapes
<1>5. BoundAs(a0)
  BY <1>0, <1>2, <1>3, <1>4, BindMembers
<1>6. arb'.bound = TRUE
  <2>1. a.bound = TRUE /\ DOMAIN a = DOMAIN a0
    BY <1>0, <1>2, <1>4 DEF UpdateFullyBoundLocked, Shapes
  <2> QED BY <1>0, <1>3, <1>4, <2>1 DEF TakePendingFlushCallbacks, Shapes
<1>7. ArbCalm
  BY <1>0, <1>3, <1>4, <1>5, <1>6 DEF ArbCalm, BoundAs
<1>8. PICK first : first = FlushIfBound(a) /\ IsSeq(first) /\ Elems(first) \subseteq {Flush(a.callbacks)}
  BY ShortSeqs DEF FlushIfBound
<1>9. Goes(IPC, first)
  BY <1>0, <1>3, <1>8, StartGoes
<1>10. \A x \in Elems(first) : x.do \notin Letter
  BY <1>8, FlushKind DEF Letter
<1> QED BY <1>0, <1>7, <1>9, <1>10, WritersAsBefore, DullRegistry

LEMMA StutterRegistry ==
  ASSUME Registry, UNCHANGED vars
  PROVE  Registry'
<1>1. /\ todo' = todo /\ tasks' = tasks /\ service' = service
      /\ writers' = writers /\ arb' = arb /\ env' = env
  BY DEF vars
<1>2. Letters'
  BY <1>1 DEF Registry, Letters, Rest
<1>3. Withdrawn'
  BY <1>1 DEF Registry, Withdrawn, Owned, OwnedBy, Live, BufferOf, DropAhead, DropBehind, DropPosted
<1>4. Reached'
  BY <1>1, SMTT(30) DEF Registry, Reached, Told, EntryFor, Live, BufferOf, SilentAhead, SilentBehind, SilentPosts
<1>5. Awaited'
  BY <1>1 DEF Registry, Awaited, Live, SilentBehind, SilentPosts
<1>6. Known'
  BY <1>1 DEF Registry, Known
<1> QED BY <1>2, <1>3, <1>4, <1>5, <1>6 DEF Registry

(* Messages that move, while the arbiter and the writers stay.             *)
LEMMA MovedRegistry ==
  ASSUME Registry, arb' = arb, writers' = writers, env' = env, Letters',
         (\A e : Owned(e)' = Owned(e) /\ \A w : OwnedBy(e, w)' = OwnedBy(e, w)) => Withdrawn',
         WriterShapes,
         \A e : \A t \in Threads : Told(e, t) => Told(e, t)',
         \A i : SilentBehind(i) => SilentBehind(i)'
  PROVE  Registry'
<1>1. \A e, w : OwnedBy(e, w)' = OwnedBy(e, w)
  BY DEF OwnedBy, Live, BufferOf
<1>2. \A e : Owned(e)' = Owned(e)
  BY DEF Owned, OwnedBy, Live, BufferOf
<1>3. Withdrawn'
  BY <1>1, <1>2
<1>4. Reached'
  <2>1. SUFFICES ASSUME NEW w \in DOMAIN writers, Live(w), BufferOf(writers[w].target) \in Buffers,
                        writers[w].id \notin env.overtaken
                 PROVE  Told(EntryFor(w), writers[w].thread)'
    BY DEF Reached, Live, BufferOf
  <2>2. PICK e, t : e = EntryFor(w) /\ t = writers[w].thread
    OBVIOUS
  <2>3. Told(e, t) /\ t \in Threads
    BY <2>1, <2>2 DEF Registry, Reached, WriterShapes
  <2>4. Told(e, t)'
    BY <2>3
  <2>5. EntryFor(w)' = e /\ writers'[w].thread = t
    BY <2>2 DEF EntryFor, BufferOf
  <2> QED BY <2>4, <2>5
<1>5. Awaited'
  BY DEF Registry, Awaited, Live
<1>6. Known'
  BY DEF Registry, Known
<1> QED BY <1>3, <1>4, <1>5, <1>6 DEF Registry

LEMMA RegistryFacts ==
  ASSUME PatchInv, Registry
  PROVE  /\ ThreadInv /\ Shapes /\ WriterShapes /\ Division /\ Binding /\ Occupied /\ Distinct
         /\ AlwaysBound /\ IPC \in Threads /\ IsSeq(tasks) /\ IsSeq(service.inbox)
         /\ Letters /\ Withdrawn /\ Reached /\ Awaited /\ Known
BY PatchFacts, ArbiterConstants DEF Registry, Shapes

LEMMA RunTaskRegistry ==
  ASSUME PatchInv, Registry, RunTask
  PROVE  Registry'
<1>0. /\ ThreadInv /\ Shapes /\ WriterShapes /\ Division /\ IPC \in Threads /\ IsSeq(tasks)
      /\ Letters /\ Withdrawn
  BY RegistryFacts
<1>1. /\ todo[IPC] = <<>> /\ tasks # <<>> /\ tasks' = Tail(tasks)
      /\ Goes(IPC, <<Head(tasks)>>) /\ Head(tasks) \in Elems(tasks)
      /\ arb' = arb /\ writers' = writers /\ service' = service /\ env' = env
  BY <1>0, RunTaskSteps
<1>2. PICK m, s, rest : m = Head(tasks) /\ s = tasks /\ rest = Tail(tasks)
  OBVIOUS
<1>3. /\ IsSeq(rest) /\ Elems(s) = {m} \cup Elems(rest) /\ m = s[1] /\ 1 \in DOMAIN s
      /\ \A k \in DOMAIN rest : k + 1 \in DOMAIN s /\ rest[k] = s[k + 1] /\ k \in Nat
      /\ \A k \in DOMAIN s : k # 1 => k - 1 \in DOMAIN rest /\ s[k] = rest[k - 1]
  BY <1>0, <1>1, <1>2, TailSeq
<1>4. /\ Elems(todo[IPC]) = {} /\ Elems(todo'[IPC]) = {m}
      /\ \A u \in Threads \ {IPC} : todo'[u] = todo[u]
  BY <1>0, <1>1, <1>2, GoesFacts, ShortSeqs, SMTT(30)
<1>5. m.do # "post"
  BY <1>0, <1>1, <1>2 DEF Division, TaskKinds, PostKinds
<1>6. Letters'
  <2>1. PICK first : first = <<m>> /\ Goes(IPC, first) /\ WellFormed(m)
    BY <1>0, <1>1, <1>2, <1>5 DEF Letters, WellFormed
  <2>2. \A x \in Elems(tasks') : x \in Elems(tasks)
    BY <1>1, <1>2, <1>3
  <2> QED BY <1>0, <2>1, <2>2, PlainLetters, LettersStep
<1>7. \A i : DropPosted(i) <=> DropPosted(i)'
  BY <1>0, <1>4, <1>5 DEF DropPosted
<1>8. \A i : SilentPosts(i) <=> SilentPosts(i)'
  BY <1>0, <1>4, <1>5 DEF SilentPosts
<1>9. \A i : /\ \A k \in DOMAIN s : /\ Later(s, k, i) => Later(rest, k - 1, i)
                                    /\ Silent(s, k, i) => Silent(rest, k - 1, i)
             /\ Later(s, 0, i) => Drops(m, i) \/ Later(rest, 0, i)
             /\ Silent(s, 0, i) => ~About(m, i) /\ Silent(rest, 0, i)
  BY <1>0, <1>1, <1>2, MailTail
<1>10. \A i : DropAhead(i) => DropAhead(i)'
  BY <1>1, <1>2, <1>4, <1>7, <1>9 DEF DropAhead, DropBehind
<1>11. \A i : SilentBehind(i) => SilentBehind(i)' /\ ~About(m, i)
  BY <1>1, <1>2, <1>8, <1>9 DEF SilentBehind
<1>12. \A i : SilentAhead(i) => SilentAhead(i)'
  BY <1>4, <1>11 DEF SilentAhead
<1>13. ASSUME \A e : Owned(e)' = Owned(e) /\ \A w : OwnedBy(e, w)' = OwnedBy(e, w)
       PROVE  Withdrawn'
  <2>1. \A e \in service'.registered :
          Owned(e)' \/ Later(service'.inbox, 0, e.id) \/ DropAhead(e.id)'
    BY <1>0, <1>1, <1>10, <1>13 DEF Withdrawn
  <2>2. \A k \in DOMAIN service'.inbox : \A e : Tells(service'.inbox[k], e)
          => Owned(e)' \/ Later(service'.inbox, k, e.id) \/ DropAhead(e.id)'
    BY <1>0, <1>1, <1>10, <1>13 DEF Withdrawn
  <2>3. ASSUME NEW e, Tells(m, e) PROVE Owned(e)' \/ DropBehind(e.id)'
    <3>1. Owned(e) \/ Later(s, 1, e.id) \/ DropPosted(e.id)
      BY <1>0, <1>2, <1>3, <2>3 DEF Withdrawn
    <3>2. Later(s, 1, e.id) => Later(rest, 0, e.id)
      BY <1>3, <1>9
    <3> QED BY <1>1, <1>2, <1>7, <1>13, <3>1, <3>2 DEF DropBehind
  <2>4. ASSUME NEW k \in DOMAIN tasks', NEW e, Tells(tasks'[k], e)
        PROVE  Owned(e)' \/ Later(tasks', k, e.id) \/ DropPosted(e.id)'
    <3>1. k + 1 \in DOMAIN s /\ rest[k] = s[k + 1] /\ k \in Nat
      BY <1>1, <1>2, <1>3, <2>4
    <3>2. Owned(e) \/ Later(s, k + 1, e.id) \/ DropPosted(e.id)
      BY <1>0, <1>1, <1>2, <2>4, <3>1 DEF Withdrawn
    <3>3. PICK l : l = k + 1 /\ l - 1 = k
      BY <3>1
    <3>4. Later(s, l, e.id) => Later(rest, k, e.id)
      BY <1>9, <3>1, <3>3
    <3> QED BY <1>1, <1>2, <1>7, <1>13, <3>2, <3>3, <3>4
  <2>5. \A t \in Threads : \A x \in Elems(todo'[t]) : \A e : x.do = "post" /\ Tells(x.task, e)
          => \E w \in DOMAIN writers' : OwnedBy(e, w)' /\ writers'[w].thread = t
    BY <1>0, <1>1, <1>4, <1>5, <1>13 DEF Withdrawn
  <2> QED BY <1>4, <2>1, <2>2, <2>3, <2>4, <2>5 DEF Withdrawn
<1>14. ASSUME NEW e, NEW t \in Threads, Told(e, t) PROVE Told(e, t)'
  <2>1. CASE /\ e \in service.registered
             /\ Silent(service.inbox, 0, e.id) /\ SilentAhead(e.id)
    BY <1>1, <1>12, <2>1 DEF Told
  <2>2. CASE \E k \in DOMAIN service.inbox :
               /\ Tells(service.inbox[k], e)
               /\ Silent(service.inbox, k, e.id) /\ SilentAhead(e.id)
    BY <1>1, <1>12, <2>2 DEF Told
  <2>3. CASE \E k \in DOMAIN tasks :
               Tells(tasks[k], e) /\ Silent(tasks, k, e.id) /\ SilentPosts(e.id)
    <3>1. PICK k \in DOMAIN s : Tells(s[k], e) /\ Silent(s, k, e.id) /\ SilentPosts(e.id)
      BY <1>2, <2>3
    <3>2. CASE k = 1
      <4>1. Silent(rest, 0, e.id)
        BY <1>9, <3>1, <3>2
      <4>2. SilentBehind(e.id)'
        BY <1>1, <1>2, <1>8, <3>1, <4>1 DEF SilentBehind
      <4>3. m \in Elems(todo'[IPC]) /\ Tells(m, e)
        BY <1>3, <1>4, <3>1, <3>2
      <4> QED BY <4>2, <4>3 DEF Told
    <3>3. CASE k # 1
      <4>1. PICK l : l = k - 1 /\ l \in DOMAIN rest /\ s[k] = rest[l]
        BY <1>3, <3>3
      <4>2. Silent(rest, l, e.id)
        BY <1>9, <3>1, <4>1
      <4>3. l \in DOMAIN tasks' /\ Tells(tasks'[l], e) /\ Silent(tasks', l, e.id) /\ SilentPosts(e.id)'
        BY <1>1, <1>2, <1>8, <3>1, <4>1, <4>2
      <4> QED BY <4>3 DEF Told
    <3> QED BY <3>2, <3>3
  <2>4. CASE /\ \E x \in Elems(todo[t]) : x.do = "post" /\ Tells(x.task, e)
             /\ \A u \in Threads \ {t} : \A x \in Elems(todo[u]) : x.do = "post" => ~About(x.task, e.id)
    <3>1. t # IPC
      BY <1>4, <2>4
    <3>2. \E x \in Elems(todo'[t]) : x.do = "post" /\ Tells(x.task, e)
      BY <1>4, <2>4, <3>1
    <3>3. \A u \in Threads \ {t} : \A x \in Elems(todo'[u]) : x.do = "post" => ~About(x.task, e.id)
      BY <1>4, <1>5, <2>4
    <3> QED BY <3>2, <3>3 DEF Told
  <2> QED BY <1>4, <1>14, <2>1, <2>2, <2>3, <2>4 DEF Told
<1> QED BY <1>0, <1>1, <1>6, <1>11, <1>13, <1>14, MovedRegistry

LEMMA PostTaskRegistry ==
  ASSUME PatchInv, Registry, NEW t \in Threads, PostTask(t)
  PROVE  Registry'
<1>0. /\ ThreadInv /\ Shapes /\ WriterShapes /\ Division /\ IPC \in Threads /\ IsSeq(tasks)
      /\ Letters /\ Withdrawn
  BY RegistryFacts
<1>1. /\ todo[t] # <<>> /\ Now(t).do = "post"
      /\ \E e : Goes(t, e) /\ Elems(e) = {}
      /\ tasks' = Append(tasks, Now(t).task)
      /\ arb' = arb /\ writers' = writers /\ service' = service /\ env' = env
  BY <1>0, PostTaskSteps
<1>2. PICK p, m, s, more, n : /\ p = Now(t) /\ m = p.task /\ s = tasks /\ more = Append(s, m)
                              /\ n = Len(s) + 1
  OBVIOUS
<1>3. PICK first : Goes(t, first) /\ Elems(first) = {}
  BY <1>1
<1>4. /\ Elems(more) = Elems(s) \cup {m} /\ n \in DOMAIN more /\ more[n] = m /\ n \in Nat
      /\ \A k \in DOMAIN s : k \in DOMAIN more /\ more[k] = s[k] /\ k \in Nat /\ k \in 0 .. Len(s)
      /\ \A k \in DOMAIN more : k \in DOMAIN s \/ k = n
      /\ 0 \in 0 .. Len(s) /\ 0 \in Int
  BY <1>0, <1>2, AppendSeq
<1>5. /\ \A u \in Threads \ {t} : todo'[u] = todo[u]
      /\ Elems(todo'[t]) = Elems(Rest(t)) /\ Elems(todo[t]) = {p} \cup Elems(Rest(t))
      /\ p \in Elems(todo[t])
  <2>1. Elems(todo'[t]) = Elems(first) \cup Elems(Rest(t))
    BY <1>0, <1>3, GoesFacts
  <2>2. Elems(todo'[t]) = Elems(Rest(t))
    BY <1>3, <2>1
  <2> QED BY <1>0, <1>1, <1>2, <1>3, <2>2, GoesFacts
<1>6. /\ \A x \in Elems(Rest(t)) : x.do \notin Letter
      /\ p.do = "post" /\ (m.do = "unregister" => m = Unregister(m.id))
  BY <1>0, <1>1, <1>2, <1>5 DEF Letters, Letter
<1>7. /\ \A u \in Threads : \A x \in Elems(todo'[u]) : x \in Elems(todo[u])
      /\ \A u \in Threads : \A x \in Elems(todo[u]) :
           x.do \in Letter => x \in Elems(todo'[u]) \/ (u = t /\ x = p)
      /\ \A x \in Elems(todo'[t]) : x.do # "post"
  BY <1>5, <1>6 DEF Letter
<1>8. Letters'
  <2>1. \A x \in Elems(tasks') : x \in Elems(tasks) \/ (x.do = "unregister" => x = Unregister(x.id))
    BY <1>1, <1>2, <1>4, <1>6
  <2>2. \A x \in Elems(first) : x.do \notin Letter
    BY <1>3
  <2> QED BY <1>0, <1>3, <2>1, <2>2, PlainLetters, LettersStep
<1>9. \A i : DropPosted(i) => DropPosted(i)' \/ Drops(m, i)
  BY <1>2, <1>7 DEF DropPosted, Letter
<1>10. \A i : SilentPosts(i) => SilentPosts(i)' /\ ~About(m, i)
  BY <1>2, <1>5, <1>6, <1>7 DEF SilentPosts
<1>11. \A i : /\ \A k \in 0 .. Len(s) : Later(s, k, i) \/ Drops(m, i) => Later(more, k, i)
              /\ \A k \in Int : Silent(s, k, i) /\ ~About(m, i) => Silent(more, k, i)
              /\ Silent(more, n, i)
  BY <1>0, <1>2, MailAppend
<1>12. \A i : DropBehind(i) => DropBehind(i)'
  BY <1>1, <1>2, <1>4, <1>9, <1>11 DEF DropBehind
<1>13. \A x \in Elems(todo[IPC]) : x.do \in {"register", "unregister"} => x \in Elems(todo'[IPC])
  BY <1>0, <1>6, <1>7 DEF Letter
<1>14. \A i : DropAhead(i) => DropAhead(i)'
  <2>1. \A x \in Elems(todo[IPC]) : \A i : Drops(x, i) => x \in Elems(todo'[IPC])
    BY <1>13 DEF Drops
  <2> QED BY <1>12, <2>1 DEF DropAhead
<1>15. \A i : SilentBehind(i) => SilentBehind(i)'
  BY <1>1, <1>2, <1>4, <1>10, <1>11 DEF SilentBehind
<1>16. \A i : SilentAhead(i) => SilentAhead(i)'
  BY <1>0, <1>7, <1>15 DEF SilentAhead
<1>17. ASSUME \A e : Owned(e)' = Owned(e) /\ \A w : OwnedBy(e, w)' = OwnedBy(e, w)
       PROVE  Withdrawn'
  <2>1. \A e \in service'.registered :
          Owned(e)' \/ Later(service'.inbox, 0, e.id) \/ DropAhead(e.id)'
    BY <1>0, <1>1, <1>14, <1>17 DEF Withdrawn
  <2>2. \A k \in DOMAIN service'.inbox : \A e : Tells(service'.inbox[k], e)
          => Owned(e)' \/ Later(service'.inbox, k, e.id) \/ DropAhead(e.id)'
    BY <1>0, <1>1, <1>14, <1>17 DEF Withdrawn
  <2>3. \A x \in Elems(todo'[IPC]) : \A e : Tells(x, e) => Owned(e)' \/ DropBehind(e.id)'
    BY <1>0, <1>7, <1>12, <1>17 DEF Withdrawn
  <2>4. ASSUME NEW k \in DOMAIN tasks', NEW e, Tells(tasks'[k], e)
        PROVE  Owned(e)' \/ Later(tasks', k, e.id) \/ DropPosted(e.id)'
    <3>1. CASE k \in DOMAIN s
      <4>1. Tells(s[k], e)
        BY <1>1, <1>2, <1>4, <2>4, <3>1
      <4>2. Owned(e) \/ Later(s, k, e.id) \/ DropPosted(e.id)
        BY <1>0, <1>2, <3>1, <4>1 DEF Withdrawn
      <4> QED BY <1>1, <1>2, <1>4, <1>9, <1>11, <1>17, <3>1, <4>2
    <3>2. CASE k = n
      <4>1. Tells(m, e)
        BY <1>1, <1>2, <1>4, <2>4, <3>2
      <4>2. Owned(e)
        BY <1>0, <1>2, <1>5, <1>6, <4>1 DEF Withdrawn, Owned
      <4> QED BY <1>17, <4>2
    <3> QED BY <1>1, <1>2, <1>4, <2>4, <3>1, <3>2
  <2>5. \A u \in Threads : \A x \in Elems(todo'[u]) : \A e : x.do = "post" /\ Tells(x.task, e)
          => \E w \in DOMAIN writers' : OwnedBy(e, w)' /\ writers'[w].thread = u
    BY <1>0, <1>1, <1>7, <1>17 DEF Withdrawn
  <2> QED BY <2>1, <2>2, <2>3, <2>4, <2>5 DEF Withdrawn
<1>18. ASSUME NEW e, NEW u \in Threads, Told(e, u) PROVE Told(e, u)'
  <2>1. CASE /\ e \in service.registered
             /\ Silent(service.inbox, 0, e.id) /\ SilentAhead(e.id)
    BY <1>1, <1>16, <2>1 DEF Told
  <2>2. CASE \E k \in DOMAIN service.inbox :
               /\ Tells(service.inbox[k], e)
               /\ Silent(service.inbox, k, e.id) /\ SilentAhead(e.id)
    BY <1>1, <1>16, <2>2 DEF Told
  <2>3. CASE \E x \in Elems(todo[IPC]) : Tells(x, e) /\ SilentBehind(e.id)
    <3>1. PICK x \in Elems(todo[IPC]) : Tells(x, e) /\ SilentBehind(e.id)
      BY <2>3
    <3>2. x \in Elems(todo'[IPC])
      BY <1>13, <3>1 DEF Tells
    <3> QED BY <1>15, <3>1, <3>2 DEF Told
  <2>4. CASE \E k \in DOMAIN tasks :
               Tells(tasks[k], e) /\ Silent(tasks, k, e.id) /\ SilentPosts(e.id)
    <3>1. PICK k \in DOMAIN s : Tells(s[k], e) /\ Silent(s, k, e.id) /\ SilentPosts(e.id)
      BY <1>2, <2>4
    <3>2. k \in DOMAIN more /\ Tells(more[k], e) /\ Silent(more, k, e.id) /\ SilentPosts(e.id)'
      BY <1>4, <1>10, <1>11, <3>1
    <3>3. k \in DOMAIN tasks' /\ Tells(tasks'[k], e) /\ Silent(tasks', k, e.id)
      BY <1>1, <1>2, <3>2
    <3> QED BY <3>2, <3>3 DEF Told
  <2>5. CASE /\ \E x \in Elems(todo[u]) : x.do = "post" /\ Tells(x.task, e)
             /\ \A v \in Threads \ {u} : \A x \in Elems(todo[v]) : x.do = "post" => ~About(x.task, e.id)
    <3>1. CASE u = t
      <4>1. Tells(m, e)
        BY <1>2, <1>7, <2>5, <3>1 DEF Letter
      <4>2. SilentPosts(e.id)'
        BY <1>7, <2>5, <3>1 DEF SilentPosts
      <4>3. n \in DOMAIN tasks' /\ Tells(tasks'[n], e) /\ Silent(tasks', n, e.id)
        BY <1>1, <1>2, <1>4, <1>11, <4>1
      <4> QED BY <4>2, <4>3 DEF Told
    <3>2. CASE u # t
      <4>1. \E x \in Elems(todo'[u]) : x.do = "post" /\ Tells(x.task, e)
        BY <1>5, <2>5, <3>2
      <4>2. \A v \in Threads \ {u} : \A x \in Elems(todo'[v]) : x.do = "post" => ~About(x.task, e.id)
        BY <1>7, <2>5
      <4> QED BY <4>1, <4>2 DEF Told
    <3> QED BY <3>1, <3>2
  <2> QED BY <1>18, <2>1, <2>2, <2>3, <2>4, <2>5 DEF Told
<1> QED BY <1>0, <1>1, <1>8, <1>15, <1>17, <1>18, MovedRegistry

LEMMA CallEndpointRegistry ==
  ASSUME PatchInv, Registry, NEW t \in Threads, CallEndpoint(t)
  PROVE  Registry'
<1>0. /\ ThreadInv /\ Shapes /\ WriterShapes /\ Division /\ IPC \in Threads /\ IsSeq(service.inbox)
      /\ Letters /\ Withdrawn
  BY RegistryFacts
<1>1. /\ t = IPC /\ todo[IPC] # <<>> /\ Now(IPC).do \in Endpoint
      /\ \E e : Goes(IPC, e) /\ Elems(e) = {}
      /\ service' = [service EXCEPT !.inbox = Append(@, Now(IPC))]
      /\ service'.inbox = Append(service.inbox, Now(IPC))
      /\ arb' = arb /\ writers' = writers /\ tasks' = tasks /\ env' = env
  BY <1>0, CallEndpointSteps
<1>2. PICK m, s, more, n : /\ m = Now(IPC) /\ s = service.inbox /\ more = Append(s, m)
                           /\ n = Len(s) + 1
  OBVIOUS
<1>3. PICK first : Goes(IPC, first) /\ Elems(first) = {}
  BY <1>1
<1>4. /\ n \in DOMAIN more /\ more[n] = m /\ n \in Nat
      /\ \A k \in DOMAIN s : k \in DOMAIN more /\ more[k] = s[k] /\ k \in Nat /\ k \in 0 .. Len(s)
      /\ \A k \in DOMAIN more : k \in DOMAIN s \/ k = n
      /\ 0 \in 0 .. Len(s) /\ 0 \in Int
  BY <1>0, <1>2, AppendSeq
<1>5. /\ \A u \in Threads \ {IPC} : todo'[u] = todo[u]
      /\ Elems(todo'[IPC]) = Elems(Rest(IPC)) /\ Elems(todo[IPC]) = {m} \cup Elems(Rest(IPC))
      /\ m \in Elems(todo[IPC])
  <2>1. Elems(todo'[IPC]) = Elems(first) \cup Elems(Rest(IPC))
    BY <1>0, <1>3, GoesFacts
  <2>2. Elems(todo'[IPC]) = Elems(Rest(IPC))
    BY <1>3, <2>1
  <2> QED BY <1>0, <1>1, <1>2, <1>3, <2>2, GoesFacts
<1>6. (\A x \in Elems(Rest(IPC)) : x.do \notin Letter) /\ m.do \in Endpoint
  BY <1>0, <1>1, <1>2 DEF Letters, Letter
<1>7. /\ \A x \in Elems(todo'[IPC]) : x.do \notin Letter
      /\ \A x \in Elems(todo[IPC]) : x.do \in Letter => x = m
      /\ \A x \in Elems(todo[IPC]) \cup Elems(todo'[IPC]) : x.do # "post"
      /\ service'.registered = service.registered /\ service'.inbox = more
  BY <1>0, <1>1, <1>2, <1>5, <1>6 DEF Letter, Endpoint, Shapes
<1>8. Letters'
  <2>1. \A x \in Elems(first) : x.do \notin Letter
    BY <1>3
  <2> QED BY <1>0, <1>1, <1>3, <2>1, PlainLetters, LettersStep
<1>9. \A i : DropPosted(i) <=> DropPosted(i)'
  BY <1>0, <1>5, <1>7 DEF DropPosted
<1>10. \A i : SilentPosts(i) <=> SilentPosts(i)'
  BY <1>0, <1>5, <1>7 DEF SilentPosts
<1>11. \A i : /\ \A k \in 0 .. Len(s) : Later(s, k, i) \/ Drops(m, i) => Later(more, k, i)
              /\ \A k \in Int : Silent(s, k, i) /\ ~About(m, i) => Silent(more, k, i)
              /\ Silent(more, n, i)
  BY <1>0, <1>2, MailAppend
<1>12. \A i : DropBehind(i) <=> DropBehind(i)'
  BY <1>1, <1>9 DEF DropBehind
<1>13. \A i : SilentBehind(i) <=> SilentBehind(i)'
  BY <1>1, <1>10 DEF SilentBehind
<1>14. \A i : DropAhead(i) => Drops(m, i) \/ DropAhead(i)'
  <2>1. \A x \in Elems(todo[IPC]) : \A i : Drops(x, i) => Drops(m, i)
    BY <1>7 DEF Drops, Letter
  <2> QED BY <1>12, <2>1 DEF DropAhead
<1>15. \A x : x.do \notin Letter => \A i : ~About(x, i)
  BY MailKinds DEF Letter, Speaks
<1>16. \A i : SilentBehind(i) => SilentAhead(i)'
  BY <1>7, <1>13, <1>15 DEF SilentAhead
<1>17. \A i : SilentAhead(i) => SilentAhead(i)' /\ ~About(m, i)
  BY <1>5, <1>16 DEF SilentAhead
<1>18. ASSUME \A e : Owned(e)' = Owned(e) /\ \A w : OwnedBy(e, w)' = OwnedBy(e, w)
       PROVE  Withdrawn'
  <2>1. ASSUME NEW e \in service'.registered
        PROVE  Owned(e)' \/ Later(service'.inbox, 0, e.id) \/ DropAhead(e.id)'
    <3>1. Owned(e) \/ Later(s, 0, e.id) \/ DropAhead(e.id)
      BY <1>0, <1>2, <1>7, <2>1 DEF Withdrawn
    <3> QED BY <1>4, <1>7, <1>11, <1>14, <1>18, <3>1
  <2>2. ASSUME NEW k \in DOMAIN service'.inbox, NEW e, Tells(service'.inbox[k], e)
        PROVE  Owned(e)' \/ Later(service'.inbox, k, e.id) \/ DropAhead(e.id)'
    <3>1. CASE k \in DOMAIN s
      <4>1. Tells(s[k], e)
        BY <1>4, <1>7, <2>2, <3>1
      <4>2. Owned(e) \/ Later(s, k, e.id) \/ DropAhead(e.id)
        BY <1>0, <1>2, <3>1, <4>1 DEF Withdrawn
      <4> QED BY <1>4, <1>7, <1>11, <1>14, <1>18, <3>1, <4>2
    <3>2. CASE k = n
      <4>1. Tells(m, e)
        BY <1>4, <1>7, <2>2, <3>2
      <4>2. Owned(e) \/ DropBehind(e.id)
        BY <1>0, <1>5, <4>1 DEF Withdrawn
      <4> QED BY <1>12, <1>18, <4>2 DEF DropAhead
    <3> QED BY <1>4, <1>7, <2>2, <3>1, <3>2
  <2>3. \A x \in Elems(todo'[IPC]) : \A e : Tells(x, e) => Owned(e)' \/ DropBehind(e.id)'
    BY <1>7 DEF Tells, Letter
  <2>4. \A k \in DOMAIN tasks' : \A e : Tells(tasks'[k], e)
          => Owned(e)' \/ Later(tasks', k, e.id) \/ DropPosted(e.id)'
    BY <1>0, <1>1, <1>9, <1>18 DEF Withdrawn
  <2>5. \A u \in Threads : \A x \in Elems(todo'[u]) : \A e : x.do = "post" /\ Tells(x.task, e)
          => \E w \in DOMAIN writers' : OwnedBy(e, w)' /\ writers'[w].thread = u
    BY <1>0, <1>1, <1>5, <1>7, <1>18, SMTT(30) DEF Withdrawn
  <2> QED BY <2>1, <2>2, <2>3, <2>4, <2>5 DEF Withdrawn
<1>19. ASSUME NEW e, NEW u \in Threads, Told(e, u) PROVE Told(e, u)'
  <2>1. CASE /\ e \in service.registered
             /\ Silent(service.inbox, 0, e.id) /\ SilentAhead(e.id)
    <3>1. e \in service'.registered /\ Silent(more, 0, e.id) /\ SilentAhead(e.id)'
      BY <1>2, <1>4, <1>7, <1>11, <1>17, <2>1
    <3> QED BY <1>7, <3>1 DEF Told
  <2>2. CASE \E k \in DOMAIN service.inbox :
               /\ Tells(service.inbox[k], e)
               /\ Silent(service.inbox, k, e.id) /\ SilentAhead(e.id)
    <3>1. PICK k \in DOMAIN s : Tells(s[k], e) /\ Silent(s, k, e.id) /\ SilentAhead(e.id)
      BY <1>2, <2>2
    <3>2. k \in DOMAIN more /\ Tells(more[k], e) /\ Silent(more, k, e.id) /\ SilentAhead(e.id)'
      BY <1>4, <1>11, <1>17, <3>1
    <3> QED BY <1>7, <3>2 DEF Told
  <2>3. CASE \E x \in Elems(todo[IPC]) : Tells(x, e) /\ SilentBehind(e.id)
    <3>1. Tells(m, e) /\ SilentBehind(e.id)
      BY <1>7, <2>3 DEF Tells, Letter
    <3>2. n \in DOMAIN more /\ Tells(more[n], e) /\ Silent(more, n, e.id) /\ SilentAhead(e.id)'
      BY <1>4, <1>11, <1>16, <3>1
    <3> QED BY <1>7, <3>2 DEF Told
  <2>4. CASE \E k \in DOMAIN tasks :
               Tells(tasks[k], e) /\ Silent(tasks, k, e.id) /\ SilentPosts(e.id)
    BY <1>1, <1>10, <2>4 DEF Told
  <2>5. CASE /\ \E x \in Elems(todo[u]) : x.do = "post" /\ Tells(x.task, e)
             /\ \A v \in Threads \ {u} : \A x \in Elems(todo[v]) : x.do = "post" => ~About(x.task, e.id)
    <3>1. u # IPC
      BY <1>7, <2>5
    <3>2. \E x \in Elems(todo'[u]) : x.do = "post" /\ Tells(x.task, e)
      BY <1>5, <2>5, <3>1
    <3>3. \A v \in Threads \ {u} : \A x \in Elems(todo'[v]) : x.do = "post" => ~About(x.task, e.id)
      BY <1>5, <1>7, <2>5
    <3> QED BY <3>2, <3>3 DEF Told
  <2> QED BY <1>19, <2>1, <2>2, <2>3, <2>4, <2>5 DEF Told
<1> QED BY <1>0, <1>1, <1>8, <1>13, <1>18, <1>19, MovedRegistry

(* What the service knows after a message.                                 *)
LEMMA ServiceKnows ==
  ASSUME ThreadInv, ServiceStep, NEW m, m = Head(service.inbox)
  PROVE  /\ \A e \in service'.registered : (e \in service.registered /\ ~Drops(m, e.id)) \/ Tells(m, e)
         /\ \A e \in service.registered : ~About(m, e.id) => e \in service'.registered
         /\ \A e : Tells(m, e) => e \in service'.registered
<1>0. Shapes
  BY DEF ThreadInv, WakeInv
<1>1. CASE m.do = "commit"
  <2>1. ServiceCommit(m)
    BY <1>1, ServiceSteps
  <2>2. PICK inbox, landed, flushed :
          service' = [service EXCEPT !.inbox = inbox, !.landed = landed, !.flushed = flushed]
    BY <2>1, Zenon DEF ServiceCommit
  <2>3. service'.registered = service.registered
    BY <1>0, <2>2 DEF Shapes
  <2> QED BY <1>1, <2>3 DEF Drops, Tells
<1>2. CASE m.do = "register"
  <2>1. PICK inbox, known :
          /\ service' = [service EXCEPT !.inbox = inbox, !.registered = known]
          /\ known = {r \in service.registered : \A x \in m.ws : x.id # r.id} \cup m.ws
    BY <1>2 DEF ServiceStep
  <2>2. service'.registered = known
    BY <1>0, <2>1 DEF Shapes
  <2> QED BY <1>2, <2>1, <2>2 DEF Drops, Tells, About
<1>3. CASE m.do = "unregister"
  <2>1. PICK inbox, known :
          /\ service' = [service EXCEPT !.inbox = inbox, !.registered = known]
          /\ known = {r \in service.registered : r.id # m.id}
    BY <1>3 DEF ServiceStep
  <2>2. service'.registered = known
    BY <1>0, <2>1 DEF Shapes
  <2> QED BY <1>3, <2>1, <2>2 DEF Drops, Tells, About
<1>4. m.do \in Endpoint
  <2>1. service.inbox # <<>> /\ IsSeq(service.inbox)
    BY <1>0 DEF Shapes, ServiceStep
  <2>2. m \in Elems(service.inbox)
    BY <2>1, TailSeq
  <2> QED BY <2>2 DEF ThreadInv, Order, Division
<1> QED BY <1>1, <1>2, <1>3, <1>4 DEF Endpoint

LEMMA ServiceStepRegistry ==
  ASSUME PatchInv, Registry, ServiceStep
  PROVE  Registry'
<1>0. /\ ThreadInv /\ Shapes /\ WriterShapes /\ Division /\ IPC \in Threads /\ IsSeq(service.inbox)
      /\ Letters /\ Withdrawn /\ IsSeq(tasks)
  BY RegistryFacts
<1>2. PICK m, s, rest, list : /\ m = Head(s) /\ s = service.inbox /\ rest = Tail(s)
                              /\ list = tasks
  OBVIOUS
<1>1. /\ s # <<>> /\ service'.inbox = rest /\ todo' = todo
      /\ arb' = arb /\ writers' = writers /\ env' = env
      /\ m.do # "commit" => tasks' = list
      /\ m.do = "commit" => ServiceCommit(m)
  BY <1>0, <1>2, ServiceSteps
<1>3. /\ m = s[1] /\ 1 \in DOMAIN s
      /\ \A k \in DOMAIN rest : k + 1 \in DOMAIN s /\ rest[k] = s[k + 1] /\ k \in Nat
      /\ \A k \in DOMAIN s : k # 1 => k - 1 \in DOMAIN rest /\ s[k] = rest[k - 1]
  BY <1>0, <1>1, <1>2, TailSeq
<1>4. /\ \A e \in service'.registered : (e \in service.registered /\ ~Drops(m, e.id)) \/ Tells(m, e)
      /\ \A e \in service.registered : ~About(m, e.id) => e \in service'.registered
      /\ \A e : Tells(m, e) => e \in service'.registered
  BY <1>0, <1>2, ServiceKnows, SMTT(30)
<1>5. PICK c : /\ tasks' = list \/ tasks' = Append(list, c)
               /\ c.do = "callback"
  <2>2. Callback(m.cbs).do = "callback"
    BY DEF Callback
  <2>1. PICK c : c = Callback(m.cbs) /\ c.do = "callback"
    BY <2>2
  <2> QED BY <1>1, <1>2, <2>1 DEF ServiceCommit
<1>6. \A i : ~About(c, i) /\ ~Drops(c, i) /\ \A e : ~Tells(c, e)
  BY <1>5 DEF About, Drops, Tells
<1>7. /\ \A k \in DOMAIN list : k \in DOMAIN tasks' /\ tasks'[k] = list[k] /\ k \in 0 .. Len(list) /\ k \in Int
      /\ \A k \in DOMAIN tasks' : k \in DOMAIN list \/ tasks'[k] = c
      /\ 0 \in 0 .. Len(list) /\ 0 \in Int
      /\ \A x \in Elems(tasks') : x \in Elems(tasks) \/ x = c
  <2>1. CASE tasks' = list
    <3>1. DOMAIN list = 1 .. Len(list) /\ Len(list) \in Nat
      BY <1>0, <1>2, AppendSeq
    <3> QED BY <1>2, <2>1, <3>1
  <2>2. CASE tasks' = Append(list, c)
    BY <1>0, <1>2, <2>2, AppendSeq
  <2> QED BY <1>5, <2>1, <2>2
<1>8. \A i : /\ \A k \in 0 .. Len(list) : Later(list, k, i) => Later(tasks', k, i)
             /\ \A k \in Int : Silent(list, k, i) => Silent(tasks', k, i)
  <2>1. CASE tasks' = list
    BY <2>1
  <2>2. CASE tasks' = Append(list, c)
    BY <1>0, <1>2, <1>6, <2>2, MailAppend
  <2> QED BY <1>5, <2>1, <2>2
<1>9. Letters'
  <2>1. \A x \in Elems(tasks') : x.do = "unregister" => x = Unregister(x.id)
    BY <1>0, <1>5, <1>7 DEF Letters
  <2> QED BY <1>0, <1>1, <2>1 DEF Letters, Rest
<1>10. \A i : (DropPosted(i)' <=> DropPosted(i)) /\ (SilentPosts(i)' <=> SilentPosts(i))
  BY <1>1 DEF DropPosted, SilentPosts
<1>11. \A i : DropBehind(i) => DropBehind(i)'
  BY <1>2, <1>7, <1>8, <1>10 DEF DropBehind
<1>12. \A i : DropAhead(i) => DropAhead(i)'
  BY <1>1, <1>11 DEF DropAhead
<1>13. \A i : SilentBehind(i) => SilentBehind(i)'
  BY <1>2, <1>7, <1>8, <1>10 DEF SilentBehind
<1>14. \A i : SilentAhead(i) => SilentAhead(i)'
  BY <1>1, <1>13 DEF SilentAhead
<1>15. \A i : /\ \A k \in DOMAIN s : /\ Later(s, k, i) => Later(rest, k - 1, i)
                                     /\ Silent(s, k, i) => Silent(rest, k - 1, i)
              /\ Later(s, 0, i) => Drops(m, i) \/ Later(rest, 0, i)
              /\ Silent(s, 0, i) => ~About(m, i) /\ Silent(rest, 0, i)
  BY <1>0, <1>1, <1>2, MailTail
<1>16. ASSUME \A e : Owned(e)' = Owned(e) /\ \A w : OwnedBy(e, w)' = OwnedBy(e, w)
       PROVE  Withdrawn'
  <2>1. ASSUME NEW e \in service'.registered
        PROVE  Owned(e)' \/ Later(service'.inbox, 0, e.id) \/ DropAhead(e.id)'
    <3>1. CASE e \in service.registered /\ ~Drops(m, e.id)
      <4>1. Owned(e) \/ Later(s, 0, e.id) \/ DropAhead(e.id)
        BY <1>0, <1>2, <3>1 DEF Withdrawn
      <4> QED BY <1>1, <1>12, <1>15, <1>16, <3>1, <4>1
    <3>2. CASE Tells(m, e)
      <4>1. Owned(e) \/ Later(s, 1, e.id) \/ DropAhead(e.id)
        BY <1>0, <1>2, <1>3, <3>2 DEF Withdrawn
      <4>2. Later(s, 1, e.id) => Later(rest, 0, e.id)
        BY <1>3, <1>15
      <4> QED BY <1>1, <1>12, <1>16, <4>1, <4>2
    <3> QED BY <1>4, <2>1, <3>1, <3>2
  <2>2. ASSUME NEW k \in DOMAIN service'.inbox, NEW e, Tells(service'.inbox[k], e)
        PROVE  Owned(e)' \/ Later(service'.inbox, k, e.id) \/ DropAhead(e.id)'
    <3>1. k + 1 \in DOMAIN s /\ rest[k] = s[k + 1] /\ k \in Nat
      BY <1>1, <1>3, <2>2
    <3>2. PICK l : l = k + 1 /\ l - 1 = k
      BY <3>1
    <3>3. Owned(e) \/ Later(s, l, e.id) \/ DropAhead(e.id)
      BY <1>0, <1>1, <1>2, <2>2, <3>1, <3>2 DEF Withdrawn
    <3>4. Later(s, l, e.id) => Later(rest, k, e.id)
      BY <1>15, <3>1, <3>2
    <3> QED BY <1>1, <1>12, <1>16, <3>3, <3>4
  <2>3. \A x \in Elems(todo'[IPC]) : \A e : Tells(x, e) => Owned(e)' \/ DropBehind(e.id)'
    BY <1>0, <1>1, <1>11, <1>16 DEF Withdrawn
  <2>4. ASSUME NEW k \in DOMAIN tasks', NEW e, Tells(tasks'[k], e)
        PROVE  Owned(e)' \/ Later(tasks', k, e.id) \/ DropPosted(e.id)'
    <3>1. k \in DOMAIN list /\ Tells(list[k], e)
      BY <1>6, <1>7, <2>4
    <3>2. Owned(e) \/ Later(list, k, e.id) \/ DropPosted(e.id)
      BY <1>0, <1>2, <3>1 DEF Withdrawn
    <3> QED BY <1>7, <1>8, <1>10, <1>16, <3>1, <3>2
  <2>5. \A t \in Threads : \A x \in Elems(todo'[t]) : \A e : x.do = "post" /\ Tells(x.task, e)
          => \E w \in DOMAIN writers' : OwnedBy(e, w)' /\ writers'[w].thread = t
    BY <1>0, <1>1, <1>16 DEF Withdrawn
  <2> QED BY <2>1, <2>2, <2>3, <2>4, <2>5 DEF Withdrawn
<1>17. ASSUME NEW e, NEW t \in Threads, Told(e, t) PROVE Told(e, t)'
  <2>1. CASE /\ e \in service.registered
             /\ Silent(service.inbox, 0, e.id) /\ SilentAhead(e.id)
    <3>1. e \in service'.registered /\ Silent(rest, 0, e.id) /\ SilentAhead(e.id)'
      BY <1>2, <1>4, <1>14, <1>15, <2>1
    <3> QED BY <1>1, <3>1 DEF Told
  <2>2. CASE \E k \in DOMAIN service.inbox :
               /\ Tells(service.inbox[k], e)
               /\ Silent(service.inbox, k, e.id) /\ SilentAhead(e.id)
    <3>1. PICK k \in DOMAIN s : Tells(s[k], e) /\ Silent(s, k, e.id) /\ SilentAhead(e.id)
      BY <1>2, <2>2
    <3>2. CASE k = 1
      <4>1. e \in service'.registered /\ Silent(rest, 0, e.id) /\ SilentAhead(e.id)'
        BY <1>3, <1>4, <1>14, <1>15, <3>1, <3>2
      <4> QED BY <1>1, <4>1 DEF Told
    <3>3. CASE k # 1
      <4>1. PICK l : l = k - 1 /\ l \in DOMAIN rest /\ s[k] = rest[l]
        BY <1>3, <3>3
      <4>2. l \in DOMAIN rest /\ Tells(rest[l], e) /\ Silent(rest, l, e.id) /\ SilentAhead(e.id)'
        BY <1>14, <1>15, <3>1, <4>1
      <4> QED BY <1>1, <4>2 DEF Told
    <3> QED BY <3>2, <3>3
  <2>3. CASE \E x \in Elems(todo[IPC]) : Tells(x, e) /\ SilentBehind(e.id)
    BY <1>1, <1>13, <2>3 DEF Told
  <2>4. CASE \E k \in DOMAIN tasks :
               Tells(tasks[k], e) /\ Silent(tasks, k, e.id) /\ SilentPosts(e.id)
    <3>1. PICK k \in DOMAIN list : Tells(list[k], e) /\ Silent(list, k, e.id) /\ SilentPosts(e.id)
      BY <1>2, <2>4
    <3>2. k \in DOMAIN tasks' /\ Tells(tasks'[k], e) /\ Silent(tasks', k, e.id) /\ SilentPosts(e.id)'
      BY <1>7, <1>8, <1>10, <3>1
    <3> QED BY <3>2 DEF Told
  <2>5. CASE /\ \E x \in Elems(todo[t]) : x.do = "post" /\ Tells(x.task, e)
             /\ \A v \in Threads \ {t} : \A x \in Elems(todo[v]) : x.do = "post" => ~About(x.task, e.id)
    BY <1>1, <2>5 DEF Told
  <2> QED BY <1>17, <2>1, <2>2, <2>3, <2>4, <2>5 DEF Told
<1> QED BY <1>0, <1>1, <1>9, <1>13, <1>16, <1>17, MovedRegistry

(* The buffer of a writer is known to a bound arbiter only, and a writer   *)
(* whose buffer is known waits for no bind.                                *)
LEMMA KnownBuffer ==
  ASSUME PatchInv, Registry, NEW w \in DOMAIN writers, Live(w), BufferOf(writers[w].target) \in Buffers
  PROVE  arb.bound /\ \A p \in arb.pending : p.id # writers[w].id
<1>0. /\ WriterShapes /\ Distinct /\ AlwaysBound /\ Awaited /\ Known
  BY RegistryFacts
<1>1. arb.bound
  BY <1>0 DEF Known, BufferOf, IsReservation
<1>2. ASSUME NEW p \in arb.pending, p.id = writers[w].id PROVE FALSE
  <2>1. PICK v \in DOMAIN writers : Live(v) /\ writers[v].id = p.id /\ writers[v].target = p.target
    BY <1>0, <1>2 DEF Awaited
  <2>2. v = w
    BY <1>0, <1>2, <2>1 DEF Distinct
  <2>3. writers[w].target \in Reservations /\ arb.reservations[writers[w].target] = Unresolved
    BY <1>0, <1>2, <2>1, <2>2 DEF AlwaysBound
  <2>4. Unresolved \notin Buffers
    BY ArbiterConstants DEF Unresolved
  <2> QED BY <2>3, <2>4 DEF BufferOf, IsReservation
<1> QED BY <1>1, <1>2

LEMMA UnregisterKind ==
  ASSUME NEW i
  PROVE  /\ Post(Unregister(i)).do = "post" /\ Post(Unregister(i)).task = Unregister(i)
         /\ Unregister(i).do = "unregister" /\ Unregister(i).id = i
         /\ \A j : Drops(Unregister(i), j) <=> j = i
         /\ \A j : About(Unregister(i), j) <=> j = i
         /\ \A e : ~Tells(Unregister(i), e)
<1>1. Unregister(i).do = "unregister" /\ Unregister(i).id = i
  BY DEF Unregister
<1>2. PICK x : x = Unregister(i)
  OBVIOUS
<1>3. Post(x).do = "post" /\ Post(x).task = x
  BY PostKind
<1> QED BY <1>1, <1>2, <1>3 DEF Drops, About, Tells

LEMMA ReleaseWriterIDRegistry ==
  ASSUME PatchInv, Registry, NEW t \in Threads, ReleaseWriterID(t)
  PROVE  Registry'
<1>0. /\ Shapes /\ WriterShapes /\ Occupied /\ Distinct /\ AlwaysBound /\ IPC \in Threads
      /\ Letters /\ Withdrawn /\ Reached /\ Awaited /\ Known
      /\ todo[t] # <<>> /\ Now(t).do = "release" /\ service' = service
      /\ env' = env /\ tasks' = tasks
  BY RegistryFacts, SMTT(30) DEF ReleaseWriterID, AtStep, Now
<1>1. PICK x : x = Now(t)
  OBVIOUS
<1>2. PICK w, id, mine :
        /\ w = x.w /\ id = writers[w].id /\ mine = {p \in arb.pending : p.id = id}
        /\ arb' = [arb EXCEPT !.ids = @ \ {id}, !.pending = @ \ mine]
        /\ todo' = [todo EXCEPT ![t] =
             (IF mine # {} \/ ~arb.bound THEN <<>> ELSE <<Post(Unregister(id))>>) \o Tail(todo[t])]
        /\ writers' = [writers EXCEPT ![w].live = FALSE]
  BY <1>1 DEF ReleaseWriterID, Then
<1>3. x \in Elems(todo[t]) /\ x.do = "release"
  BY <1>0, <1>1, TailSeq DEF Shapes, Now
<1>4. w \in DOMAIN writers /\ writers[w].thread = t /\ writers[w].live = TRUE
  BY <1>0, <1>2, <1>3 DEF Occupied, BusyWith, Busy
<1>5. PICK c, first : /\ c = (mine # {} \/ ~arb.bound)
                      /\ first = IF c THEN <<>> ELSE <<Post(Unregister(id))>>
  OBVIOUS
<1>6. PICK y : /\ y = Post(Unregister(id)) /\ y.do = "post" /\ y.task = Unregister(id)
               /\ y.task.do = "unregister" /\ y.task.id = id
  BY UnregisterKind
<1>7. /\ \A j : Drops(y.task, j) <=> j = id
      /\ \A j : About(y.task, j) <=> j = id
      /\ \A e : ~Tells(y.task, e) /\ ~Tells(y, e)
      /\ WellFormed(y)
  BY <1>6, UnregisterKind DEF WellFormed, Tells
<1>8. /\ IsSeq(first) /\ Elems(first) \subseteq {y} /\ (~c => Elems(first) = {y})
      /\ first = <<>> \/ first = <<y>>
  BY <1>5, <1>6, ShortSeqs
<1>9. Goes(t, first)
  <2>1. todo' = [todo EXCEPT ![t] = first \o Tail(todo[t])]
    BY <1>2, <1>5
  <2> QED BY <1>0, <1>8, <2>1, ThenGoes
<1>10. KeptMail /\ \A u \in Threads : \A z \in Elems(todo'[u]) :
              z \in Elems(todo[u]) \/ (u = t /\ z = y)
  <2>1. ~Mail(Now(t))
    BY <1>0 DEF Mail, Speaks
  <2> QED BY <1>0, <1>8, <1>9, <2>1, GoesMail
<1>11. Letters'
  <2>1. (\A z \in Elems(first) : z.do \notin Letter) \/ \E z : first = <<z>> /\ WellFormed(z)
    <3>1. first = <<>> => Elems(first) = {}
      BY ShortSeqs
    <3> QED BY <1>7, <1>8, <3>1
  <2> QED BY <1>0, <1>9, <2>1, PlainLetters, LettersStep
<1>12. /\ DOMAIN writers' = DOMAIN writers /\ writers'[w].live = FALSE
       /\ writers'[w].target = writers[w].target
       /\ \A v \in DOMAIN writers : v # w => writers'[v] = writers[v]
  BY <1>0, <1>2, <1>4 DEF WriterShapes
<1>13. /\ arb'.pending = arb.pending \ mine /\ arb'.reservations = arb.reservations
       /\ arb'.bound = arb.bound
  BY <1>0, <1>2 DEF Shapes
<1>14. \A v \in DOMAIN writers : v # w => SameWriter(v)
  BY <1>12 DEF SameWriter
<1>15. SettledKept
  BY <1>13 DEF SettledKept
<1>16. \A v \in DOMAIN writers : v # w => \A e : OwnedBy(e, v) => OwnedBy(e, v)'
  BY <1>0, <1>14, <1>15, OwnedKept
<1>17. \A i : i # id => Unnamed(i)
  <2>1. \A i : i # id => ~Names(y, i)
    <3>1. \A i : ~About(y, i)
      BY <1>6, MailKinds DEF Speaks
    <3> QED BY <1>7, <3>1 DEF Names
  <2> QED BY <1>10, <2>1 DEF Unnamed
<1>18. ASSUME NEW e, Owned(e) PROVE Owned(e)' \/ DropPosted(e.id)'
  <2>1. PICK v \in DOMAIN writers : OwnedBy(e, v)
    BY <1>18 DEF Owned
  <2>2. CASE v # w
    BY <1>12, <1>16, <2>1, <2>2 DEF Owned
  <2>3. CASE v = w
    <3>1. e.id = id /\ Live(w) /\ BufferOf(writers[w].target) \in Buffers
      BY <1>2, <2>1, <2>3 DEF OwnedBy
    <3>2. arb.bound /\ mine = {}
      BY <1>2, <1>4, <3>1, KnownBuffer
    <3>3. y \in Elems(first)
      BY <1>5, <1>8, <3>2
    <3>4. y \in Elems(todo'[t])
      BY <1>0, <1>9, <3>3, GoesFacts
    <3> QED BY <1>6, <1>7, <3>1, <3>4 DEF DropPosted
  <2> QED BY <2>2, <2>3
<1>19. Withdrawn'
  <2>1. \A z \in Elems(todo'[IPC]) : \A e : Tells(z, e) => z \in Elems(todo[IPC]) \/ Owned(e)'
    BY <1>0, <1>7, <1>10
  <2>2. ASSUME NEW u \in Threads, NEW z \in Elems(todo'[u]), NEW e, z.do = "post", Tells(z.task, e)
        PROVE  \E v \in DOMAIN writers' : OwnedBy(e, v)' /\ writers'[v].thread = u
    <3>1. z \in Elems(todo[u])
      BY <1>7, <1>10, <2>2
    <3>2. PICK v \in DOMAIN writers : OwnedBy(e, v) /\ writers[v].thread = u
      BY <1>0, <2>2, <3>1 DEF Withdrawn
    <3>3. v # w
      <4>1. SUFFICES ASSUME u = t PROVE FALSE
        BY <1>4, <3>2
      <4>2. Elems(todo[t]) = {Now(t)} \cup Elems(Rest(t))
        BY <1>0, <1>9, GoesFacts
      <4> QED BY <1>0, <2>2, <3>1, <4>1, <4>2 DEF Letters
    <3> QED BY <1>12, <1>16, <3>2, <3>3
  <2> QED BY <1>0, <1>10, <1>18, <2>1, <2>2, WithdrawnStep
<1>20. ASSUME NEW v \in DOMAIN writers', Live(v)'
       PROVE  v \in DOMAIN writers /\ v # w /\ Live(v) /\ writers[v].id # id /\ writers'[v] = writers[v]
  <2>1. v \in DOMAIN writers /\ v # w /\ writers'[v] = writers[v]
    BY <1>12, <1>20 DEF Live
  <2>2. Live(v) /\ Live(w)
    BY <1>4, <1>20, <2>1 DEF Live
  <2> QED BY <1>0, <1>2, <1>4, <2>1, <2>2 DEF Distinct
<1>21. Reached'
  <2>1. SUFFICES ASSUME NEW v \in DOMAIN writers',
                        (Live(v) /\ BufferOf(writers[v].target) \in Buffers)',
                        writers'[v].id \notin env'.overtaken
                 PROVE  Told(EntryFor(v), writers[v].thread)'
    BY DEF Reached
  <2>2. v \in DOMAIN writers /\ v # w /\ Live(v) /\ writers[v].id # id /\ writers'[v] = writers[v]
    BY <1>20, <2>1
  <2>3. /\ BufferOf(writers[v].target) \in Buffers
        /\ writers[v].id \notin env.overtaken /\ EntryFor(v)' = EntryFor(v)
        /\ EntryFor(v).id = writers[v].id
    BY <1>0, <1>13, <2>1, <2>2 DEF BufferOf, EntryFor
  <2>4. PICK e, u : e = EntryFor(v) /\ u = writers[v].thread
    OBVIOUS
  <2>5. Told(e, u) /\ u \in Threads /\ e.id # id
    BY <1>0, <2>2, <2>3, <2>4 DEF Reached, WriterShapes
  <2>6. Told(e, u)'
    BY <1>0, <1>10, <1>17, <2>5, ToldKept
  <2> QED BY <2>2, <2>3, <2>4, <2>6
<1>22. Awaited'
  <2>1. \A v \in DOMAIN writers' :
          /\ Live(v)' /\ writers'[v].target \in Reservations
          /\ arb'.reservations[writers'[v].target] = Unresolved
          => [id |-> writers'[v].id, target |-> writers'[v].target] \in arb'.pending
    <3>1. SUFFICES ASSUME NEW v \in DOMAIN writers', Live(v)', writers'[v].target \in Reservations,
                          arb'.reservations[writers'[v].target] = Unresolved
                   PROVE  [id |-> writers'[v].id, target |-> writers'[v].target] \in arb'.pending
      OBVIOUS
    <3>2. /\ v \in DOMAIN writers /\ Live(v) /\ writers[v].id # id /\ writers'[v] = writers[v]
      BY <1>20, <3>1
    <3>3. PICK p : p = [id |-> writers[v].id, target |-> writers[v].target]
      OBVIOUS
    <3>4. p \in arb.pending /\ p.id # id
      BY <1>0, <1>13, <3>1, <3>2, <3>3 DEF Awaited
    <3> QED BY <1>2, <1>13, <3>2, <3>3, <3>4
  <2>2. ASSUME NEW p \in arb'.pending
        PROVE  /\ p = [id |-> p.id, target |-> p.target]
               /\ \E v \in DOMAIN writers' : Live(v)' /\ writers'[v].id = p.id /\ writers'[v].target = p.target
               /\ p.id \notin env'.overtaken => SilentBehind(p.id)'
    <3>1. p \in arb.pending /\ p.id # id
      BY <1>2, <1>13, <2>2
    <3>2. PICK v \in DOMAIN writers : Live(v) /\ writers[v].id = p.id /\ writers[v].target = p.target
      BY <1>0, <3>1 DEF Awaited
    <3>3. v \in DOMAIN writers' /\ Live(v)' /\ writers'[v].id = p.id /\ writers'[v].target = p.target
      BY <1>2, <1>12, <3>1, <3>2 DEF Live
    <3>4. SilentBehind(p.id) => SilentBehind(p.id)'
      BY <1>0, <1>17, <3>1, AwaitedKept
    <3> QED BY <1>0, <3>1, <3>3, <3>4 DEF Awaited
  <2> QED BY <2>1, <2>2 DEF Awaited
<1>23. Known'
  <2>1. \A v \in DOMAIN writers' : v \in DOMAIN writers /\ writers'[v].target = writers[v].target
    BY <1>12
  <2> QED BY <1>0, <1>13, <2>1 DEF Known
<1> QED BY <1>11, <1>19, <1>21, <1>22, <1>23, SMTT(30) DEF Registry

(* No message is about an id that is free, unless it may be overtaken.     *)
LEMMA FreshSilence ==
  ASSUME PatchInv, Registry, NEW id, id \notin arb.ids, NEW startup \in BOOLEAN,
         ~MayBeOvertaken(id, startup)
  PROVE  SilentPosts(id) /\ (startup => SilentBehind(id))
<1>0. Distinct /\ Letters /\ Withdrawn
  BY RegistryFacts
<1>1. \A e : e.id = id => ~Owned(e) /\ \A w \in DOMAIN writers : ~OwnedBy(e, w)
  BY <1>0 DEF Distinct, Owned, OwnedBy, Live
<1>2. ~DropPosted(id)
  <2>1. SUFFICES ASSUME NEW t \in Threads, NEW x \in Elems(todo[t]), x.do = "post", Drops(x.task, id)
                 PROVE  FALSE
    BY DEF DropPosted
  <2>2. x = Post(x.task) /\ x.task = Unregister(id)
    BY <1>0, <2>1 DEF Letters, Drops
  <2>3. PICK i \in DOMAIN todo[t] : todo[t][i] = x
    BY DEF Elems
  <2> QED BY <2>2, <2>3 DEF MayBeOvertaken
<1>3. SilentPosts(id)
  <2>1. SUFFICES ASSUME NEW t \in Threads, NEW x \in Elems(todo[t]), x.do = "post", About(x.task, id)
                 PROVE  FALSE
    BY DEF SilentPosts
  <2>2. ~Drops(x.task, id)
    BY <1>2, <2>1 DEF DropPosted
  <2>3. PICK e : Tells(x.task, e) /\ e.id = id
    BY <2>1, <2>2 DEF About
  <2> QED BY <1>0, <1>1, <2>1, <2>3 DEF Withdrawn
<1>4. ASSUME startup PROVE Silent(tasks, 0, id)
  <2>1. ASSUME NEW k \in DOMAIN tasks PROVE ~Drops(tasks[k], id)
    <3>1. SUFFICES ASSUME Drops(tasks[k], id) PROVE FALSE
      OBVIOUS
    <3>2. tasks[k] \in Elems(tasks)
      BY DEF Elems
    <3>3. tasks[k] = Unregister(id)
      BY <1>0, <3>1, <3>2 DEF Letters, Drops
    <3> QED BY <1>4, <3>3 DEF MayBeOvertaken
  <2>2. ASSUME NEW k \in DOMAIN tasks, NEW e, Tells(tasks[k], e), e.id = id PROVE FALSE
    <3>1. Later(tasks, k, id)
      BY <1>0, <1>1, <1>2, <2>2 DEF Withdrawn
    <3> QED BY <2>1, <3>1 DEF Later
  <2> QED BY <2>1, <2>2 DEF Silent, About
<1> QED BY <1>3, <1>4 DEF SilentBehind

LEMMA RegisterKind ==
  ASSUME NEW ws
  PROVE  /\ Register(ws).do = "register" /\ Register(ws).ws = ws
         /\ Post(Register(ws)).do = "post" /\ Post(Register(ws)).task = Register(ws)
         /\ \A e : Tells(Register(ws), e) <=> e \in ws
         /\ \A i : About(Register(ws), i) <=> \E e \in ws : e.id = i
<1>1. Register(ws).do = "register" /\ Register(ws).ws = ws
  BY DEF Register
<1>2. PICK x : x = Register(ws)
  OBVIOUS
<1>3. Post(x).do = "post" /\ Post(x).task = x
  BY PostKind
<1> QED BY <1>1, <1>2, <1>3 DEF Drops, About, Tells

(* The target of a new writer, and what a new writer changes.              *)
LEMMA TargetForFacts ==
  ASSUME PatchInv, Registry, NEW b \in Buffers \cup Reservations, b \in Buffers => arb.bound,
         NEW target, target = TargetFor(b)
  PROVE  /\ target \in Reservations => arb.reservations[target] \in {Absent, Unresolved}
         /\ target \notin Reservations => target \in Ids
         /\ target \in Buffers => arb.bound
<1>0. WriterShapes /\ Known
  BY RegistryFacts
<1>1. Ids \cap Reservations = {} /\ Absent \notin Ids /\ Unresolved \notin Ids
  BY ArbiterConstants DEF Ids, kInvalidBufferId, Absent, Unresolved
<1>2. CASE b \in Reservations /\ arb.reservations[b] \notin {Absent, Unresolved}
  <2>1. target = arb.reservations[b] /\ target \in Ids
    BY <1>0, <1>2 DEF TargetFor, IsReservation, WriterShapes
  <2> QED BY <1>0, <1>1, <1>2, <2>1 DEF Known
<1>3. CASE ~(b \in Reservations /\ arb.reservations[b] \notin {Absent, Unresolved})
  <2>1. target = b
    BY <1>3 DEF TargetFor, IsReservation
  <2> QED BY <1>1, <1>3, <2>1 DEF Ids
<1> QED BY <1>2, <1>3

LEMMA CreateTraceWriterRegistry ==
  ASSUME PatchInv, Registry, NEW t \in Threads, NEW b \in Buffers \cup Reservations,
         CreateTraceWriter(t, b)
  PROVE  Registry'
<1>0. /\ ThreadInv /\ Shapes /\ WriterShapes /\ Distinct /\ AlwaysBound /\ Binding /\ IPC \in Threads
      /\ Letters /\ Withdrawn /\ Reached /\ Awaited /\ Known
      /\ todo[t] = <<>> /\ service' = service /\ tasks' = tasks
  BY RegistryFacts DEF CreateTraceWriter, Idle
<1>1. PICK id, target, startup, entry :
        /\ id = Allocate /\ target = TargetFor(b) /\ startup = (target \in Reservations)
        /\ entry = [id |-> id, target |-> target]
  OBVIOUS
<1>2. PICK new : /\ writers' = Append(writers, new)
                 /\ new = [thread |-> t, id |-> id, target |-> target, live |-> TRUE, cur |-> FALSE,
                           n |-> 0, returned |-> 0, patches |-> <<>>]
  BY <1>1 DEF CreateTraceWriter
<1>3. PICK ids, last, full, always, pending, res :
        /\ arb' = [arb EXCEPT !.ids = ids, !.last_id = last, !.pending = pending,
                              !.reservations = res, !.fully_bound = full,
                              !.was_always_bound = always]
        /\ pending = IF startup THEN arb.pending \cup {entry} ELSE arb.pending
        /\ res = IF startup THEN [arb.reservations EXCEPT ![target] = Unresolved]
                 ELSE arb.reservations
  <2>1. PICK pending, res :
          /\ pending = IF startup THEN arb.pending \cup {entry} ELSE arb.pending
          /\ res = IF startup THEN [arb.reservations EXCEPT ![target] = Unresolved]
                   ELSE arb.reservations
    OBVIOUS
  <2>2. arb' = [arb EXCEPT !.ids = arb.ids \cup {id}, !.last_id = id, !.pending = pending,
                              !.reservations = res, !.fully_bound = arb.fully_bound /\ ~startup,
                              !.was_always_bound = arb.was_always_bound /\ ~startup]
    BY <1>1, <2>1, Zenon DEF CreateTraceWriter, IsReservation
  <2> QED BY <2>1, <2>2
<1>4. PICK overtaken :
        /\ env' = [env EXCEPT !.overtaken = overtaken]
        /\ overtaken = IF MayBeOvertaken(id, startup) THEN env.overtaken \cup {id} ELSE env.overtaken
  BY <1>1, Zenon DEF CreateTraceWriter, IsReservation
<1>5. PICK first : /\ first = IF startup \/ target = kInvalidBufferId THEN <<>>
                              ELSE <<Post(Register({entry}))>>
                   /\ todo' = [todo EXCEPT ![t] = first]
  BY <1>1 DEF CreateTraceWriter, Start, IsReservation
<1>6. id \notin arb.ids
  <2>1. Allocate # 0
    BY DEF CreateTraceWriter
  <2> QED BY <1>0, <1>1, <2>1, AllocateFacts DEF Distinct
<1>7. /\ target \in Reservations => arb.reservations[target] \in {Absent, Unresolved}
      /\ target \notin Reservations => target \in Ids
      /\ target \in Buffers => arb.bound
  <2>1. b \in Buffers => arb.bound
    BY DEF CreateTraceWriter
  <2> QED BY <1>1, <2>1, TargetForFacts
<1>8. /\ new.thread = t /\ new.id = id /\ new.target = target /\ new.live = TRUE
      /\ entry.id = id /\ entry.target = target
  BY <1>1, <1>2
<1>9. PICK N : /\ N = Len(writers) + 1 /\ N \in DOMAIN writers' /\ writers'[N] = new
               /\ \A v \in DOMAIN writers : v \in DOMAIN writers' /\ writers'[v] = writers[v]
               /\ \A v \in DOMAIN writers' : v \in DOMAIN writers \/ v = N
  BY <1>0, <1>2, AppendSeq DEF WriterShapes
<1>10. /\ arb'.pending = pending /\ arb'.reservations = res /\ arb'.bound = arb.bound
       /\ env'.overtaken = overtaken
  BY <1>0, <1>3, <1>4 DEF Shapes, WriterShapes
<1>11. \A r \in Reservations : \/ res[r] = arb.reservations[r]
                               \/ startup /\ r = target /\ res[r] = Unresolved
  BY <1>0, <1>3 DEF WriterShapes
<1>12. SettledKept
  BY <1>0, CreateBinding
<1>13. \A v \in DOMAIN writers : SameWriter(v) /\ \A e : OwnedBy(e, v) => OwnedBy(e, v)'
  <2>1. \A v \in DOMAIN writers : SameWriter(v)
    BY <1>9 DEF SameWriter
  <2> QED BY <1>0, <1>12, <2>1, OwnedKept
<1>14. PICK y : /\ y = Post(Register({entry})) /\ y.do = "post" /\ y.task.do = "register"
                /\ \A e : Tells(y.task, e) <=> e = entry
                /\ \A i : About(y.task, i) <=> i = id
  BY <1>8, RegisterKind
<1>15. /\ IsSeq(first) /\ Elems(first) \subseteq {y} /\ (first = <<>> \/ first = <<y>>)
       /\ ~startup /\ target # kInvalidBufferId => y \in Elems(first)
       /\ startup \/ target = kInvalidBufferId => Elems(first) = {}
  BY <1>5, <1>14, ShortSeqs
<1>16. Goes(t, first)
  BY <1>0, <1>5, <1>15, StartGoes
<1>17. /\ KeptMail
       /\ \A u \in Threads : \A x \in Elems(todo'[u]) :
            x \in Elems(todo[u]) \/ (u = t /\ x = y /\ x \in Elems(first))
       /\ \A u \in Threads \ {t} : todo'[u] = todo[u]
       /\ \A x \in Elems(first) : x \in Elems(todo'[t])
  BY <1>0, <1>15, <1>16, GoesMail, GoesFacts
<1>18. Unresolved \notin Buffers /\ startup \in BOOLEAN
  BY <1>1, ArbiterConstants DEF Unresolved
<1>26. /\ startup => target \in Reservations /\ entry \in pending
       /\ target \in Reservations => startup
       /\ \A p \in arb.pending : p \in pending
       /\ \A p \in pending : p \in arb.pending \/ (p = entry /\ startup)
       /\ startup => res[target] = Unresolved
  BY <1>0, <1>1, <1>3, <1>18 DEF WriterShapes
<1>27. id \notin overtaken => ~MayBeOvertaken(id, startup)
  BY <1>4, Zenon
<1>19. Letters'
  <2>1. WellFormed(y)
    BY <1>14, PostKind DEF WellFormed
  <2>2. (\A x \in Elems(first) : x.do \notin Letter) \/ \E x : first = <<x>> /\ WellFormed(x)
    <3>1. first = <<>> => Elems(first) = {}
      BY ShortSeqs
    <3> QED BY <1>15, <2>1, <3>1
  <2> QED BY <1>0, <1>16, <2>2, PlainLetters, LettersStep
<1>20. \A i : i # id => Unnamed(i)
  <2>1. \A i : i # id => ~Names(y, i)
    <3>1. \A i : ~About(y, i)
      BY <1>14, MailKinds DEF Speaks
    <3> QED BY <1>14, <3>1 DEF Names
  <2> QED BY <1>17, <2>1 DEF Unnamed
<1>21. ~startup /\ target # kInvalidBufferId => OwnedBy(entry, N)' /\ writers'[N].thread = t
  BY <1>1, <1>7, <1>8, <1>9 DEF OwnedBy, Live, BufferOf, IsReservation, Ids
<1>22. Withdrawn'
  <2>1. \A e : Owned(e) => Owned(e)'
    BY <1>9, <1>13 DEF Owned
  <2>2. \A x \in Elems(todo'[IPC]) : \A e : Tells(x, e) => x \in Elems(todo[IPC]) \/ Owned(e)'
    BY <1>0, <1>14, <1>17 DEF Tells
  <2>3. ASSUME NEW u \in Threads, NEW x \in Elems(todo'[u]), NEW e, x.do = "post", Tells(x.task, e)
        PROVE  \E v \in DOMAIN writers' : OwnedBy(e, v)' /\ writers'[v].thread = u
    <3>1. CASE x \in Elems(todo[u])
      <4>1. PICK v \in DOMAIN writers : OwnedBy(e, v) /\ writers[v].thread = u
        BY <1>0, <2>3, <3>1 DEF Withdrawn
      <4> QED BY <1>9, <1>13, <4>1
    <3>2. CASE u = t /\ x = y /\ x \in Elems(first)
      BY <1>9, <1>14, <1>15, <1>21, <2>3, <3>2
    <3> QED BY <1>17, <2>3, <3>1, <3>2
  <2> QED BY <1>0, <1>17, <2>1, <2>2, <2>3, WithdrawnStep
<1>23. Reached'
  <2>1. SUFFICES ASSUME NEW v \in DOMAIN writers',
                        (Live(v) /\ BufferOf(writers[v].target) \in Buffers)',
                        writers'[v].id \notin env'.overtaken
                 PROVE  Told(EntryFor(v), writers[v].thread)'
    BY DEF Reached
  <2>2. CASE v \in DOMAIN writers
    <3>1. /\ Live(v) /\ BufferOf(writers[v].target) \in Buffers /\ EntryFor(v)' = EntryFor(v)
      <4>1. writers'[v] = writers[v]
        BY <1>9, <2>2
      <4>2. BufferOf(writers[v].target)' = BufferOf(writers[v].target)
        BY <1>10, <1>11, <1>18, <2>1, <4>1 DEF BufferOf, IsReservation
      <4> QED BY <2>1, <4>1, <4>2 DEF Live, EntryFor
    <3>2. writers[v].id \notin env.overtaken /\ writers'[v] = writers[v]
      BY <1>4, <1>9, <1>10, <2>1, <2>2
    <3>3. PICK e, u : e = EntryFor(v) /\ u = writers[v].thread
      OBVIOUS
    <3>4. Told(e, u) /\ u \in Threads /\ e.id = writers[v].id
      BY <1>0, <2>2, <3>1, <3>2, <3>3 DEF Reached, WriterShapes, EntryFor
    <3>5. e.id # id
      BY <1>0, <1>6, <2>2, <3>1, <3>4 DEF Distinct, Live
    <3>6. Told(e, u)'
      BY <1>0, <1>17, <1>20, <3>4, <3>5, ToldKept
    <3> QED BY <3>1, <3>2, <3>3, <3>6
  <2>3. CASE v = N
    <3>1. ~startup /\ target \in Buffers
      BY <1>8, <1>9, <1>10, <1>18, <1>26, <2>1, <2>3 DEF BufferOf, IsReservation
    <3>2. EntryFor(v)' = entry /\ writers'[v].thread = t
      BY <1>1, <1>8, <1>9, <2>3, <3>1 DEF EntryFor, BufferOf, IsReservation
    <3>3. y \in Elems(todo'[t])
      BY <1>15, <1>17, <3>1, ArbiterConstants
    <3>4. SilentPosts(id)
      <4>1. ~MayBeOvertaken(id, startup)
        BY <1>8, <1>9, <1>10, <1>27, <2>1, <2>3
      <4> QED BY <1>6, <1>18, <4>1, FreshSilence
    <3>5. \A u \in Threads \ {t} : \A x \in Elems(todo'[u]) : x.do = "post" => ~About(x.task, entry.id)
      BY <1>8, <1>17, <3>4 DEF SilentPosts
    <3>6. Told(entry, t)'
      BY <1>14, <3>3, <3>5 DEF Told
    <3> QED BY <3>2, <3>6
  <2> QED BY <1>9, <2>1, <2>2, <2>3
<1>24. Awaited'
  <2>1. ASSUME NEW v \in DOMAIN writers', Live(v)', writers'[v].target \in Reservations,
               arb'.reservations[writers'[v].target] = Unresolved
        PROVE  [id |-> writers'[v].id, target |-> writers'[v].target] \in arb'.pending
    <3>1. CASE v \in DOMAIN writers
      <4>1. writers'[v] = writers[v] /\ Live(v)
        BY <1>9, <2>1, <3>1 DEF Live
      <4>2. arb.reservations[writers[v].target] = Unresolved
        BY <1>0, <1>7, <1>10, <1>11, <2>1, <3>1, <4>1 DEF Binding
      <4>3. [id |-> writers[v].id, target |-> writers[v].target] \in arb.pending
        BY <1>0, <2>1, <3>1, <4>1, <4>2 DEF Awaited
      <4> QED BY <1>10, <1>26, <4>1, <4>3
    <3>2. CASE v = N
      <4>1. writers'[v].id = id /\ writers'[v].target = target
        BY <1>8, <1>9, <3>2
      <4>2. entry \in arb'.pending
        BY <1>10, <1>26, <2>1, <4>1
      <4> QED BY <1>1, <4>1, <4>2
    <3> QED BY <1>9, <2>1, <3>1, <3>2
  <2>2. ASSUME NEW p \in arb'.pending
        PROVE  /\ p = [id |-> p.id, target |-> p.target]
               /\ \E v \in DOMAIN writers' : Live(v)' /\ writers'[v].id = p.id /\ writers'[v].target = p.target
               /\ p.id \notin env'.overtaken => SilentBehind(p.id)'
    <3>1. CASE p \in arb.pending
      <4>1. PICK v \in DOMAIN writers : Live(v) /\ writers[v].id = p.id /\ writers[v].target = p.target
        BY <1>0, <3>1 DEF Awaited
      <4>2. v \in DOMAIN writers' /\ Live(v)' /\ writers'[v].id = p.id /\ writers'[v].target = p.target
        BY <1>9, <4>1 DEF Live
      <4>3. p.id # id
        BY <1>0, <1>6, <4>1 DEF Distinct, Live
      <4>4. SilentBehind(p.id) => SilentBehind(p.id)'
        BY <1>0, <1>20, <4>3, AwaitedKept
      <4>5. p.id \notin env'.overtaken => p.id \notin env.overtaken
        BY <1>4, <1>10
      <4> QED BY <1>0, <3>1, <4>2, <4>4, <4>5 DEF Awaited
    <3>2. CASE p = entry /\ startup
      <4>1. p = [id |-> p.id, target |-> p.target]
        BY <1>1, <1>8, <3>2
      <4>2. N \in DOMAIN writers' /\ Live(N)' /\ writers'[N].id = p.id /\ writers'[N].target = p.target
        BY <1>8, <1>9, <3>2 DEF Live
      <4>3. ASSUME p.id \notin env'.overtaken PROVE SilentBehind(p.id)'
        <5>1. ~MayBeOvertaken(id, startup)
          BY <1>8, <1>10, <1>27, <3>2, <4>3
        <5>2. SilentBehind(id)
          BY <1>6, <1>18, <3>2, <5>1, FreshSilence
        <5>3. \A u \in Threads : \A x \in Elems(todo'[u]) : x \in Elems(todo[u])
          BY <1>15, <1>17, <3>2
        <5> QED BY <1>0, <1>8, <3>2, <5>2, <5>3 DEF SilentBehind, SilentPosts
      <4> QED BY <4>1, <4>2, <4>3
    <3> QED BY <1>10, <1>26, <2>2, <3>1, <3>2
  <2> QED BY <2>1, <2>2 DEF Awaited
<1>25. Known'
  <2>1. \A v \in DOMAIN writers' : writers'[v].target \in Buffers => arb'.bound
    BY <1>0, <1>7, <1>8, <1>9, <1>10 DEF Known
  <2>2. \A r \in Reservations : arb'.reservations[r] \in Buffers => arb'.bound
    BY <1>0, <1>10, <1>11, <1>18 DEF Known
  <2> QED BY <2>1, <2>2 DEF Known
<1> QED BY <1>19, <1>22, <1>23, <1>24, <1>25 DEF Registry

(* A sequence that begins with one element.                                *)
LEMMA AfterFirst ==
  ASSUME NEW y, NEW s, IsSeq(s)
  PROVE  /\ IsSeq(<<y>> \o s) /\ <<y>> \o s # <<>>
         /\ Elems(<<y>> \o s) = {y} \cup Elems(s) /\ Elems(Tail(<<y>> \o s)) = Elems(s)
<1>1. PICK one, all : one = <<y>> /\ all = one \o s
  OBVIOUS
<1>2. IsSeq(one) /\ Elems(one) = {y} /\ Len(one) = 1
  BY <1>1, ShortSeqs
<1>3. /\ IsSeq(all) /\ Elems(all) = {y} \cup Elems(s)
      /\ Len(s) \in Nat /\ Len(all) = 1 + Len(s) /\ DOMAIN s = 1 .. Len(s)
      /\ \A i \in DOMAIN s : all[1 + i] = s[i]
  BY <1>1, <1>2, ConcatSeq
<1>4. all # <<>>
  BY <1>3, ShortSeqs
<1>5. /\ DOMAIN Tail(all) = 1 .. Len(all) - 1
      /\ \A i \in DOMAIN Tail(all) : Tail(all)[i] = all[i + 1]
  BY <1>3, <1>4, TailSeq
<1>6. DOMAIN Tail(all) = DOMAIN s /\ \A i \in DOMAIN s : Tail(all)[i] = s[i]
  BY <1>3, <1>5
<1>7. Elems(Tail(all)) = Elems(s)
  BY <1>6 DEF Elems
<1> QED BY <1>1, <1>3, <1>4, <1>7

LEMMA BindImplRegistry ==
  ASSUME PatchInv, Registry, NEW t \in Threads, NEW r, NEW b \in Ids, NEW rest, IsSeq(rest),
         rest = Rest(t), BindStartupTargetBufferImpl(t, r, b, rest),
         b # kInvalidBufferId => t = IPC /\ arb.bound,
         todo[t] # <<>> => Now(t).do = "abort",
         SettledKept, env'.overtaken = env.overtaken
  PROVE  Registry'
<1>0. /\ Shapes /\ WriterShapes /\ Distinct /\ AlwaysBound /\ Binding /\ IPC \in Threads
      /\ Letters /\ Withdrawn /\ Reached /\ Awaited /\ Known
      /\ writers' = writers /\ tasks' = tasks /\ service' = service
  BY RegistryFacts DEF BindStartupTargetBufferImpl
<1>1. PICK bound, res, pend : /\ bound = {p \in arb.pending : p.target = r}
                              /\ res = [arb.reservations EXCEPT ![r] = b]
                              /\ pend = arb.pending \ bound
  OBVIOUS
<1>2. PICK a0 : a0 = [arb EXCEPT !.reservations = res, !.pending = pend]
  OBVIOUS
<1>3. a0 = [arb EXCEPT !.reservations[r] = b, !.pending = @ \ bound]
  BY <1>1, <1>2, Zenon
<1>4. PICK a, ws, y : /\ a = UpdateFullyBoundLocked(a0) /\ y = Register(ws)
                      /\ ws = {[id |-> p.id, target |-> b] : p \in bound}
  OBVIOUS
<1>5. PICK reg, flush : /\ reg = IF b = kInvalidBufferId \/ bound = {} THEN <<>> ELSE <<y>>
                        /\ flush = FlushIfBound(a)
  OBVIOUS
<1>6. arb' = TakePendingFlushCallbacks(a) /\ todo' = [todo EXCEPT ![t] = (reg \o flush) \o rest]
  BY <1>1, <1>3, <1>4, <1>5, Zenon DEF BindStartupTargetBufferImpl
<1>7. /\ DOMAIN a0 = DOMAIN arb /\ a0.bound = arb.bound /\ a0.bound \in BOOLEAN
      /\ a0.reservations = res /\ a0.pending = pend
  BY <1>0, <1>2 DEF Shapes
<1>8. arb'.reservations = res /\ arb'.pending = pend
  <2>1. BoundAs(a0)
    BY <1>0, <1>4, <1>6, <1>7, BindMembers
  <2> QED BY <1>7, <2>1 DEF BoundAs
<1>9. arb'.bound = arb.bound
  <2>1. a.bound = a0.bound /\ DOMAIN a = DOMAIN a0
    BY <1>0, <1>4, <1>7 DEF UpdateFullyBoundLocked, Shapes
  <2> QED BY <1>0, <1>6, <1>7, <2>1 DEF TakePendingFlushCallbacks, Shapes
<1>10. IsSeq(flush) /\ \A x \in Elems(flush) : x.do = "flush"
  <2>1. CASE flush = <<>>
    BY <2>1, ShortSeqs
  <2>2. CASE flush # <<>>
    <3>1. PICK x : x = Flush(a.callbacks) /\ x.do = "flush"
      BY FlushKind
    <3>2. flush = <<x>>
      BY <1>5, <2>2, <3>1 DEF FlushIfBound
    <3> QED BY <3>1, <3>2, ShortSeqs
  <2> QED BY <2>1, <2>2
<1>11. /\ y.do = "register" /\ \A e : Tells(y, e) <=> e \in ws
       /\ \A i : About(y, i) <=> \E e \in ws : e.id = i
  BY <1>4, RegisterKind
<1>12. PICK first : first = reg \o flush
  OBVIOUS
<1>13. /\ IsSeq(first)
       /\ \A x \in Elems(first) : x.do = "flush" \/ (x = y /\ b \in Buffers)
       /\ b # kInvalidBufferId /\ bound # {} => y \in Elems(first)
       /\ first # <<>> => \A x \in Elems(Tail(first)) : x.do = "flush"
  <2>1. CASE b = kInvalidBufferId \/ bound = {}
    <3>1. first = flush
      BY <1>5, <1>10, <1>12, <2>1 DEF IsSeq
    <3>2. first # <<>> => Elems(Tail(first)) \subseteq Elems(flush)
      BY <1>10, <3>1, TailSeq
    <3> QED BY <1>10, <2>1, <3>1, <3>2
  <2>2. CASE b # kInvalidBufferId /\ bound # {}
    <3>1. first = <<y>> \o flush
      BY <1>5, <1>12, <2>2
    <3>2. /\ IsSeq(first) /\ Elems(first) = {y} \cup Elems(flush)
          /\ Elems(Tail(first)) = Elems(flush)
      BY <1>10, <3>1, AfterFirst
    <3> QED BY <1>10, <2>2, <3>2 DEF Ids
  <2> QED BY <2>1, <2>2
<1>14. Goes(t, first)
  <2>1. todo' = [todo EXCEPT ![t] = first \o Rest(t)]
    BY <1>6, <1>12
  <2> QED BY <1>13, <2>1 DEF Goes
<1>15. /\ KeptMail
       /\ \A u \in Threads : \A x \in Elems(todo'[u]) :
            x \in Elems(todo[u]) \/ (u = t /\ (x.do = "flush" \/ (x = y /\ b \in Buffers)))
       /\ \A x \in Elems(first) : x \in Elems(todo'[t])
  <2>1. todo[t] # <<>> => ~Mail(Now(t))
    BY DEF Mail, Speaks
  <2> QED BY <1>0, <1>13, <1>14, <2>1, GoesMail, GoesFacts
<1>16. Letters'
  <2>1. first # <<>> => \A x \in Elems(Tail(first)) : x.do \notin Letter
    BY <1>13 DEF Letter
  <2>2. \A x \in Elems(first) : WellFormed(x)
    BY <1>11, <1>13 DEF WellFormed
  <2> QED BY <1>0, <1>14, <2>1, <2>2, LettersStep
<1>17. \A w \in DOMAIN writers : \A e : OwnedBy(e, w) => OwnedBy(e, w)'
  <2>1. \A w \in DOMAIN writers : SameWriter(w)
    BY <1>0 DEF SameWriter
  <2> QED BY <1>0, <2>1, OwnedKept
<1>18. /\ \A q \in Reservations : \/ q # r /\ res[q] = arb.reservations[q]
                                  \/ q = r /\ res[q] = b
       /\ b # Unresolved /\ Unresolved \notin Ids /\ Absent \notin Ids
       /\ b \in Buffers => b # kInvalidBufferId
  <2>1. Unresolved \notin Ids /\ Absent \notin Ids /\ kInvalidBufferId \notin Buffers
    BY ArbiterConstants DEF Ids, Unresolved, Absent, kInvalidBufferId
  <2> QED BY <1>0, <1>1, <2>1 DEF WriterShapes
<1>19. ASSUME NEW e \in ws, b \in Buffers PROVE Owned(e)'
  <2>1. PICK p \in bound : e = [id |-> p.id, target |-> b]
    BY <1>4, <1>19
  <2>2. p \in arb.pending /\ p.target = r /\ r \in Reservations
    BY <1>0, <1>1, <2>1 DEF AlwaysBound
  <2>3. PICK w \in DOMAIN writers : Live(w) /\ writers[w].id = p.id /\ writers[w].target = r
    BY <1>0, <2>2 DEF Awaited
  <2>4. arb'.reservations[r] = b
    BY <1>8, <1>18, <2>2
  <2>5. e.id = p.id /\ e.target = b /\ e = [id |-> e.id, target |-> e.target]
    BY <2>1
  <2>6. OwnedBy(e, w)'
    BY <1>0, <1>19, <2>2, <2>3, <2>4, <2>5 DEF OwnedBy, Live, BufferOf, IsReservation
  <2> QED BY <1>0, <2>3, <2>6 DEF Owned
<1>20. Withdrawn'
  <2>1. \A e : Owned(e) => Owned(e)'
    BY <1>0, <1>17 DEF Owned
  <2>2. \A x \in Elems(todo'[IPC]) : \A e : Tells(x, e) => x \in Elems(todo[IPC]) \/ Owned(e)'
    <3>1. \A x : x.do = "flush" => \A e : ~Tells(x, e)
      BY DEF Tells
    <3> QED BY <1>0, <1>11, <1>15, <1>19, <3>1
  <2>3. ASSUME NEW u \in Threads, NEW x \in Elems(todo'[u]), NEW e, x.do = "post", Tells(x.task, e)
        PROVE  \E v \in DOMAIN writers' : OwnedBy(e, v)' /\ writers'[v].thread = u
    <3>1. x \in Elems(todo[u])
      BY <1>11, <1>15, <2>3
    <3>2. PICK v \in DOMAIN writers : OwnedBy(e, v) /\ writers[v].thread = u
      BY <1>0, <2>3, <3>1 DEF Withdrawn
    <3> QED BY <1>0, <1>17, <3>2
  <2> QED BY <1>0, <1>15, <2>1, <2>2, <2>3, WithdrawnStep, SMTT(30)
<1>21. \A u \in Threads : \A x \in Elems(todo'[u]) : x.do = "post" => x \in Elems(todo[u])
  BY <1>11, <1>15
<1>22. \A i : SilentBehind(i) => SilentBehind(i)'
  BY <1>0, <1>21 DEF SilentBehind, SilentPosts
<1>23. \A i : (\A p \in arb.pending : p.id # i) => Unnamed(i)
  <2>1. ASSUME NEW i, \A p \in arb.pending : p.id # i PROVE ~Names(y, i)
    <3>1. \A e \in ws : e.id # i
      BY <1>1, <1>4, <2>1
    <3> QED BY <1>11, <3>1 DEF Names
  <2>2. \A x, i : x.do = "flush" => ~Names(x, i)
    BY MailKinds DEF Names, Speaks
  <2> QED BY <1>15, <2>1, <2>2 DEF Unnamed
<1>24. Reached'
  <2>1. SUFFICES ASSUME NEW v \in DOMAIN writers', (Live(v) /\ BufferOf(writers[v].target) \in Buffers)',
                        writers'[v].id \notin env'.overtaken
                 PROVE  Told(EntryFor(v), writers[v].thread)'
    BY DEF Reached
  <2>2. /\ v \in DOMAIN writers /\ Live(v) /\ writers[v].id \notin env.overtaken
        /\ writers[v].target \in Ids \cup Reservations /\ writers'[v] = writers[v]
    BY <1>0, <2>1 DEF Live, WriterShapes
  <2>3. CASE BufferOf(writers[v].target) \in Buffers
    <3>1. EntryFor(v)' = EntryFor(v) /\ EntryFor(v).id = writers[v].id
      <4>1. BufferOf(writers[v].target)' = BufferOf(writers[v].target)
        BY <2>2, <2>3 DEF BufferOf, IsReservation, SettledKept, Ids
      <4> QED BY <2>2, <4>1 DEF EntryFor
    <3>2. PICK e, u : e = EntryFor(v) /\ u = writers[v].thread
      OBVIOUS
    <3>3. Told(e, u) /\ u \in Threads
      BY <1>0, <2>2, <2>3, <3>2 DEF Reached, WriterShapes
    <3>4. Unnamed(e.id)
      BY <1>23, <2>2, <2>3, <3>1, <3>2, KnownBuffer
    <3>5. Told(e, u)'
      BY <1>0, <1>15, <3>3, <3>4, ToldKept
    <3> QED BY <2>2, <3>1, <3>2, <3>5
  <2>4. CASE BufferOf(writers[v].target) \notin Buffers
    <3>1. /\ writers[v].target \in Reservations /\ writers[v].target = r /\ b \in Buffers
          /\ BufferOf(writers[v].target)' = b
      BY <1>8, <1>18, <2>1, <2>2, <2>4 DEF BufferOf, IsReservation
    <3>2. arb.reservations[r] = Unresolved
      <4>1. arb.reservations[r] \in Ids \cup {Absent, Unresolved} /\ arb.reservations[r] # Absent
        BY <1>0, <2>2, <3>1 DEF WriterShapes, Binding
      <4>2. arb.reservations[r] \notin Buffers
        BY <2>4, <3>1 DEF BufferOf, IsReservation
      <4>3. arb.reservations[r] \in Ids => arb.reservations[r] = b
        BY <1>8, <1>18, <3>1 DEF SettledKept
      <4> QED BY <3>1, <4>1, <4>2, <4>3
    <3>3. PICK p : p = [id |-> writers[v].id, target |-> r]
      OBVIOUS
    <3>4. p \in bound /\ p \in arb.pending /\ p.id = writers[v].id
      BY <1>0, <1>1, <2>2, <3>1, <3>2, <3>3 DEF Awaited
    <3>5. PICK e : e = [id |-> p.id, target |-> b]
      OBVIOUS
    <3>6. e \in ws /\ e.id = p.id /\ EntryFor(v)' = e
      BY <1>4, <2>2, <3>1, <3>4, <3>5 DEF EntryFor
    <3>7. y \in Elems(todo'[IPC]) /\ Tells(y, e)
      BY <1>11, <1>13, <1>15, <1>18, <3>1, <3>4, <3>6
    <3>8. SilentBehind(e.id)'
      BY <1>0, <1>22, <2>2, <3>4, <3>6 DEF Awaited
    <3>9. PICK u : u = writers[v].thread
      OBVIOUS
    <3>10. Told(e, u)'
      BY <3>7, <3>8 DEF Told
    <3> QED BY <2>2, <3>6, <3>9, <3>10
  <2> QED BY <2>3, <2>4
<1>25. Awaited'
  <2>1. ASSUME NEW v \in DOMAIN writers', Live(v)', writers'[v].target \in Reservations,
               arb'.reservations[writers'[v].target] = Unresolved
        PROVE  [id |-> writers'[v].id, target |-> writers'[v].target] \in arb'.pending
    <3>1. writers[v].target # r /\ arb.reservations[writers[v].target] = Unresolved
      BY <1>0, <1>8, <1>18, <2>1
    <3>2. PICK p : p = [id |-> writers[v].id, target |-> writers[v].target]
      OBVIOUS
    <3>3. p \in arb.pending /\ p.target # r
      BY <1>0, <2>1, <3>1, <3>2 DEF Awaited, Live
    <3> QED BY <1>0, <1>1, <1>8, <3>2, <3>3
  <2>2. ASSUME NEW p \in arb'.pending
        PROVE  /\ p = [id |-> p.id, target |-> p.target]
               /\ \E v \in DOMAIN writers' : Live(v)' /\ writers'[v].id = p.id /\ writers'[v].target = p.target
               /\ p.id \notin env'.overtaken => SilentBehind(p.id)'
    <3>1. p \in arb.pending
      BY <1>1, <1>8, <2>2
    <3> QED BY <1>0, <1>22, <3>1 DEF Awaited, Live
  <2> QED BY <2>1, <2>2 DEF Awaited
<1>26. Known'
  <2>1. \A v \in DOMAIN writers' : writers'[v].target \in Buffers => arb'.bound
    BY <1>0, <1>9 DEF Known
  <2>2. \A q \in Reservations : arb'.reservations[q] \in Buffers => arb'.bound
    BY <1>0, <1>8, <1>9, <1>18 DEF Known
  <2> QED BY <2>1, <2>2 DEF Known
<1> QED BY <1>16, <1>20, <1>24, <1>25, <1>26 DEF Registry

LEMMA BindStartupTargetBufferRegistry ==
  ASSUME PatchInv, Registry, NEW r \in Reservations, NEW b \in Buffers,
         BindStartupTargetBuffer(r, b), SettledKept
  PROVE  Registry'
<1>1. /\ todo[IPC] = <<>> /\ BindStartupTargetBufferImpl(IPC, r, b, <<>>) /\ IPC \in Threads
      /\ arb.bound /\ Claim(r) /\ b \in Ids
  BY ArbiterConstants DEF BindStartupTargetBuffer, Idle, Ids
<1>2. PICK e : IsSeq(e) /\ e = Rest(IPC) /\ BindStartupTargetBufferImpl(IPC, r, b, e)
  BY <1>1, ShortSeqs DEF Rest
<1>3. env'.overtaken = env.overtaken
  BY <1>1, RegistryFacts DEF Claim, WriterShapes
<1> QED BY <1>1, <1>2, <1>3, BindImplRegistry

LEMMA AbortRegistry ==
  ASSUME PatchInv, Registry, NEW t \in Threads, NEW r \in Reservations,
         AbortStartupTracingForReservation(t, r), SettledKept
  PROVE  Registry'
<1>1. CASE MustPostAbort(t)
  BY <1>1, AbortPostRegistry
<1>2. CASE ~MustPostAbort(t)
  <2>1. PICK b : b = kInvalidBufferId /\ b \in Ids
    BY DEF Ids
  <2>2. /\ todo[t] = <<>> /\ BindStartupTargetBufferImpl(t, r, b, <<>>) /\ Claim(r)
    BY <1>2, <2>1 DEF AbortStartupTracingForReservation, Idle
  <2>3. PICK e : IsSeq(e) /\ e = Rest(t) /\ BindStartupTargetBufferImpl(t, r, b, e)
    BY <2>2, ShortSeqs DEF Rest
  <2>4. env'.overtaken = env.overtaken
    BY <2>2, RegistryFacts DEF Claim, WriterShapes
  <2> QED BY <2>1, <2>2, <2>3, <2>4, BindImplRegistry
<1> QED BY <1>1, <1>2

LEMMA RunAbortRegistry ==
  ASSUME PatchInv, Registry, RunAbort, SettledKept
  PROVE  Registry'
<1>0. Shapes /\ IPC \in Threads
  BY RegistryFacts
<1>1. PICK r, b : r = Now(IPC).r /\ b = kInvalidBufferId /\ b \in Ids
  BY DEF Ids
<1>2. /\ todo[IPC] # <<>> /\ Now(IPC).do = "abort" /\ env' = env
      /\ BindStartupTargetBufferImpl(IPC, r, b, Tail(todo[IPC]))
  BY <1>1 DEF RunAbort, AtStep, Now
<1>3. PICK rest : /\ IsSeq(rest) /\ rest = Rest(IPC) /\ BindStartupTargetBufferImpl(IPC, r, b, rest)
  BY <1>0, <1>2, TailSeq DEF Rest, Shapes
<1> QED BY <1>0, <1>1, <1>2, <1>3, BindImplRegistry

LEMMA InitRegistry ==
  ASSUME Init
  PROVE  Registry
<1>0. PICK c \in Scenarios :
        /\ env = [c |-> c, claimed |-> {}, flushes |-> 0, asked |-> <<>>, overtaken |-> {}]
        /\ arb = [bound |-> c.bound, fully_bound |-> c.bound,
                  was_always_bound |-> c.bound,
                  req |-> NoRequest, scheduled |-> FALSE, callbacks |-> {},
                  pending |-> {}, reservations |-> [r \in Reservations |-> Absent],
                  ids |-> {}, last_id |-> 0, did_shutdown |-> FALSE, direct |-> FALSE]
  BY Zenon DEF Init
<1>1. /\ todo = [t \in Threads |-> <<>>] /\ writers = <<>> /\ tasks = <<>>
      /\ service = [inbox |-> <<>>, landed |-> <<>>, registered |-> {}, flushed |-> 0]
  BY Zenon DEF Init
<1>2. /\ arb.pending = {} /\ service.registered = {} /\ service.inbox = <<>>
      /\ \A r \in Reservations : arb.reservations[r] \notin Buffers
  <2>1. \A r \in Reservations : arb.reservations[r] = Absent
    BY <1>0
  <2>2. Absent \notin Buffers
    BY ArbiterConstants DEF Absent
  <2> QED BY <1>0, <1>1, <2>1, <2>2
<1>3. DOMAIN <<>> = {} /\ Elems(<<>>) = {}
  <2>1. DOMAIN <<>> = {}
    OBVIOUS
  <2> QED BY <2>1, ShortSeqs
<1>4. PICK none : none = <<>>
  OBVIOUS
<1>5. /\ DOMAIN none = {} /\ Elems(none) = {}
      /\ writers = none /\ service.inbox = none /\ tasks = none
      /\ \A t \in Threads : todo[t] = none /\ Elems(Rest(t)) = {}
  BY <1>1, <1>2, <1>3, <1>4 DEF Rest
<1>6. IPC \in Threads
  BY ArbiterConstants
<1>7. Letters
  BY <1>5 DEF Letters
<1>8. Withdrawn
  BY <1>2, <1>5, <1>6 DEF Withdrawn
<1>9. Reached
  BY <1>5 DEF Reached
<1>10. Awaited /\ Known
  BY <1>2, <1>5 DEF Awaited, Known
<1> QED BY <1>7, <1>8, <1>9, <1>10 DEF Registry

LEMMA NextRegistry ==
  ASSUME PatchInv, Registry, [Next]_vars
  PROVE  Registry'
<1>0. SettledKept
  BY RegistryFacts, NextBinding
<1>1. ASSUME NEW t \in Threads, Call(t) PROVE Registry'
  BY <1>0, <1>1, AbortRegistry, CreateTraceWriterRegistry, DestroyTraceWriterRegistry,
     GetNewChunkRegistry, GetNewChunkExhaustedRegistry, FinalizeNestedRegistry,
     SendPatchesRegistry, FlushWriterRegistry, NotifyRegistry DEF Call
<1>2. ASSUME NEW t \in Threads, Step(t) PROVE Registry'
  BY <1>2, ReleaseWriterIDRegistry, RetryGetNewChunkRegistry, ReturnRegistry,
     FlushPendingRegistry, PostTaskRegistry, DelayRegistry, CallEndpointRegistry DEF Step
<1>3. ASSUME Bind PROVE Registry'
  BY <1>0, <1>3, BindToProducerEndpointRegistry, BindStartupTargetBufferRegistry,
     QuietRegistry DEF Bind
<1>4. ASSUME TaskRunner PROVE Registry'
  BY <1>0, <1>4, RunTaskRegistry, RunDelayedTaskRegistry, DelayRegistry, RunAbortRegistry
     DEF TaskRunner
<1> QED BY <1>1, <1>2, <1>3, <1>4, ServiceStepRegistry, StutterRegistry DEF Next

(* What the service knows of the writers, and the messages that are to     *)
(* change it, agree with the writers at every step.                        *)
THEOREM RegistryHolds == Spec => []Registry
<1>1. Init => Registry
  BY InitRegistry
<1>2. ASSUME PatchInv, Registry, [Next]_vars PROVE Registry'
  BY <1>2, NextRegistry
<1> QED BY <1>1, <1>2, PatchInvHolds, PTL DEF Spec

(* Once no message about a writer is on its way, none will be.             *)
LEMMA NoMail ==
  ASSUME Coming("register") \cup Coming("unregister") = {}, IPC \in Threads
  PROVE  /\ \A t \in Threads : \A x \in Elems(todo[t]) :
              /\ x.do \notin Speaks
              /\ x.do = "post" => x.task.do \notin Speaks
         /\ \A i \in DOMAIN tasks : tasks[i].do \notin Speaks
         /\ \A i \in DOMAIN service.inbox : service.inbox[i].do \notin Speaks
<1>1. \A x \in Ahead : x.do \notin Speaks
  BY DEF Coming, Speaks
<1>2. \A t \in Threads : \A x \in Elems(todo[t]) :
        /\ x \in Ahead
        /\ x.do = "post" => x.task \in Ahead
  <2>1. ASSUME NEW t \in Threads, NEW x \in Elems(todo[t])
        PROVE  x \in Steps(t)
    BY DEF Elems, Steps
  <2> QED BY <2>1 DEF Ahead, Posting
<1>3. \A i \in DOMAIN tasks : tasks[i] \in Ahead
  BY DEF Ahead
<1>4. \A i \in DOMAIN service.inbox : service.inbox[i] \in Ahead
  BY DEF Ahead
<1> QED BY <1>1, <1>2, <1>3, <1>4

(* Two live writers have different ids, and when the messages about the    *)
(* writers have arrived, the service knows exactly the live writers whose  *)
(* buffer is known, but for those whose id MayBeOvertaken when they got it *)
(* (CreateTraceWriterInternal, ReleaseWriterID,                            *)
(* BindStartupTargetBufferImpl).                                           *)
THEOREM RegistrationsFollowWritersHolds == Spec => []RegistrationsFollowWriters
<1>1. ASSUME PatchInv, Registry PROVE RegistrationsFollowWriters
  <2>0. Distinct /\ Withdrawn /\ Reached /\ IPC \in Threads
    BY <1>1, RegistryFacts
  <2>1. PICK bound, known : /\ bound = {w \in DOMAIN writers : Live(w) /\ BufferOf(writers[w].target) \in Buffers}
                            /\ known = {EntryFor(w) : w \in bound}
    OBVIOUS
  <2>2. \A v, w \in DOMAIN writers : Live(v) /\ Live(w) /\ v # w => writers[v].id # writers[w].id
    BY <2>0 DEF Distinct
  <2>3. ASSUME Coming("register") \cup Coming("unregister") = {}
        PROVE  /\ service.registered \subseteq known
               /\ \A e \in known : e \in service.registered \/ e.id \in env.overtaken
    <3>1. /\ \A t \in Threads : \A x \in Elems(todo[t]) :
               /\ x.do \notin Speaks
               /\ x.do = "post" => x.task.do \notin Speaks
          /\ \A i \in DOMAIN tasks : tasks[i].do \notin Speaks
          /\ \A i \in DOMAIN service.inbox : service.inbox[i].do \notin Speaks
      BY <2>0, <2>3, NoMail
    <3>2. /\ \A x, i : x.do \notin Speaks => ~Drops(x, i)
          /\ \A x, e : x.do \notin Speaks => ~Tells(x, e)
      BY DEF Drops, Tells, Speaks
    <3>3. ASSUME NEW e \in service.registered PROVE e \in known
      <4>1. ~Later(service.inbox, 0, e.id) /\ ~DropAhead(e.id)
        BY <2>0, <3>1, <3>2 DEF Later, DropAhead, DropBehind, DropPosted
      <4>2. PICK w \in DOMAIN writers : OwnedBy(e, w)
        BY <2>0, <4>1 DEF Withdrawn, Owned
      <4>3. w \in bound /\ e = EntryFor(w)
        BY <2>1, <4>2 DEF OwnedBy, EntryFor
      <4> QED BY <2>1, <4>3
    <3>4. ASSUME NEW e \in known, e.id \notin env.overtaken PROVE e \in service.registered
      <4>1. PICK w \in bound : e = EntryFor(w)
        BY <2>1
      <4>2. /\ w \in DOMAIN writers /\ Live(w) /\ BufferOf(writers[w].target) \in Buffers
            /\ writers[w].id \notin env.overtaken
        BY <2>1, <3>4, <4>1 DEF EntryFor
      <4>3. PICK t : t = writers[w].thread /\ t \in Threads
        BY <1>1, <4>2, RegistryFacts DEF WriterShapes
      <4>4. Told(e, t)
        BY <2>0, <4>1, <4>2, <4>3 DEF Reached
      <4> QED BY <2>0, <3>1, <3>2, <4>3, <4>4 DEF Told
    <3> QED BY <3>3, <3>4
  <2> QED BY <2>1, <2>2, <2>3 DEF RegistrationsFollowWriters, EntryFor
<1> QED BY <1>1, PatchInvHolds, RegistryHolds, PTL
=============================================================================
