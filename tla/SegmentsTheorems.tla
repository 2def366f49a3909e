-------------------------- MODULE SegmentsTheorems --------------------------
(***************************************************************************)
(* The steps of Segments that write a directory and the restart preserve   *)
(* the invariant of SegmentsProofs; then the theorems.                     *)
(***************************************************************************)
EXTENDS SegmentsListProofs, WellFoundedInduction

-----------------------------------------------------------------------------
(* The builds, which write a directory.                                     *)

\* A build that succeeds writes a directory under an id nobody else has.
LEMMA BuiltStep ==
    ASSUME IndInv, NEW t \in Threads, NEW offs, NEW tier,
           NEW pc \in {"unlist", "installCold", "removeMerged"}, Builds(t),
           Built(t, offs, tier, thr[t].id, pc),
           pc = "unlist" => tier = thr[t].tier,
           pc = "installCold" => tier = "cold" /\ thr[t].pc = "buildCold",
           pc = "removeMerged" => tier = "sealed" /\ thr[t].pc = "buildMerged",
           UNCHANGED <<nextId, pending, sealedHot, warm, cold, load, live, next>>
    PROVE  IndInv'
<1> DEFINE new == Len(segs) + 1
           r == [thr[t] EXCEPT !.pc = pc, !.made = new]
<1>0. /\ Typed /\ Fresh /\ Kept /\ thr[t] = [f \in Fields |-> thr[t][f]]
      /\ Len(segs) \in Nat /\ new \in Nat
  BY DEF IndInv, Typed
<1>1. /\ Extends /\ Len(segs') = new /\ segs'[new].tier = tier /\ segs'[new].id = thr[t].id
  <2>1. NewSeg(offs, tier, thr[t].id)
    BY DEF Built
  <2>2. /\ Extends /\ Len(segs') = new
        /\ segs'[Len(segs')] = [offs |-> offs, tier |-> tier, id |-> thr[t].id]
    BY <1>0, <2>1, NewSegStep
  <2> QED BY <2>2
<1>2. /\ new \notin Tags /\ Tags \subseteq Tags' /\ new \in Tags' /\ new # 0
      /\ \A s \in Tags : segs'[s] = segs[s]
  BY <1>0, <1>1 DEF Tags, Extends
<1>3. disk' = disk \cup {new}
  BY <1>1 DEF Built
<1>4. thr' = [thr EXCEPT ![t] = r]
  BY Zenon, <1>0, <1>1 DEF Built, Typed
<1>5. /\ r = [f \in Fields |-> r[f]] /\ r.pc = pc /\ r.cands = thr[t].cands
      /\ r.made = new /\ r.id = thr[t].id /\ r.then = thr[t].then /\ r.tier = thr[t].tier
  BY Zenon, <1>0, FieldsOfIdle
<1> HIDE DEF r, new
<1>6. Moves(t, pc, thr[t].cands, new, thr[t].id, thr[t].then) /\ thr'[t].tier = thr[t].tier
  BY Zenon, <1>0, <1>4, <1>5, Becomes
<1>7. /\ disk \subseteq Tags /\ pending \subseteq Tags /\ Indexes \subseteq Tags
      /\ Indexes' = Indexes
      /\ \A u \in Threads : thr[u].cands \subseteq Tags /\ thr'[u].cands = thr[u].cands
  BY ZenonT(40), <1>0, <1>6 DEF Typed, Indexes, Moves
<1>8. Typed'
  <2>1. \A u \in Threads : /\ thr'[u] = [f \in Fields |-> thr'[u][f]]
                           /\ thr'[u].cands \subseteq Tags'
                           /\ thr'[u].id \in Nat
                           /\ thr'[u].then \in Afters
    <3> SUFFICES ASSUME NEW u \in Threads
                 PROVE  /\ thr'[u] = [f \in Fields |-> thr'[u][f]]
                        /\ thr'[u].cands \subseteq Tags'
                        /\ thr'[u].id \in Nat
                        /\ thr'[u].then \in Afters
      OBVIOUS
    <3>1. thr'[u].cands \subseteq Tags'
      BY <1>2, <1>7
    <3>2. CASE u = t
      BY ZenonT(40), <3>1, <3>2, <1>0, <1>6 DEF Typed, Moves
    <3>3. CASE u # t
      BY <3>1, <3>3, <1>0, <1>6 DEF Typed, Moves
    <3> QED BY <3>2, <3>3
  <2>2. thr' = [u \in Threads |-> thr'[u]]
    BY <1>6 DEF Moves
  <2>3. segs' \in Seq(Range(segs'))
    BY <1>1 DEF Extends
  <2>4. Counted' /\ nextId' \in Nat \ {0} /\ load' \in Loads
    BY <1>0 DEF Typed, Counted
  <2> QED BY <2>1, <2>2, <2>3, <2>4, <1>2, <1>3, <1>7 DEF Typed
<1>9. Fresh'
  <2>1. \A s \in disk' : (s \in disk /\ segs'[s] = segs[s]) \/ (s = new /\ segs'[s].id = thr[t].id)
    <3>1. \A s \in disk : segs'[s] = segs[s]
      BY <1>2, <1>7
    <3>2. segs'[new].id = thr[t].id
      BY <1>1
    <3> QED BY <3>1, <3>2, <1>3
  <2>2. thr[t].id \in 0 .. nextId - 1 /\ \A s \in disk : segs[s].id # thr[t].id
    BY <1>0 DEF Fresh
  <2>3. /\ \A s \in disk' : segs'[s].id \in 0 .. nextId' - 1
        /\ \A s, q \in disk' : segs'[s].id = segs'[q].id => s = q
    BY <1>0, <2>1, <2>2 DEF Fresh
  <2>4. \A u \in Threads : Builds(u)' => u # t /\ Builds(u) /\ thr'[u] = thr[u]
    BY <1>6 DEF Moves, Builds
  <2>5. \A u \in Threads : Builds(u)' =>
          /\ thr'[u].id \in 0 .. nextId' - 1
          /\ \A s \in disk' : segs'[s].id # thr'[u].id
    BY <1>0, <2>1, <2>4 DEF Fresh
  <2>6. \A u, v \in Threads : Builds(u)' /\ Builds(v)' /\ thr'[u].id = thr'[v].id => u = v
    BY <1>0, <2>4 DEF Fresh
  <2> QED BY <2>3, <2>5, <2>6 DEF Fresh
<1>10. Kept'
  <2>1. /\ Indexes' \subseteq disk' \ pending'
        /\ \A s \in sealedHot' : segs'[s].tier = "sealed"
        /\ \A s \in warm' : segs'[s].tier = "warm"
        /\ \A s \in cold' : segs'[s].tier = "cold"
    <3>1. Indexes' \subseteq disk' \ pending'
      BY <1>0, <1>3, <1>7 DEF Kept
    <3>2. \A s \in Indexes : segs'[s] = segs[s]
      BY <1>2, <1>7
    <3> QED BY <3>1, <3>2, <1>0 DEF Kept, Indexes
  <2>2. \A u \in Threads : Holds(u)' =>
          \/ u = t
          \/ u # t /\ Holds(u) /\ thr'[u] = thr[u] /\ MadeTier(u)' = MadeTier(u)
    BY <1>6 DEF Moves, Holds, MadeTier
  <2>3. MadeTier(t)' = tier /\ thr'[t].made = new
    BY <1>6 DEF Moves, MadeTier
  <2>4. \A u \in Threads : Holds(u)' =>
          /\ thr'[u].made \in disk' \ (pending' \cup Indexes')
          /\ segs'[thr'[u].made].tier = MadeTier(u)'
          /\ \A v \in Threads : thr'[u].made \notin thr'[v].cands
    <3> SUFFICES ASSUME NEW u \in Threads, Holds(u)'
                 PROVE  /\ thr'[u].made \in disk' \ (pending' \cup Indexes')
                        /\ segs'[thr'[u].made].tier = MadeTier(u)'
                        /\ \A v \in Threads : thr'[u].made \notin thr'[v].cands
      OBVIOUS
    <3>1. CASE u = t
      BY <3>1, <1>1, <1>2, <1>3, <1>7, <2>3
    <3>2. CASE u # t
      <4>1. /\ Holds(u) /\ thr'[u] = thr[u] /\ MadeTier(u)' = MadeTier(u)
            /\ thr[u].made \in disk \ (pending \cup Indexes)
            /\ segs[thr[u].made].tier = MadeTier(u)
            /\ \A v \in Threads : thr[u].made \notin thr[v].cands
        BY <3>2, <2>2, <1>0 DEF Kept
      <4> QED BY <4>1, <1>2, <1>3, <1>7
    <3> QED BY <3>1, <3>2
  <2>5. \A u, v \in Threads : Holds(u)' /\ Holds(v)' /\ thr'[u].made = thr'[v].made => u = v
    <3>1. \A u \in Threads : Holds(u) => thr[u].made \in Tags
      BY <1>0, <1>7 DEF Kept
    <3>2. \A u \in Threads \ {t} : Holds(u)' => Holds(u) /\ thr'[u].made = thr[u].made
      BY <2>2
    <3>3. \A u \in Threads \ {t} : Holds(u)' => thr'[u].made # new
      BY <3>1, <3>2, <1>2
    <3>4. \A u, v \in Threads : Holds(u) /\ Holds(v) /\ thr[u].made = thr[v].made => u = v
      BY <1>0 DEF Kept
    <3>5. \A u, v \in Threads \ {t} :
            Holds(u)' /\ Holds(v)' /\ thr'[u].made = thr'[v].made => u = v
      BY <3>2, <3>4
    <3> QED BY <3>3, <3>5, <2>3
  <2>6. \A u \in Threads : /\ Compacts(u)' => Compacts(u)
                           /\ Merges(u)' => Merges(u)
                           /\ Retires(u)' => Retires(u)
    <3> SUFFICES ASSUME NEW u \in Threads
                 PROVE  /\ Compacts(u)' => Compacts(u)
                        /\ Merges(u)' => Merges(u)
                        /\ Retires(u)' => Retires(u)
      OBVIOUS
    <3>1. CASE u # t
      BY <3>1, <1>6 DEF Moves, Compacts, Merges, Retires
    <3>2. CASE u = t
      BY <3>2, <1>6 DEF Moves, Compacts, Merges, Retires
    <3> QED BY <3>1, <3>2
  <2>7. \A u \in Threads :
          /\ Compacts(u)' => \A c \in thr'[u].cands : segs'[c].tier = "warm"
          /\ Merges(u)' => \A c \in thr'[u].cands : segs'[c].tier = "sealed"
          /\ Retires(u)' => thr'[u].cands \cap Indexes' = {}
    <3> SUFFICES ASSUME NEW u \in Threads
                 PROVE  /\ Compacts(u)' => \A c \in thr[u].cands : segs'[c].tier = "warm"
                        /\ Merges(u)' => \A c \in thr[u].cands : segs'[c].tier = "sealed"
                        /\ Retires(u)' => thr[u].cands \cap Indexes = {}
      BY <1>7
    <3>1. \A c \in thr[u].cands : segs'[c] = segs[c]
      BY <1>2, <1>7
    <3>2. /\ Compacts(u) => \A c \in thr[u].cands : segs[c].tier = "warm"
          /\ Merges(u) => \A c \in thr[u].cands : segs[c].tier = "sealed"
          /\ Retires(u) => thr[u].cands \cap Indexes = {}
      BY <1>0 DEF Kept
    <3> QED BY <2>6, <3>1, <3>2
  <2>8. \A u \in Threads :
          /\ thr'[u].pc \in {"installCold", "removeMerged", "pushMerged"} => thr'[u].made # 0
          /\ thr'[u].pc = "buildSeg" => thr'[u].made = 0
    BY <1>0, <1>2, <1>6 DEF Kept, Moves
  <2> QED BY <2>1, <2>4, <2>5, <2>7, <2>8 DEF Kept
<1> QED BY <1>8, <1>9, <1>10 DEF IndInv

\* The three builds, succeeding or failing.
LEMMA BuildSteps ==
    ASSUME IndInv, NEW t \in Threads, BuildSegment(t) \/ BuildCold(t) \/ BuildMerged(t)
    PROVE  IndInv'
<1>0. /\ Typed /\ Kept /\ thr[t].id \in Nat /\ thr[t].then \in Afters
      /\ UNCHANGED <<nextId, pending, sealedHot, warm, cold, load, live, next>>
  BY DEF IndInv, Typed, BuildSegment, BuildCold, BuildMerged, lists, recs
<1>1. CASE BuildSegment(t)
  <2>1. thr[t].pc = "buildSeg"
    BY <1>1 DEF BuildSegment, At
  <2>2. CASE Built(t, segs[thr[t].plain].offs, thr[t].tier, thr[t].id, "unlist")
    BY <1>0, <2>1, <2>2, BuiltStep DEF Builds
  <2>3. CASE NotBuilt /\ Goto(t, "unlist")
    <3>1. Moves(t, "unlist", thr[t].cands, thr[t].made, thr[t].id, thr[t].then)
      BY <1>0, <2>3, GotoStep
    <3>2. UNCHANGED <<segs, disk>> /\ thr[t].made = 0 /\ Indexes' = Indexes
      BY <1>0, <2>1, <2>3 DEF NotBuilt, Kept, Indexes
    <3>3. /\ ~Builds(t)' /\ ~Holds(t)'
          /\ Compacts(t)' => Compacts(t)
          /\ Merges(t)' => Merges(t)
          /\ Retires(t)' => Retires(t)
      BY <2>1, <3>1, <3>2 DEF Moves, Builds, Holds, Compacts, Merges, Retires
    <3>4. Own(t)
      BY <1>0, <3>1, <3>2, <3>3 DEF Own, Moves, Kept
    <3> QED BY <1>0, <3>1, <3>2, <3>4, SameLists, MoveKeepsInv
  <2> QED BY <1>1, <2>2, <2>3 DEF BuildSegment
<1>2. CASE BuildCold(t)
  <2>1. thr[t].pc = "buildCold"
    BY <1>2 DEF BuildCold, At
  <2>2. CASE Built(t, Contents(thr[t].cands), "cold", thr[t].id, "installCold")
    BY <1>0, <2>1, <2>2, BuiltStep DEF Builds
  <2>3. CASE NotBuilt /\ Done(t)
    BY <1>0, <2>3, DoneStep, SameStill, LeaveStep DEF NotBuilt, Between, Plain
  <2> QED BY <1>2, <2>2, <2>3 DEF BuildCold
<1>3. CASE BuildMerged(t)
  <2>1. thr[t].pc = "buildMerged"
    BY <1>3 DEF BuildMerged, At
  <2>2. CASE Built(t, Contents(thr[t].cands), "sealed", thr[t].id, "removeMerged")
    BY <1>0, <2>1, <2>2, BuiltStep DEF Builds
  <2>3. CASE NotBuilt /\ Done(t)
    BY <1>0, <2>3, DoneStep, SameStill, LeaveStep DEF NotBuilt, Between, Plain
  <2> QED BY <1>3, <2>2, <2>3 DEF BuildMerged
<1> QED BY <1>1, <1>2, <1>3

-----------------------------------------------------------------------------
(* A restart.                                                               *)

\* SegmentHolder::new finds an id past every directory it keeps.
LEMMA FirstFree ==
    ASSUME IndInv, NEW tags \in SUBSET disk
    PROVE  /\ FirstFreeId(tags) \in 1 .. nextId
           /\ \A s \in tags : segs[s].id < FirstFreeId(tags)
<1> DEFINE Past(n) == \A s \in tags : segs[s].id < n
           Good(n) == Past(n) /\ (n > 1 => \E s \in tags : segs[s].id = n - 1)
           Candidates == {n \in Nat : n >= 1 /\ Past(n)}
<1>1. nextId \in Nat \ {0} /\ \A s \in tags : segs[s].id \in 0 .. nextId - 1
  BY DEF IndInv, Typed, Fresh
<1>2. nextId \in Candidates
  BY <1>1
<1>3. PICK n \in Candidates : \A m \in Candidates : n <= m
  <2>1. IsWellFoundedOn(OpToRel(<, Nat), Nat)
    BY NatLessThanWellFounded
  <2>2. Candidates \subseteq Nat /\ Candidates # {}
    BY <1>2
  <2> HIDE DEF Candidates
  <2>3. PICK n \in Candidates : \A m \in Candidates : <<m, n>> \notin OpToRel(<, Nat)
    BY <2>1, <2>2, WFMin
  <2>4. \A m \in Candidates : ~(m < n)
    BY ZenonT(40), <2>2, <2>3 DEF OpToRel
  <2>5. \A m \in Candidates : n <= m
    BY <2>2, <2>4
  <2> QED BY <2>5
<1>4. n \in 1 .. nextId
  BY <1>1, <1>2, <1>3
<1>5. Good(n)
  <2>1. CASE n = 1
    BY <2>1, <1>3
  <2>2. CASE n > 1
    <3>1. n - 1 \in Nat /\ n - 1 >= 1 /\ ~(n <= n - 1)
      BY <2>2, <1>4
    <3>2. n - 1 \notin Candidates
      BY <3>1, <1>3
    <3>3. PICK s \in tags : ~(segs[s].id < n - 1)
      BY <3>1, <3>2
    <3>4. segs[s].id \in Nat /\ segs[s].id < n
      BY <1>1, <1>3, <3>3
    <3>5. segs[s].id = n - 1
      BY <3>1, <3>3, <3>4, <1>4
    <3> QED BY <3>5, <1>3
  <2> QED BY <2>1, <2>2, <1>4
<1>6. FirstFreeId(tags) = CHOOSE m \in 1 .. nextId : Good(m)
  BY DEF FirstFreeId
<1> HIDE DEF Good
<1>7. FirstFreeId(tags) \in 1 .. nextId /\ Good(FirstFreeId(tags))
  BY <1>4, <1>5, <1>6
<1> QED BY <1>7 DEF Good

\* The number of full Hot segments is a natural number.
LEMMA Quotient ==
    ASSUME NEW a \in Nat, NEW b \in Nat \ {0}
    PROVE  a \div b \in Nat
OBVIOUS

\* The segments that from_records rebuilds come after the old ones.
LEMMA RebuiltSegs ==
    ASSUME Typed, NEW offs, IsFiniteSet(offs), segs' = segs \o Rebuilt(offs).plains
    PROVE  Extends
<1> DEFINE full == Cardinality(offs) \div HotCapacity
           plain(i) == [tier |-> "plain", id |-> 0, offs |->
               Range(SubSeq(SetToSortSeq(offs, <), (i - 1) * HotCapacity + 1, i * HotCapacity))]
           plains == [i \in 1 .. full |-> plain(i)]
           S == Range(segs) \cup {plain(i) : i \in 1 .. full}
<1>1. full \in Nat
  <2>1. Cardinality(offs) \in Nat
    BY FS_CardinalityType
  <2>2. HotCapacity \in Nat \ {0}
    BY SegmentsAssumption DEF Typed, HotCapacity
  <2> QED BY <2>1, <2>2, Quotient
<1>2. Rebuilt(offs).plains = plains
  BY DEF Rebuilt
<1> HIDE DEF full, plain
<1>3. plains \in Seq(S)
  <2>1. plains \in [1 .. full -> S]
    OBVIOUS
  <2> QED BY <1>1, <2>1
<1>4. segs \in Seq(S)
  BY DEF Typed
<1> HIDE DEF plains, S
<1>5. /\ segs' \in Seq(S) /\ Len(segs') = Len(segs) + Len(plains)
      /\ \A i \in 1 .. Len(segs) + Len(plains) :
            segs'[i] = IF i <= Len(segs) THEN segs[i] ELSE plains[i - Len(segs)]
  BY <1>2, <1>3, <1>4, ConcatProperties
<1>6. Len(segs) \in Nat /\ Len(plains) \in Nat /\ Len(segs') \in Nat
  BY <1>3, <1>4, <1>5, LenProperties
<1>7. segs' \in Seq(Range(segs'))
  BY Zenon, <1>5, OwnRange
<1>8. \A s \in Tags : segs'[s] = segs[s]
  BY <1>5, <1>6 DEF Tags
<1>9. Len(segs) <= Len(segs')
  BY <1>5, <1>6
<1> QED BY ZenonT(40), <1>7, <1>8, <1>9 DEF Extends

\* A restart keeps what it loads and starts over otherwise.
LEMMA RestartStep ==
    ASSUME IndInv, NEW bad \in SUBSET disk, NEW stuck \in SUBSET (disk \ bad),
           NEW back \in {live, live \ deleted}, Restart(bad, stuck, back)
    PROVE  IndInv'
<1> DEFINE read == disk \ bad
           loaded == OfTier(read, "cold") \cup LoadedWarm(read) \cup LoadedSealed(read)
<1>0. Typed /\ Fresh /\ Kept
  BY DEF IndInv
<1>1. /\ cold' = OfTier(read, "cold") /\ warm' = LoadedWarm(read)
      /\ sealedHot' = LoadedSealed(read)
      /\ disk' = loaded \cup stuck /\ nextId' = FirstFreeId(loaded \cup stuck)
      /\ segs' = segs \o Rebuilt(back \ Contents(loaded)).plains
      /\ pending' = {} /\ live' = back
      /\ thr' = [t \in Threads |-> Idle]
      /\ UNCHANGED <<next, load>>
  BY Zenon DEF Restart
<1>2. /\ OfTier(read, "cold") \subseteq {s \in read : segs[s].tier = "cold"}
      /\ LoadedWarm(read) \subseteq {s \in read : segs[s].tier = "warm"}
      /\ LoadedSealed(read) \subseteq {s \in read : segs[s].tier = "sealed"}
  BY DEF OfTier, LoadedWarm, LoadedSealed
<1> HIDE DEF loaded
<1>3. loaded \cup stuck \in SUBSET disk /\ Indexes' = loaded
  BY Zenon, <1>1, <1>2 DEF loaded, Indexes
<1>4. IsFiniteSet(back) /\ IsFiniteSet(back \ Contents(loaded))
  <2>1. IsFiniteSet(live) /\ back \subseteq live
    BY <1>0 DEF Typed, Counted
  <2>2. IsFiniteSet(back)
    BY <2>1, FS_Subset
  <2> QED BY <2>2, FS_Subset
<1>5. Extends
  BY ZenonT(40), <1>0, <1>1, <1>4, RebuiltSegs
<1>6. /\ nextId' \in Nat \ {0}
      /\ \A s \in disk' : segs[s].id < nextId'
  <2>1. /\ FirstFreeId(loaded \cup stuck) \in 1 .. nextId
        /\ \A s \in loaded \cup stuck : segs[s].id < FirstFreeId(loaded \cup stuck)
    BY <1>3, FirstFree
  <2>2. nextId \in Nat
    BY <1>0 DEF Typed
  <2>3. nextId' \in 1 .. nextId /\ \A s \in disk' : segs[s].id < nextId'
    BY ZenonT(40), <1>1, <2>1
  <2> QED BY <2>2, <2>3
<1>7. /\ disk' \subseteq disk /\ disk \subseteq Tags /\ Tags \subseteq Tags'
      /\ \A s \in disk : segs'[s] = segs[s]
  <2>1. disk' \subseteq disk /\ disk \subseteq Tags
    BY <1>0, <1>1, <1>3 DEF Typed
  <2>2. Len(segs) \in Nat /\ Len(segs') \in Nat
    BY <1>0, <1>5, LenProperties DEF Typed, Extends
  <2> QED BY <2>1, <2>2, <1>5 DEF Extends, Tags
<1>8. /\ thr' = [t \in Threads |-> thr'[t]]
      /\ \A t \in Threads :
            /\ thr'[t] = [f \in Fields |-> thr'[t][f]]
            /\ thr'[t].pc = "idle" /\ thr'[t].cands = {} /\ thr'[t].made = 0
            /\ thr'[t].id = 0 /\ thr'[t].then = "idle"
  <2>1. /\ Idle = [f \in Fields |-> Idle[f]] /\ Idle.pc = "idle" /\ Idle.cands = {}
        /\ Idle.made = 0 /\ Idle.id = 0 /\ Idle.then = "idle"
    BY DEF Fields, Idle
  <2>2. \A t \in Threads : thr'[t] = Idle
    BY <1>1
  <2>3. thr' = [t \in Threads |-> thr'[t]]
    BY <1>1
  <2> QED BY <2>1, <2>2, <2>3
<1>9. Typed'
  <2>1. Counted' /\ load' \in Loads
    BY <1>0, <1>1, <1>4 DEF Typed, Counted
  <2>2. disk' \subseteq Tags' /\ pending' \subseteq Tags' /\ Indexes' \subseteq Tags'
    BY <1>1, <1>3, <1>7
  <2> QED BY <1>5, <1>6, <1>8, <2>1, <2>2 DEF Typed, Extends, Afters
<1>10. Fresh'
  <2>1. \A s \in disk' : segs'[s].id \in 0 .. nextId' - 1
    BY <1>0, <1>6, <1>7 DEF Fresh, Typed
  <2>2. \A s, r \in disk' : segs'[s].id = segs'[r].id => s = r
    BY <1>0, <1>7 DEF Fresh
  <2> QED BY <1>8, <2>1, <2>2 DEF Fresh, Builds
<1>11. Kept'
  <2>1. Indexes' \subseteq disk' \ pending'
    BY <1>1, <1>3
  <2>2. /\ \A s \in sealedHot' : segs'[s].tier = "sealed"
        /\ \A s \in warm' : segs'[s].tier = "warm"
        /\ \A s \in cold' : segs'[s].tier = "cold"
    BY Zenon, <1>1, <1>2, <1>7
  <2>3. \A t \in Threads : ~Holds(t)' /\ ~Compacts(t)' /\ ~Merges(t)' /\ ~Retires(t)'
    BY <1>8 DEF Holds, Compacts, Merges, Retires
  <2> QED BY <1>8, <2>1, <2>2, <2>3 DEF Kept
<1> QED BY <1>9, <1>10, <1>11 DEF IndInv

-----------------------------------------------------------------------------
(* The theorems.                                                            *)

\* The invariant holds at first.
LEMMA InitSound == Init => IndInv
<1> SUFFICES ASSUME Init PROVE IndInv
  OBVIOUS
<1>1. /\ \A t \in Threads : thr[t] = Idle
      /\ thr = [t \in Threads |-> thr[t]]
  BY DEF Init
<1>2. /\ Idle = [f \in Fields |-> Idle[f]] /\ Idle.pc = "idle" /\ Idle.cands = {}
      /\ Idle.made = 0 /\ Idle.id = 0 /\ Idle.then = "idle"
  BY DEF Fields, Idle
<1>3. Typed
  <2>1. segs \in Seq(Range(segs))
    BY DEF Init
  <2>2. Counted
    BY FS_EmptySet DEF Init, Counted
  <2>3. /\ disk = {} /\ pending = {} /\ Indexes = {} /\ nextId = 1 /\ load \in Loads
    BY DEF Init, Indexes
  <2> QED BY <1>1, <1>2, <2>1, <2>2, <2>3 DEF Typed, Afters
<1>4. Fresh
  BY <1>1, <1>2 DEF Init, Fresh, Builds
<1>5. Kept
  BY <1>1, <1>2 DEF Init, Kept, Indexes, Holds, Compacts, Merges, Retires
<1> QED BY <1>3, <1>4, <1>5 DEF IndInv

\* Every step preserves the invariant.
LEMMA NextSound == IndInv /\ [Next]_vars => IndInv'
<1> SUFFICES ASSUME IndInv, [Next]_vars PROVE IndInv'
  OBVIOUS
<1>1. CASE UNCHANGED vars
  <2>1. UNCHANGED <<thr, segs, disk, pending, nextId, sealedHot, warm, cold, load, live, next>>
    BY <1>1 DEF vars, lists, recs, counters
  <2>2. /\ UNCHANGED <<Tags, Indexes, Counted>>
        /\ \A t \in Threads : UNCHANGED <<Builds(t), Holds(t), Compacts(t), Merges(t), Retires(t),
                                         MadeTier(t)>>
    BY <2>1 DEF Tags, Indexes, Counted, Builds, Holds, Compacts, Merges, Retires, MadeTier
  <2>3. Typed'
    BY <2>1, <2>2 DEF IndInv, Typed
  <2>4. Fresh'
    BY <2>1, <2>2 DEF IndInv, Fresh
  <2>5. Kept'
    BY ZenonT(40), <2>1, <2>2 DEF IndInv, Kept
  <2> QED BY <2>3, <2>4, <2>5 DEF IndInv
<1>2. CASE (\E n \in 1 .. MaxBatch : BeginBatch(n)) \/ Insert \/ (\E o \in Offsets : Delete(o))
  BY <1>2, WriterSteps
<1>3. ASSUME NEW t \in Maintainers,
             \/ BeginSeal(t) \/ PopSealing(t) \/ BeginCompaction(t)
             \/ CaptureMerge(t) \/ BeginPromotion(t)
             \/ \E o \in Offsets : PromoteGet(t, o)
      PROVE  IndInv'
  <2>1. t \in Threads
    BY DEF Threads
  <2> QED BY <1>3, <2>1, SealSteps, CaptureSteps, PromotionSteps
<1>4. ASSUME NEW t \in Threads, Continue(t) PROVE IndInv'
  BY <1>4, SealSteps, CaptureSteps, PromotionSteps, ListSteps, RemovalSteps, BuildSteps DEF Continue
<1>5. ASSUME NEW gone \in SUBSET pending, Cleanup(gone) PROVE IndInv'
  BY <1>5, CleanupStep
<1>6. ASSUME NEW bad \in SUBSET disk, NEW stuck \in SUBSET (disk \ bad),
             NEW back \in {live, live \ deleted}, Restart(bad, stuck, back)
      PROVE  IndInv'
  BY <1>6, RestartStep
<1> QED BY <1>1, <1>2, <1>3, <1>4, <1>5, <1>6 DEF Next

\* The invariant holds throughout: what SegmentHolder lists is on disk, and the
\* ids of directories, written or about to be, differ.
THEOREM SegmentsInductive == Spec => []IndInv
BY InitSound, NextSound, PTL DEF Spec

\* Whatever seals, merges, compactions, failed builds and restarts interleave,
\* next_segment_id never gives out the path of a directory that exists.
THEOREM PathsAreDistinct == Spec => []DistinctDirectories
<1>1. IndInv => DistinctDirectories
  BY DEF IndInv, Fresh, DistinctDirectories
<1> QED BY <1>1, SegmentsInductive, PTL

\* discard_segment_dir and try_cleanup_pending never take the directory of a
\* segment that is on a list.
THEOREM DirectoriesAreKept == Spec => []ListedHasDirectory
<1>1. IndInv => ListedHasDirectory
  BY DEF IndInv, Kept, Indexes, ListedHasDirectory
<1> QED BY <1>1, SegmentsInductive, PTL

=============================================================================
