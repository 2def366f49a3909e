------------------------- MODULE SegmentsListProofs -------------------------
(***************************************************************************)
(* The steps of Segments that take an id or candidates, change the lists   *)
(* or remove a directory preserve the invariant of SegmentsProofs.         *)
(***************************************************************************)
EXTENDS SegmentsProofs

-----------------------------------------------------------------------------
(* The steps that take an id or candidates, and the ones that change lists. *)

\* A step that leaves lists and directories alone.
LEMMA SameLists ==
    ASSUME IndInv, NEW t \in Threads, UNCHANGED <<disk, pending, sealedHot, warm, cold>>
    PROVE  Lists(t) /\ Drops({}) /\ Indexes' = Indexes
BY DEF Lists, Drops, IndInv, Kept, Indexes

\* StepKeepsInv for a step that makes no segment.
LEMMA MoveKeepsInv ==
    ASSUME IndInv, NEW t \in Threads, NEW gone, NEW pc, NEW cands, NEW made, NEW id, NEW then,
           Moves(t, pc, cands, made, id, then), Own(t), Lists(t), Drops(gone),
           UNCHANGED <<segs, load, live, next>>
    PROVE  IndInv'
<1>1. Extends /\ Counted'
  BY SameSegs DEF IndInv, Typed, Counted
<1> QED BY <1>1, StepKeepsInv DEF Moves

\* The steps that take an id from next_segment_id or capture candidates.
LEMMA CaptureSteps ==
    ASSUME IndInv, NEW t \in Threads,
           PopSealing(t) \/ CaptureWarm(t) \/ CaptureMerge(t) \/ AcquireMerge(t)
    PROVE  IndInv'
<1>0. /\ Typed /\ thr[t] = [f \in Fields |-> thr[t][f]] /\ nextId \in Nat
      /\ thr[t].then \in Afters
  BY DEF IndInv, Typed
<1>1. CASE PopSealing(t)
  <2>1. /\ nextId' = nextId + 1
        /\ UNCHANGED <<segs, disk, pending, sealedHot, warm, cold, load, live, next>>
    BY <1>1 DEF PopSealing, counters, recs
  <2>2. PICK plain, tier :
           thr' = [thr EXCEPT ![t] = [Idle EXCEPT !.pc = "buildSeg", !.plain = plain,
                                                  !.tier = tier, !.id = nextId]]
    BY Zenon, <1>1 DEF PopSealing
  <2> DEFINE r == [Idle EXCEPT !.pc = "buildSeg", !.plain = plain, !.tier = tier, !.id = nextId]
  <2>3. /\ r = [f \in Fields |-> r[f]] /\ r.pc = "buildSeg" /\ r.cands = {} /\ r.made = 0
        /\ r.id = nextId /\ r.then = "idle"
    BY Zenon DEF Fields, Idle
  <2>4. thr' = [thr EXCEPT ![t] = r]
    BY <2>2
  <2> HIDE DEF r
  <2>5. Moves(t, r.pc, r.cands, r.made, r.id, r.then)
    BY <1>0, <2>3, <2>4, Becomes
  <2>6. Moves(t, "buildSeg", {}, 0, nextId, "idle")
    BY <2>3, <2>5
  <2>7. Own(t)
    BY <1>0, <2>1, <2>6 DEF Moves, Own, Afters, Builds, Holds, Compacts, Merges, Retires
  <2> QED BY <2>1, <2>6, <2>7, SameLists, MoveKeepsInv
<1>2. CASE CaptureWarm(t)
  <2>1. UNCHANGED <<segs, disk, pending, sealedHot, warm, cold, load, live, next>>
    BY <1>2 DEF CaptureWarm, lists, counters, recs
  <2>2. CASE Done(t) /\ UNCHANGED nextId
    BY <1>0, <2>1, <2>2, DoneStep, SameStill, LeaveStep DEF Between, Plain
  <2> DEFINE r == [Idle EXCEPT !.pc = "buildCold", !.cands = warm, !.id = nextId]
  <2>3. CASE thr' = [thr EXCEPT ![t] = r] /\ nextId' = nextId + 1
    <3>1. /\ r = [f \in Fields |-> r[f]] /\ r.pc = "buildCold" /\ r.cands = warm /\ r.made = 0
          /\ r.id = nextId /\ r.then = "idle"
      BY Zenon DEF Fields, Idle
    <3> HIDE DEF r
    <3>2. Moves(t, r.pc, r.cands, r.made, r.id, r.then)
      BY ZenonT(40), <1>0, <2>3, <3>1, Becomes
    <3>3. Moves(t, "buildCold", warm, 0, nextId, "idle")
      BY <3>1, <3>2
    <3>4. warm \subseteq Indexes /\ \A c \in warm : segs[c].tier = "warm"
      BY DEF IndInv, Kept, Indexes
    <3>5. Own(t)
      BY <1>0, <2>3, <3>3, <3>4 DEF Moves, Own, Afters, Builds, Holds, Compacts, Merges, Retires
    <3> QED BY <2>1, <3>3, <3>5, SameLists, MoveKeepsInv
  <2> HIDE DEF r
  <2> QED BY <1>2, <2>2, <2>3 DEF CaptureWarm, r
<1>3. CASE CaptureMerge(t)
  <2> DEFINE r == [Idle EXCEPT !.pc = "acquire", !.cands = MergeCandidates]
  <2>1. /\ thr' = [thr EXCEPT ![t] = r]
        /\ UNCHANGED <<segs, disk, pending, nextId, sealedHot, warm, cold, load, live, next>>
    BY <1>3 DEF CaptureMerge, lists, counters, recs
  <2>2. MergeCandidates \subseteq sealedHot
    BY DEF MergeCandidates
  <2>3. /\ MergeCandidates \subseteq Indexes
        /\ \A c \in MergeCandidates : segs[c].tier = "sealed"
    BY <2>2 DEF IndInv, Kept, Indexes
  <2>4. /\ r = [f \in Fields |-> r[f]] /\ r.pc = "acquire" /\ r.cands = MergeCandidates
        /\ r.made = 0 /\ r.id = 0 /\ r.then = "idle"
    BY ZenonT(40) DEF Fields, Idle
  <2> HIDE DEF r
  <2>5. Moves(t, r.pc, r.cands, r.made, r.id, r.then)
    BY <1>0, <2>1, <2>4, Becomes
  <2>6. Moves(t, "acquire", MergeCandidates, 0, 0, "idle")
    BY <2>4, <2>5
  <2>7. Own(t)
    BY <2>1, <2>3, <2>6 DEF Moves, Own, Afters, Builds, Holds, Compacts, Merges, Retires
  <2> QED BY <2>1, <2>6, <2>7, SameLists, MoveKeepsInv
<1>4. CASE AcquireMerge(t)
  <2>1. /\ UNCHANGED <<segs, disk, pending, sealedHot, warm, cold, load, live, next>>
        /\ thr[t].pc = "acquire"
    BY <1>4 DEF AcquireMerge, lists, counters, recs, At
  <2>2. CASE Done(t) /\ UNCHANGED nextId
    BY <1>0, <2>1, <2>2, DoneStep, SameStill, LeaveStep DEF Between, Plain
  <2>3. CASE thr' = [thr EXCEPT ![t].pc = "buildMerged", ![t].id = nextId] /\ nextId' = nextId + 1
    <3> DEFINE r == [thr[t] EXCEPT !.pc = "buildMerged", !.id = nextId]
    <3>1. thr' = [thr EXCEPT ![t] = r]
      BY Zenon, <2>3, <1>0 DEF Typed
    <3>2. /\ r = [f \in Fields |-> r[f]] /\ r.pc = "buildMerged" /\ r.cands = thr[t].cands
          /\ r.made = thr[t].made /\ r.id = nextId /\ r.then = thr[t].then
      BY Zenon, <1>0, FieldsOfIdle
    <3> HIDE DEF r
    <3>3. Moves(t, "buildMerged", thr[t].cands, thr[t].made, nextId, thr[t].then)
      BY <1>0, <3>1, <3>2, Becomes
    <3>4. /\ Compacts(t)' => Compacts(t)
          /\ Merges(t)
          /\ Retires(t)' => Retires(t)
          /\ ~Holds(t)'
      BY <2>1, <3>3 DEF Moves, Compacts, Merges, Retires, Holds
    <3>5. Indexes' = Indexes
      BY <2>1 DEF Indexes
    <3>6. /\ Compacts(t)' => \A c \in thr'[t].cands : segs[c].tier = "warm"
          /\ Merges(t)' => \A c \in thr'[t].cands : segs[c].tier = "sealed"
          /\ Retires(t)' => thr'[t].cands \cap Indexes' = {}
      BY <3>3, <3>4, <3>5 DEF IndInv, Kept, Moves
    <3>7. Own(t)
      BY ZenonT(40), <1>0, <2>3, <3>3, <3>4, <3>6 DEF Moves, Own
    <3> QED BY <2>1, <3>3, <3>7, SameLists, MoveKeepsInv
  <2> QED BY <1>4, <2>2, <2>3 DEF AcquireMerge
<1> QED BY <1>1, <1>2, <1>3, <1>4

\* The steps that put a segment on a list or take some off.
LEMMA ListSteps ==
    ASSUME IndInv, NEW t \in Threads,
           RemovePlain(t) \/ PushBuilt(t) \/ InstallCold(t) \/ RemoveMerged(t) \/ PushMerged(t)
    PROVE  IndInv'
<1>0. /\ Typed /\ thr[t] = [f \in Fields |-> thr[t][f]] /\ thr[t].id \in Nat
      /\ thr[t].then \in Afters /\ Kept
  BY DEF IndInv, Typed
<1>1. CASE RemovePlain(t)
  <2>1. /\ thr[t].pc = "unlist" /\ Goto(t, "push")
        /\ UNCHANGED <<segs, disk, nextId, pending, sealedHot, warm, cold, load, live, next>>
    BY <1>1 DEF RemovePlain, At, counters, recs
  <2>2. /\ Moves(t, "push", thr[t].cands, thr[t].made, thr[t].id, thr[t].then)
        /\ thr'[t].tier = thr[t].tier
    BY <1>0, <2>1, GotoStep
  <2>3. /\ ~Builds(t)'
        /\ Holds(t)' => Holds(t) /\ MadeTier(t)' = MadeTier(t)
        /\ Compacts(t)' => Compacts(t)
        /\ Merges(t)' => Merges(t)
        /\ Retires(t)' => Retires(t)
    BY <2>1, <2>2 DEF Moves, Builds, Compacts, Merges, Retires, Holds, MadeTier
  <2>4. Indexes' = Indexes
    BY <2>1 DEF Indexes
  <2>5. Own(t)
    BY <1>0, <2>1, <2>2, <2>3, <2>4 DEF Own, Kept, Moves
  <2> QED BY <2>1, <2>2, <2>5, SameLists, MoveKeepsInv
<1>2. CASE PushBuilt(t)
  <2> DEFINE then == IF PushedTier(t) = "warm" THEN "compact" ELSE "idle"
             r == [thr[t] EXCEPT !.pc = "build", !.then = then]
  <2>1. /\ thr[t].pc = "push"
        /\ UNCHANGED <<segs, disk, nextId, pending, cold, load, live, next>>
    BY <1>2 DEF PushBuilt, At, counters, recs
  <2>2. /\ sealedHot' = IF PushedTier(t) = "sealed" THEN sealedHot \cup {thr[t].made} ELSE sealedHot
        /\ warm' = IF PushedTier(t) = "warm" THEN warm \cup {thr[t].made} ELSE warm
        /\ thr' = [thr EXCEPT ![t].pc = "build", ![t].then = then]
    BY <1>2, ZenonT(40) DEF PushBuilt
  <2>3. thr' = [thr EXCEPT ![t] = r]
    BY Zenon, <1>0, <2>2 DEF Typed
  <2>4. /\ r = [f \in Fields |-> r[f]] /\ r.pc = "build" /\ r.cands = thr[t].cands
        /\ r.made = thr[t].made /\ r.id = thr[t].id /\ r.then = then
    BY Zenon, <1>0, FieldsOfIdle
  <2>5. then \in {"compact", "idle"}
    OBVIOUS
  <2> HIDE DEF r, then
  <2>6. Moves(t, "build", thr[t].cands, thr[t].made, thr[t].id, then)
    BY <1>0, <2>3, <2>4, Becomes
  <2>7. /\ ~Builds(t)' /\ ~Holds(t)' /\ ~Compacts(t)' /\ ~Merges(t)' /\ ~Retires(t)'
        /\ thr'[t].pc \notin {"installCold", "removeMerged", "pushMerged", "buildSeg"}
    BY <2>5, <2>6 DEF Moves, Builds, Holds, Compacts, Merges, Retires
  <2>8. Own(t)
    BY <1>0, <2>1, <2>5, <2>6, <2>7 DEF Own, Moves, Afters
  <2>9. PushedTier(t) \in {"sealed", "warm"} => Holds(t) /\ segs[thr[t].made].tier = PushedTier(t)
    BY <1>0, <2>1 DEF PushedTier, Holds, Kept, MadeTier
  <2>10. Lists(t)
    BY <1>0, <2>1, <2>2, <2>9 DEF Lists, Indexes, Kept
  <2>11. Drops({})
    BY <2>1 DEF Drops
  <2> QED BY <2>1, <2>6, <2>8, <2>10, <2>11, MoveKeepsInv
<1>3. CASE InstallCold(t)
  <2> DEFINE r == [thr[t] EXCEPT !.pc = "build", !.then = "discard"]
  <2>1. /\ thr[t].pc = "installCold"
        /\ UNCHANGED <<segs, disk, nextId, pending, sealedHot, load, live, next>>
        /\ cold' = cold \cup {thr[t].made} /\ warm' = warm \ thr[t].cands
    BY <1>3 DEF InstallCold, At, counters, recs, WarmWithout
  <2>2. thr' = [thr EXCEPT ![t] = r]
    BY Zenon, <1>3, <1>0 DEF InstallCold, Typed
  <2>3. /\ r = [f \in Fields |-> r[f]] /\ r.pc = "build" /\ r.cands = thr[t].cands
        /\ r.made = thr[t].made /\ r.id = thr[t].id /\ r.then = "discard"
    BY Zenon, <1>0, FieldsOfIdle
  <2> HIDE DEF r
  <2>4. Moves(t, "build", thr[t].cands, thr[t].made, thr[t].id, "discard")
    BY <1>0, <2>2, <2>3, Becomes
  <2>5. /\ ~Builds(t)' /\ ~Holds(t)' /\ ~Merges(t)'
        /\ thr'[t].pc \notin {"installCold", "removeMerged", "pushMerged", "buildSeg"}
    BY <2>4 DEF Moves, Builds, Holds, Merges
  <2>6. Holds(t) /\ Compacts(t) /\ MadeTier(t) = "cold"
    BY <1>0, <2>1 DEF Holds, Compacts, Kept, MadeTier
  <2>7. /\ \A c \in thr[t].cands : segs[c].tier = "warm"
        /\ segs[thr[t].made].tier = "cold" /\ thr[t].made \notin thr[t].cands
    BY <1>0, <2>6 DEF Kept
  <2>8. thr[t].cands \cap Indexes' = {}
    BY <1>0, <2>1, <2>7 DEF Kept, Indexes
  <2>9. Own(t)
    BY ZenonT(40), <1>0, <2>1, <2>4, <2>5, <2>7, <2>8 DEF Own, Moves, Afters
  <2>10. Lists(t)
    BY <1>0, <2>1, <2>6, <2>7 DEF Lists, Indexes, Kept
  <2>11. Drops({})
    BY <2>1 DEF Drops
  <2> QED BY <2>1, <2>4, <2>9, <2>10, <2>11, MoveKeepsInv
<1>4. CASE RemoveMerged(t)
  <2>1. /\ thr[t].pc = "removeMerged" /\ Goto(t, "pushMerged")
        /\ UNCHANGED <<segs, disk, nextId, pending, warm, cold, load, live, next>>
        /\ sealedHot' = sealedHot \ thr[t].cands
    BY <1>4 DEF RemoveMerged, At, counters, recs, SealedHotWithout
  <2>2. Moves(t, "pushMerged", thr[t].cands, thr[t].made, thr[t].id, thr[t].then)
    BY <1>0, <2>1, GotoStep
  <2>3. /\ ~Builds(t)' /\ Holds(t) /\ Merges(t)
        /\ MadeTier(t)' = "sealed" /\ MadeTier(t) = "sealed"
        /\ Compacts(t)' => Compacts(t)
    BY <1>0, <2>1, <2>2 DEF Moves, Builds, Compacts, Merges, Holds, MadeTier, Kept
  <2>4. \A c \in thr[t].cands : segs[c].tier = "sealed"
    BY <1>0, <2>3 DEF Kept
  <2>5. thr[t].cands \cap Indexes' = {} /\ Indexes' \subseteq Indexes
    BY <1>0, <2>1, <2>4 DEF Kept, Indexes
  <2>6. Own(t)
    <3>1. thr[t].made \notin Indexes' /\ thr[t].made # 0
      BY <1>0, <2>1, <2>3, <2>5 DEF Kept
    <3>2. Compacts(t)' => \A c \in thr[t].cands : segs[c].tier = "warm"
      BY <1>0, <2>3 DEF Kept
    <3>3. /\ thr'[t].pc = "pushMerged" /\ thr'[t].cands = thr[t].cands
          /\ thr'[t].made = thr[t].made /\ thr'[t].id = thr[t].id /\ thr'[t].then = thr[t].then
      BY <2>2 DEF Moves
    <3> QED BY <1>0, <2>1, <2>3, <2>4, <2>5, <3>1, <3>2, <3>3 DEF Own
  <2>7. Lists(t) /\ Drops({})
    BY Zenon, <1>0, <2>1, <2>5 DEF Lists, Drops, Kept
  <2> QED BY <2>1, <2>2, <2>6, <2>7, MoveKeepsInv
<1>5. CASE PushMerged(t)
  <2> DEFINE r == [thr[t] EXCEPT !.pc = "build", !.then = "defer"]
  <2>1. /\ thr[t].pc = "pushMerged"
        /\ UNCHANGED <<segs, disk, nextId, pending, warm, cold, load, live, next>>
        /\ sealedHot' = sealedHot \cup {thr[t].made}
    BY <1>5 DEF PushMerged, At, counters, recs
  <2>2. thr' = [thr EXCEPT ![t] = r]
    BY Zenon, <1>5, <1>0 DEF PushMerged, Typed
  <2>3. /\ r = [f \in Fields |-> r[f]] /\ r.pc = "build" /\ r.cands = thr[t].cands
        /\ r.made = thr[t].made /\ r.id = thr[t].id /\ r.then = "defer"
    BY Zenon, <1>0, FieldsOfIdle
  <2> HIDE DEF r
  <2>4. Moves(t, "build", thr[t].cands, thr[t].made, thr[t].id, "defer")
    BY <1>0, <2>2, <2>3, Becomes
  <2>5. /\ ~Builds(t)' /\ ~Holds(t)' /\ ~Compacts(t)'
        /\ thr'[t].pc \notin {"installCold", "removeMerged", "pushMerged", "buildSeg"}
    BY <2>4 DEF Moves, Builds, Holds, Compacts
  <2>6. Holds(t) /\ Merges(t) /\ Retires(t) /\ MadeTier(t) = "sealed"
    BY <1>0, <2>1 DEF Holds, Merges, Retires, Kept, MadeTier
  <2>7. /\ \A c \in thr[t].cands : segs[c].tier = "sealed"
        /\ thr[t].cands \cap Indexes = {}
        /\ segs[thr[t].made].tier = "sealed" /\ thr[t].made \notin thr[t].cands
    BY <1>0, <2>6 DEF Kept
  <2>8. thr[t].cands \cap Indexes' = {}
    BY <2>1, <2>7 DEF Indexes
  <2>9. Own(t)
    BY ZenonT(40), <1>0, <2>1, <2>4, <2>5, <2>7, <2>8 DEF Own, Moves, Afters
  <2>10. Lists(t)
    BY <1>0, <2>1, <2>6, <2>7 DEF Lists, Indexes, Kept
  <2>11. Drops({})
    BY <2>1 DEF Drops
  <2> QED BY ZenonT(40), <2>1, <2>4, <2>9, <2>10, <2>11, MoveKeepsInv
<1> QED BY <1>1, <1>2, <1>3, <1>4, <1>5

\* The replaced directories are removed or remembered.
LEMMA RemovalSteps ==
    ASSUME IndInv, NEW t \in Threads, DiscardWarm(t) \/ DeferRemoval(t)
    PROVE  IndInv'
<1>0. Typed /\ Kept /\ thr[t].cands \subseteq Tags /\ disk \subseteq Tags
  BY DEF IndInv, Typed
<1>1. /\ Done(t) /\ Retires(t)
      /\ UNCHANGED <<segs, nextId, sealedHot, warm, cold, load, live, next>>
  BY DEF DiscardWarm, DeferRemoval, At, Retires, lists, counters, recs
<1>2. Moves(t, "idle", {}, 0, 0, "idle")
  BY <1>0, <1>1, DoneStep
<1>3. PICK gone : /\ gone \subseteq thr[t].cands
                  /\ disk' = disk \ gone \/ disk' = disk
                  /\ pending' = pending \cup gone \/ pending' = pending
  <2>1. CASE DiscardWarm(t)
    BY ZenonT(40), <2>1 DEF DiscardWarm, ReplacedDirs
  <2>2. CASE DeferRemoval(t)
    BY <2>2 DEF DeferRemoval
  <2> QED BY <2>1, <2>2
<1>4. /\ gone \cap Indexes = {} /\ Indexes' = Indexes
      /\ \A u \in Threads : Holds(u) => thr[u].made \notin gone
  BY <1>0, <1>1, <1>3 DEF Kept, Indexes
<1>5. Drops(gone)
  BY <1>0, <1>3, <1>4 DEF Drops
<1>6. Lists(t)
  BY <1>0, <1>1, <1>4 DEF Lists, Kept
<1>7. Own(t)
  BY <1>1, <1>2 DEF Own, Moves, Afters, Builds, Holds, Compacts, Merges, Retires
<1> QED BY <1>1, <1>2, <1>5, <1>6, <1>7, MoveKeepsInv

\* cleanup_pending_dirs and try_cleanup_pending.
LEMMA CleanupStep ==
    ASSUME IndInv, NEW gone \in SUBSET pending, Cleanup(gone)
    PROVE  IndInv'
<1>0. Typed /\ Kept /\ pending \subseteq Tags
  BY DEF IndInv, Typed
<1>1. PICK t \in Threads : thr[t].pc = "idle"
  BY DEF Cleanup, MayStart, At, Threads
<1>2. /\ disk' = disk \ gone /\ pending' = pending \ gone
      /\ UNCHANGED <<segs, nextId, thr, sealedHot, warm, cold, load, live, next>>
  BY DEF Cleanup, lists, counters, recs
<1>3. Moves(t, "idle", thr[t].cands, thr[t].made, thr[t].id, thr[t].then)
  BY <1>0, <1>1, <1>2 DEF Moves, Typed
<1>4. Indexes' = Indexes /\ gone \cap Indexes = {}
  BY <1>0, <1>2 DEF Indexes, Kept
<1>5. Drops(gone)
  BY <1>0, <1>2, <1>4 DEF Drops, Kept
<1>6. Lists(t)
  BY <1>0, <1>2, <1>4 DEF Lists, Kept
<1>7. Own(t)
  BY ZenonT(40), <1>0, <1>1, <1>2, <1>4 DEF Own, Typed, Kept, Builds, Holds, Compacts, Merges, Retires
<1> QED BY <1>2, <1>3, <1>5, <1>6, <1>7, MoveKeepsInv

=============================================================================
