--------------------------- MODULE SegmentsProofs ---------------------------
(***************************************************************************)
(* Two safety properties of Segments for every configuration, every number *)
(* of maintainers, and any number of crashes and failed builds: no two     *)
(* segment directories share a path, and every segment that searches may   *)
(* read has its directory.                                                 *)
(*                                                                         *)
(* Neither property is inductive.  That a new directory is fresh depends   *)
(* on the ids that threads took before they build (Fresh); that a listed   *)
(* segment keeps its directory depends on what each thread has made and    *)
(* not yet listed, and has taken off the lists and not yet removed (Kept). *)
(***************************************************************************)
EXTENDS Segments, TLAPS, FiniteSetTheorems, SequenceTheorems

Tags == 1 .. Len(segs)
Indexes == sealedHot \cup warm \cup cold

Fields == DOMAIN Idle
Afters == {"idle", "promote", "compact", "discard", "defer"}

Counted == next \in Nat /\ IsFiniteSet(live)

Typed ==
    /\ segs \in Seq(Range(segs))
    /\ disk \subseteq Tags /\ pending \subseteq Tags /\ Indexes \subseteq Tags
    /\ nextId \in Nat \ {0}
    /\ Counted
    /\ load \in Loads
    /\ thr = [t \in Threads |-> thr[t]]
    /\ \A t \in Threads :
          /\ thr[t] = [f \in Fields |-> thr[t][f]]
          /\ thr[t].cands \subseteq Tags
          /\ thr[t].id \in Nat
          /\ thr[t].then \in Afters

\* The threads that have taken an id for a directory they have yet to write.
Builds(t) == thr[t].pc \in {"buildSeg", "buildCold", "buildMerged"}

Fresh ==
    /\ \A s \in disk : segs[s].id \in 0 .. nextId - 1
    /\ \A s, r \in disk : segs[s].id = segs[r].id => s = r
    /\ \A t \in Threads : Builds(t) =>
          /\ thr[t].id \in 0 .. nextId - 1
          /\ \A s \in disk : segs[s].id # thr[t].id
    /\ \A t, u \in Threads : Builds(t) /\ Builds(u) /\ thr[t].id = thr[u].id => t = u

\* A segment made and not yet listed, segments taken off the lists.
Holds(t) == /\ thr[t].pc \in {"unlist", "push", "installCold", "removeMerged", "pushMerged"}
            /\ thr[t].made # 0
Compacts(t) == thr[t].pc \in {"buildCold", "installCold", "discard"} \/ thr[t].then = "discard"
Merges(t) == \/ thr[t].pc \in {"acquire", "buildMerged", "removeMerged", "pushMerged", "defer"}
             \/ thr[t].then = "defer"
Retires(t) == thr[t].pc \in {"discard", "pushMerged", "defer"} \/ thr[t].then \in {"discard", "defer"}

MadeTier(t) == CASE thr[t].pc \in {"unlist", "push"} -> thr[t].tier
                 [] thr[t].pc = "installCold" -> "cold"
                 [] OTHER -> "sealed"

Kept ==
    /\ Indexes \subseteq disk \ pending
    /\ \A s \in sealedHot : segs[s].tier = "sealed"
    /\ \A s \in warm : segs[s].tier = "warm"
    /\ \A s \in cold : segs[s].tier = "cold"
    /\ \A t \in Threads : Holds(t) =>
          /\ thr[t].made \in disk \ (pending \cup Indexes)
          /\ segs[thr[t].made].tier = MadeTier(t)
          /\ \A u \in Threads : thr[t].made \notin thr[u].cands
    /\ \A t, u \in Threads : Holds(t) /\ Holds(u) /\ thr[t].made = thr[u].made => t = u
    /\ \A t \in Threads : Compacts(t) => \A c \in thr[t].cands : segs[c].tier = "warm"
    /\ \A t \in Threads : Merges(t) => \A c \in thr[t].cands : segs[c].tier = "sealed"
    /\ \A t \in Threads : Retires(t) => thr[t].cands \cap Indexes = {}
    /\ \A t \in Threads : thr[t].pc \in {"installCold", "removeMerged", "pushMerged"} => thr[t].made # 0
    /\ \A t \in Threads : thr[t].pc = "buildSeg" => thr[t].made = 0

IndInv == Typed /\ Fresh /\ Kept

-----------------------------------------------------------------------------
(* What the steps do to the record of a thread.                             *)

\* The fields of thread t that the invariant reads become these values, and
\* no other thread changes.
Moves(t, pc, cands, made, id, then) ==
    /\ thr' = [u \in Threads |-> thr'[u]]
    /\ \A u \in Threads : u # t => thr'[u] = thr[u]
    /\ thr'[t] = [f \in Fields |-> thr'[t][f]]
    /\ thr'[t].pc = pc /\ thr'[t].cands = cands /\ thr'[t].made = made
    /\ thr'[t].id = id /\ thr'[t].then = then

\* Every record of a thread has these fields.
LEMMA FieldsOfIdle ==
    Fields = {"pc", "left", "plain", "tier", "cands", "made", "id", "rec", "view", "then"}
BY DEF Fields, Idle

\* A step that replaces the whole record of a thread.
LEMMA Becomes ==
    ASSUME Typed, NEW t \in Threads, NEW r, thr' = [thr EXCEPT ![t] = r],
           r = [f \in Fields |-> r[f]]
    PROVE  Moves(t, r.pc, r.cands, r.made, r.id, r.then) /\ thr'[t] = r
<1>1. thr'[t] = r /\ \A u \in Threads : u # t => thr'[u] = thr[u]
  BY DEF Typed
<1>2. thr' = [u \in Threads |-> thr'[u]]
  BY DEF Typed
<1> QED BY <1>1, <1>2 DEF Moves

\* Goto changes the program counter only.
LEMMA GotoStep ==
    ASSUME Typed, NEW t \in Threads, NEW pc, Goto(t, pc)
    PROVE  /\ Moves(t, pc, thr[t].cands, thr[t].made, thr[t].id, thr[t].then)
           /\ thr'[t].tier = thr[t].tier
<1> DEFINE r == [thr[t] EXCEPT !.pc = pc]
<1>1. thr' = [thr EXCEPT ![t] = r]
  BY DEF Goto
<1>2. thr[t] = [f \in Fields |-> thr[t][f]]
  BY DEF Typed
<1>3. /\ r = [f \in Fields |-> r[f]] /\ r.pc = pc
      /\ r.cands = thr[t].cands /\ r.made = thr[t].made /\ r.id = thr[t].id
      /\ r.then = thr[t].then /\ r.tier = thr[t].tier
  BY <1>2, FieldsOfIdle
<1> HIDE DEF r
<1> QED BY <1>1, <1>3, Becomes

\* Done makes a thread idle.
LEMMA DoneStep ==
    ASSUME Typed, NEW t \in Threads, Done(t)
    PROVE  Moves(t, "idle", {}, 0, 0, "idle")
<1>1. Idle = [f \in Fields |-> Idle[f]]
  BY DEF Fields, Idle
<1>2. /\ Idle.pc = "idle" /\ Idle.cands = {} /\ Idle.made = 0 /\ Idle.id = 0
      /\ Idle.then = "idle"
  BY DEF Idle
<1> QED BY <1>1, <1>2, Becomes DEF Done

\* Return ends the job or goes on with what follows the publication.
LEMMA ReturnStep ==
    ASSUME Typed, NEW t \in Threads, Return(t)
    PROVE  \/ Moves(t, "idle", {}, 0, 0, "idle")
           \/ /\ thr[t].then # "idle"
              /\ Moves(t, thr[t].then, thr[t].cands, thr[t].made, thr[t].id, "idle")
<1>1. CASE thr[t].then = "idle"
  <2>1. Done(t)
    BY <1>1 DEF Return, Done
  <2> QED BY <2>1, DoneStep
<1>2. CASE thr[t].then # "idle"
  <2> DEFINE r == [thr[t] EXCEPT !.pc = thr[t].then, !.then = "idle", !.view = {}, !.plain = 0]
  <2>1. thr' = [thr EXCEPT ![t] = r]
    BY <1>2 DEF Return, Typed
  <2>2. thr[t] = [f \in Fields |-> thr[t][f]]
    BY DEF Typed
  <2>3. /\ r = [f \in Fields |-> r[f]] /\ r.pc = thr[t].then
        /\ r.cands = thr[t].cands /\ r.made = thr[t].made /\ r.id = thr[t].id
        /\ r.then = "idle"
    BY ZenonT(40), <2>2, FieldsOfIdle
  <2> HIDE DEF r
  <2> QED BY <1>2, <2>1, <2>3, Becomes
<1> QED BY <1>1, <1>2

-----------------------------------------------------------------------------
(* The steps that write no directory.                                       *)

\* Old segments keep their place in segs.
Extends == /\ segs' \in Seq(Range(segs'))
           /\ Len(segs) <= Len(segs')
           /\ \A s \in Tags : segs'[s] = segs[s]

\* What thread t may make of its own locals: an id it builds for is the one it
\* had or the next one, a segment it holds it held before, and its candidates
\* are the ones it had or come from the lists.
Own(t) ==
    /\ thr'[t].id \in Nat /\ thr'[t].then \in Afters
    /\ thr'[t].cands = thr[t].cands \/ thr'[t].cands \subseteq Indexes
    /\ \/ nextId' = nextId /\ (Builds(t)' => Builds(t) /\ thr'[t].id = thr[t].id)
       \/ nextId' = nextId + 1 /\ thr'[t].id = nextId
    /\ Holds(t)' => /\ Holds(t) /\ thr'[t].made = thr[t].made /\ MadeTier(t)' = MadeTier(t)
                    /\ thr[t].made \notin Indexes'
    /\ Compacts(t)' => \A c \in thr'[t].cands : segs[c].tier = "warm"
    /\ Merges(t)' => \A c \in thr'[t].cands : segs[c].tier = "sealed"
    /\ Retires(t)' => thr'[t].cands \cap Indexes' = {}
    /\ thr'[t].pc \in {"installCold", "removeMerged", "pushMerged"} => thr'[t].made # 0
    /\ thr'[t].pc = "buildSeg" => thr'[t].made = 0

\* The lists gain at most the segment t holds, of the right tier.
Lists(t) ==
    /\ Indexes' \subseteq Indexes \cup {s \in {thr[t].made} : Holds(t)}
    /\ \A s \in sealedHot' : segs[s].tier = "sealed"
    /\ \A s \in warm' : segs[s].tier = "warm"
    /\ \A s \in cold' : segs[s].tier = "cold"

\* Directories in gone may be removed, or noted for removal.
Drops(gone) ==
    /\ gone \subseteq Tags
    /\ disk \ gone \subseteq disk' /\ disk' \subseteq disk
    /\ pending' \subseteq pending \cup gone
    /\ gone \cap Indexes' = {}
    /\ \A u \in Threads : Holds(u) => thr[u].made \notin gone

\* A step whose parts are as above preserves the invariant.
LEMMA StepKeepsInv ==
    ASSUME IndInv, NEW t \in Threads, NEW gone,
           thr' = [u \in Threads |-> thr'[u]],
           \A u \in Threads : u # t => thr'[u] = thr[u],
           thr'[t] = [f \in Fields |-> thr'[t][f]],
           Extends, Own(t), Lists(t), Drops(gone), Counted', UNCHANGED load
    PROVE  IndInv'
<1> DEFINE same(u) == thr'[u] = thr[u]
<1>0. /\ Typed /\ Fresh /\ Kept
      /\ \A u \in Threads : u # t => same(u)
  BY DEF IndInv
<1>1. Tags \subseteq Tags' /\ Len(segs) \in Nat /\ Len(segs') \in Nat
  BY <1>0 DEF Typed, Extends, Tags
<1>2. /\ disk' \subseteq disk /\ disk \subseteq Tags
      /\ \A s \in Tags : segs'[s] = segs[s]
      /\ nextId \in Nat \ {0} /\ nextId' \in Nat \ {0} /\ nextId <= nextId'
  BY <1>0 DEF Typed, Extends, Drops, Own
<1>3. Indexes' \subseteq Tags
  BY <1>0 DEF Lists, Typed, Kept, Holds
<1>4. Typed'
  <2>1. \A u \in Threads : /\ thr'[u] = [f \in Fields |-> thr'[u][f]]
                           /\ thr'[u].cands \subseteq Tags'
                           /\ thr'[u].id \in Nat
                           /\ thr'[u].then \in Afters
    <3> SUFFICES ASSUME NEW u \in Threads
                 PROVE  /\ thr'[u] = [f \in Fields |-> thr'[u][f]]
                        /\ thr'[u].cands \subseteq Tags'
                        /\ thr'[u].id \in Nat
                        /\ thr'[u].then \in Afters
      OBVIOUS
    <3>1. CASE u # t
      BY <3>1, <1>0, <1>1 DEF Typed
    <3>2. CASE u = t
      <4>1. thr'[t].cands \subseteq Tags
        BY ZenonT(40), <1>0 DEF Own, Typed
      <4> QED BY ZenonT(40), <3>2, <4>1, <1>1 DEF Own
    <3> QED BY <3>1, <3>2
  <2>2. pending' \subseteq Tags /\ disk' \subseteq Tags
    BY <1>0, <1>2 DEF Typed, Drops
  <2>3. load' \in Loads
    BY <1>0 DEF Typed
  <2>4. segs' \in Seq(Range(segs'))
    BY DEF Extends
  <2> QED BY <2>1, <2>2, <2>3, <2>4, <1>1, <1>2, <1>3 DEF Typed
<1>5. Fresh'
  <2>1. /\ \A s \in disk' : segs'[s].id \in 0 .. nextId' - 1 /\ segs'[s].id # nextId
        /\ \A s, r \in disk' : segs'[s].id = segs'[r].id => s = r
    BY <1>0, <1>2 DEF Fresh
  <2>2. \A u \in Threads : Builds(u)' =>
          \/ nextId' = nextId + 1 /\ u = t /\ thr'[u].id = nextId
          \/ Builds(u) /\ thr'[u].id = thr[u].id
    BY <1>0 DEF Own, Builds
  <2>3. \A u \in Threads : Builds(u) =>
          /\ thr[u].id \in 0 .. nextId - 1
          /\ \A s \in disk' : segs'[s].id # thr[u].id
    BY <1>0, <1>2 DEF Fresh
  <2>4. \A u \in Threads : Builds(u)' =>
          /\ thr'[u].id \in 0 .. nextId' - 1
          /\ \A s \in disk' : segs'[s].id # thr'[u].id
    BY <2>1, <2>2, <2>3, <1>2
  <2>5. \A u, v \in Threads : Builds(u)' /\ Builds(v)' /\ thr'[u].id = thr'[v].id => u = v
    <3> SUFFICES ASSUME NEW u \in Threads, NEW v \in Threads, Builds(u)', Builds(v)',
                        thr'[u].id = thr'[v].id, u # v
                 PROVE  FALSE
      OBVIOUS
    <3>1. CASE Builds(u) /\ thr'[u].id = thr[u].id /\ Builds(v) /\ thr'[v].id = thr[v].id
      BY ZenonT(40), <3>1, <1>0 DEF Fresh
    <3>2. CASE nextId' = nextId + 1 /\ u = t /\ thr'[u].id = nextId
      BY <3>2, <2>2, <2>3, <1>2
    <3>3. CASE nextId' = nextId + 1 /\ v = t /\ thr'[v].id = nextId
      BY <3>3, <2>2, <2>3, <1>2
    <3> QED BY <2>2, <3>1, <3>2, <3>3
  <2> QED BY <2>1, <2>4, <2>5 DEF Fresh
<1>6. Kept'
  <2>1. Indexes' \subseteq disk' \ pending'
    BY <1>0 DEF Lists, Drops, Kept
  <2>2. /\ \A s \in sealedHot' : segs'[s].tier = "sealed"
        /\ \A s \in warm' : segs'[s].tier = "warm"
        /\ \A s \in cold' : segs'[s].tier = "cold"
    BY <1>3, <1>2 DEF Lists, Indexes
  <2>3. \A u \in Threads : Holds(u)' => /\ Holds(u) /\ thr'[u].made = thr[u].made
                                        /\ MadeTier(u)' = MadeTier(u)
    BY <1>0 DEF Own, Holds, MadeTier
  <2>4. \A u \in Threads : Holds(u)' =>
          /\ thr'[u].made \in disk' \ (pending' \cup Indexes')
          /\ segs'[thr'[u].made].tier = MadeTier(u)'
          /\ \A v \in Threads : thr'[u].made \notin thr'[v].cands
    <3> SUFFICES ASSUME NEW u \in Threads, Holds(u)'
                 PROVE  /\ thr[u].made \in disk' \ (pending' \cup Indexes')
                        /\ segs'[thr[u].made].tier = MadeTier(u)
                        /\ \A v \in Threads : thr[u].made \notin thr'[v].cands
      BY <2>3
    <3>1. /\ Holds(u) /\ thr[u].made \in disk \ (pending \cup Indexes)
          /\ segs[thr[u].made].tier = MadeTier(u)
          /\ \A v \in Threads : thr[u].made \notin thr[v].cands
      BY <2>3, <1>0 DEF Kept
    <3>2. thr[u].made \in disk' \ pending'
      BY <3>1 DEF Drops
    <3>3. thr[u].made \notin Indexes'
      <4>1. CASE u = t
        BY <4>1 DEF Own
      <4>2. CASE u # t
        BY <4>2, <3>1, <1>0 DEF Lists, Kept
      <4> QED BY <4>1, <4>2
    <3>4. segs'[thr[u].made] = segs[thr[u].made]
      BY <3>1, <1>2
    <3>5. \A v \in Threads : thr[u].made \notin thr'[v].cands
      BY <3>1, <1>0 DEF Own
    <3> QED BY <3>1, <3>2, <3>3, <3>4, <3>5
  <2>5. \A u, v \in Threads : Holds(u)' /\ Holds(v)' /\ thr'[u].made = thr'[v].made => u = v
    BY <2>3, <1>0 DEF Kept
  <2>6. \A u \in Threads :
          /\ Compacts(u)' => \A c \in thr'[u].cands : segs'[c].tier = "warm"
          /\ Merges(u)' => \A c \in thr'[u].cands : segs'[c].tier = "sealed"
    <3> SUFFICES ASSUME NEW u \in Threads
                 PROVE  /\ Compacts(u)' => \A c \in thr'[u].cands : segs'[c].tier = "warm"
                        /\ Merges(u)' => \A c \in thr'[u].cands : segs'[c].tier = "sealed"
      OBVIOUS
    <3>1. thr'[u].cands \subseteq Tags
      BY Zenon, <1>0 DEF Own, Typed
    <3>2. /\ Compacts(u)' => \A c \in thr'[u].cands : segs[c].tier = "warm"
          /\ Merges(u)' => \A c \in thr'[u].cands : segs[c].tier = "sealed"
      <4>1. CASE u = t
        BY <4>1 DEF Own
      <4>2. CASE u # t
        BY <4>2, <1>0 DEF Kept, Compacts, Merges
      <4> QED BY <4>1, <4>2
    <3> QED BY <3>1, <3>2, <1>2
  <2>7. \A u \in Threads : Retires(u)' => thr'[u].cands \cap Indexes' = {}
    <3> SUFFICES ASSUME NEW u \in Threads, u # t, Retires(u)'
                 PROVE  thr'[u].cands \cap Indexes' = {}
      BY DEF Own
    <3>1. Retires(u) /\ thr'[u].cands = thr[u].cands
      BY <1>0 DEF Retires
    <3>2. thr[u].cands \cap Indexes = {}
      BY <3>1, <1>0 DEF Kept
    <3>3. Holds(t) => thr[t].made \notin thr[u].cands
      BY <1>0 DEF Kept
    <3> QED BY <3>1, <3>2, <3>3 DEF Lists
  <2>8. \A u \in Threads :
          /\ thr'[u].pc \in {"installCold", "removeMerged", "pushMerged"} => thr'[u].made # 0
          /\ thr'[u].pc = "buildSeg" => thr'[u].made = 0
    BY <1>0 DEF Own, Kept
  <2> QED BY <2>1, <2>2, <2>4, <2>5, <2>6, <2>7, <2>8 DEF Kept
<1> QED BY <1>4, <1>5, <1>6 DEF IndInv

\* A step of thread t that keeps directories, lists and ids, and leaves t with
\* nothing made and no directory to write.
Plain == {"idle", "insert", "seal", "sealPush", "build", "store", "compact", "discard",
          "defer", "promote", "promotePut"}

LEMMA QuietStep ==
    ASSUME IndInv, NEW t \in Threads, NEW pc \in Plain, NEW cands, NEW made, NEW id,
           NEW then \in Afters,
           Moves(t, pc, cands, made, id, then),
           cands = {} \/ cands = thr[t].cands,
           id = 0 \/ id = thr[t].id,
           pc = "discard" \/ then = "discard" => Compacts(t) /\ Retires(t) /\ ~Merges(t),
           pc = "defer" \/ then = "defer" => Merges(t) /\ Retires(t) /\ ~Compacts(t),
           Extends, Counted',
           UNCHANGED <<disk, nextId, pending, sealedHot, warm, cold, load>>
    PROVE  IndInv'
<1>1. /\ ~Builds(t)' /\ ~Holds(t)'
      /\ thr'[t].pc \notin {"installCold", "removeMerged", "pushMerged", "buildSeg"}
  BY DEF Moves, Plain, Builds, Holds
<1>2. /\ Compacts(t)' => Compacts(t) \/ cands = {}
      /\ Merges(t)' => Merges(t) \/ cands = {}
      /\ Retires(t)' => Retires(t) \/ cands = {}
  BY DEF Moves, Plain, Compacts, Merges, Retires, Afters
<1>3. Own(t)
  <2>1. /\ thr'[t].id \in Nat /\ thr'[t].then \in Afters
        /\ thr'[t].cands = thr[t].cands \/ thr'[t].cands \subseteq Indexes
    BY DEF Moves, IndInv, Typed
  <2>2. /\ Compacts(t)' => \A c \in thr'[t].cands : segs[c].tier = "warm"
        /\ Merges(t)' => \A c \in thr'[t].cands : segs[c].tier = "sealed"
        /\ Retires(t)' => thr'[t].cands \cap Indexes' = {}
    BY <1>2 DEF Moves, IndInv, Kept, Indexes
  <2> QED BY <1>1, <2>1, <2>2 DEF Own
<1>4. Lists(t) /\ Drops({})
  BY DEF Lists, Drops, IndInv, Kept, Indexes
<1> QED BY <1>3, <1>4, StepKeepsInv DEF Moves

\* A sequence is one over its own elements.
LEMMA OwnRange ==
    ASSUME NEW S, NEW s \in Seq(S)
    PROVE  s \in Seq(Range(s))
<1>1. Len(s) \in Nat /\ s \in [1 .. Len(s) -> S]
  BY LenProperties
<1>2. s \in [1 .. Len(s) -> Range(s)]
  BY <1>1 DEF Range
<1> QED BY <1>1, <1>2

\* A new segment, or none.
LEMMA SameSegs ==
    ASSUME Typed, UNCHANGED segs
    PROVE  Extends
BY DEF Extends, Typed, Tags

\* NewSeg adds one segment at the end.
LEMMA NewSegStep ==
    ASSUME Typed, NEW offs, NEW tier, NEW id, NewSeg(offs, tier, id)
    PROVE  /\ Extends
           /\ Len(segs') = Len(segs) + 1
           /\ segs'[Len(segs')] = [offs |-> offs, tier |-> tier, id |-> id]
<1> DEFINE e == [offs |-> offs, tier |-> tier, id |-> id]
           S == Range(segs) \cup {e}
<1>1. segs \in Seq(S) /\ e \in S /\ segs' = Append(segs, e)
  BY DEF Typed, NewSeg
<1> HIDE DEF e, S
<1>2. /\ Append(segs, e) \in Seq(S) /\ Len(segs') = Len(segs) + 1
      /\ \A i \in 1 .. Len(segs) : segs'[i] = segs[i]
      /\ segs'[Len(segs) + 1] = e
  BY <1>1, AppendProperties
<1>3. segs' \in Seq(Range(segs'))
  BY ZenonT(40), <1>1, <1>2, OwnRange
<1>4. Len(segs) \in Nat
  BY <1>1
<1> QED BY <1>2, <1>3, <1>4 DEF Extends, Tags, e

\* Each quiet action.
LEMMA WriterSteps ==
    ASSUME IndInv, (\E n \in 1 .. MaxBatch : BeginBatch(n)) \/ Insert \/ (\E o \in Offsets : Delete(o))
    PROVE  IndInv'
<1>0. Typed /\ Worker \in Threads /\ thr[Worker] = [f \in Fields |-> thr[Worker][f]]
  BY ZenonT(40) DEF IndInv, Typed, Threads
<1>1. ASSUME NEW n \in 1 .. MaxBatch, BeginBatch(n) PROVE IndInv'
  <2> DEFINE batch == next + 1 .. next + n
             r == [Idle EXCEPT !.pc = "insert", !.left = batch]
  <2>1. thr' = [thr EXCEPT ![Worker] = r] /\ live' = live \cup batch
    BY Zenon, <1>1 DEF BeginBatch
  <2>2. /\ r = [f \in Fields |-> r[f]] /\ r.pc = "insert" /\ r.cands = {} /\ r.made = 0
        /\ r.id = 0 /\ r.then = "idle"
    BY ZenonT(40) DEF Fields, Idle
  <2>3. next \in Nat /\ n \in Nat /\ next' = next + n /\ IsFiniteSet(live)
    <3>1. next \in Nat /\ IsFiniteSet(live)
      BY <1>0 DEF Typed, Counted
    <3>2. n \in Nat
      BY SegmentsAssumption
    <3>3. next' = next + n
      BY Zenon, <1>1 DEF BeginBatch
    <3> QED BY <3>1, <3>2, <3>3
  <2>4. Counted'
    <3>1. IsFiniteSet(batch)
      BY <2>3, FS_Interval
    <3> HIDE DEF batch
    <3>2. IsFiniteSet(live')
      BY Zenon, <2>1, <2>3, <3>1, FS_Union
    <3>3. next' \in Nat
      BY <2>3
    <3> QED BY <3>2, <3>3 DEF Counted
  <2> HIDE DEF r, batch
  <2>5. Moves(Worker, r.pc, r.cands, r.made, r.id, r.then)
    BY <1>0, <2>1, <2>2, Becomes
  <2>6. UNCHANGED <<segs, disk, nextId, pending, sealedHot, warm, cold, load>>
    BY Zenon, <1>1 DEF BeginBatch, lists, counters
  <2>7. Extends /\ Moves(Worker, "insert", {}, 0, 0, "idle")
    BY <1>0, <2>2, <2>5, <2>6, SameSegs
  <2> QED BY <1>0, <2>4, <2>6, <2>7, QuietStep DEF Plain, Afters
<1>2. ASSUME Insert PROVE IndInv'
  <2>1. UNCHANGED <<segs, disk, nextId, pending, sealedHot, warm, cold, load, live, next>>
    BY <1>2 DEF Insert, lists, counters, recs
  <2>2. PICK r : /\ thr' = [thr EXCEPT ![Worker] = r]
                 /\ \/ \E rest : r = [thr[Worker] EXCEPT !.left = rest]
                    \/ r = [Idle EXCEPT !.pc = "seal"]
                    \/ r = Idle
    BY Zenon, <1>2, <1>0 DEF Insert, Typed
  <2>3. /\ r = [f \in Fields |-> r[f]]
        /\ r.pc \in {"idle", "seal", thr[Worker].pc}
        /\ \/ r.cands = {} /\ r.made = 0 /\ r.id = 0 /\ r.then = "idle"
           \/ /\ r.cands = thr[Worker].cands /\ r.made = thr[Worker].made
              /\ r.id = thr[Worker].id /\ r.then = thr[Worker].then
    <3>1. CASE \E rest : r = [thr[Worker] EXCEPT !.left = rest]
      BY <3>1, <1>0, FieldsOfIdle
    <3>2. CASE r = [Idle EXCEPT !.pc = "seal"] \/ r = Idle
      BY <3>2 DEF Fields, Idle
    <3> QED BY <2>2, <3>1, <3>2
  <2>4. thr[Worker].pc = "insert"
    BY <1>2 DEF Insert, At
  <2>5. Moves(Worker, r.pc, r.cands, r.made, r.id, r.then)
    BY <1>0, <2>2, <2>3, Becomes
  <2>6. Counted' /\ thr[Worker].then \in Afters
    BY <2>1, <1>0 DEF Typed, Counted
  <2>7. /\ r.pc \in Plain /\ r.then \in Afters /\ r.pc \notin {"discard", "defer"}
        /\ r.then \in {"discard", "defer"} => r.then = thr[Worker].then
    BY <2>3, <2>4, <2>6 DEF Plain, Afters
  <2>8. /\ r.then = "discard" => Compacts(Worker) /\ Retires(Worker) /\ ~Merges(Worker)
        /\ r.then = "defer" => Merges(Worker) /\ Retires(Worker) /\ ~Compacts(Worker)
    BY <2>4, <2>7 DEF Compacts, Merges, Retires
  <2>9. Extends
    BY <1>0, <2>1, SameSegs
  <2> QED BY <1>0, <2>1, <2>3, <2>5, <2>6, <2>7, <2>8, <2>9, QuietStep
<1>3. ASSUME NEW o \in Offsets, Delete(o) PROVE IndInv'
  <2>1. UNCHANGED <<segs, disk, nextId, pending, sealedHot, warm, cold, load, thr, next>>
        /\ live' = live \ {o} /\ thr[Worker].pc = "idle"
    BY <1>3 DEF Delete, lists, counters, recs, MayStart, At
  <2>2. Counted'
    BY <2>1, <1>0, FS_Subset DEF Typed, Counted
  <2>3. Moves(Worker, "idle", thr[Worker].cands, thr[Worker].made, thr[Worker].id, thr[Worker].then)
    BY <1>0, <2>1 DEF Moves, Typed
  <2>4. /\ thr[Worker].then = "discard" => Compacts(Worker) /\ Retires(Worker) /\ ~Merges(Worker)
        /\ thr[Worker].then = "defer" => Merges(Worker) /\ Retires(Worker) /\ ~Compacts(Worker)
        /\ thr[Worker].then \in Afters
    BY <2>1, <1>0 DEF Compacts, Merges, Retires, Typed
  <2>5. Extends
    BY <1>0, <2>1, SameSegs
  <2> QED BY <1>0, <2>1, <2>2, <2>3, <2>4, <2>5, QuietStep DEF Plain
<1> QED BY <1>1, <1>2, <1>3

\* The three ways in which the other quiet actions move a thread.
Between == Plain \ {"discard", "defer"}
Still == Counted' /\ UNCHANGED <<disk, nextId, pending, sealedHot, warm, cold, load>>

\* A step that changes only the program counter.
LEMMA KeepStep ==
    ASSUME IndInv, NEW t \in Threads, thr[t].pc \in Between, NEW pc \in Between,
           Moves(t, pc, thr[t].cands, thr[t].made, thr[t].id, thr[t].then), Extends, Still
    PROVE  IndInv'
<1>1. /\ thr[t].then \in Afters
      /\ thr[t].then = "discard" => Compacts(t) /\ Retires(t) /\ ~Merges(t)
      /\ thr[t].then = "defer" => Merges(t) /\ Retires(t) /\ ~Compacts(t)
  BY DEF IndInv, Typed, Compacts, Merges, Retires, Between, Plain
<1> QED BY <1>1, QuietStep DEF Between, Still

\* A step that starts again from Idle.
LEMMA LeaveStep ==
    ASSUME IndInv, NEW t \in Threads, NEW pc \in Between,
           Moves(t, pc, {}, 0, 0, "idle"), Extends, Still
    PROVE  IndInv'
BY QuietStep DEF Between, Still, Afters

\* A step that ends with Return.
LEMMA BackStep ==
    ASSUME IndInv, NEW t \in Threads, thr[t].pc \in Between, Return(t), Extends, Still
    PROVE  IndInv'
<1>1. CASE Moves(t, "idle", {}, 0, 0, "idle")
  BY <1>1, LeaveStep DEF Between, Plain
<1>2. CASE /\ thr[t].then # "idle"
           /\ Moves(t, thr[t].then, thr[t].cands, thr[t].made, thr[t].id, "idle")
  <2>1. /\ thr[t].then \in Plain
        /\ thr[t].then = "discard" => Compacts(t) /\ Retires(t) /\ ~Merges(t)
        /\ thr[t].then = "defer" => Merges(t) /\ Retires(t) /\ ~Compacts(t)
    BY DEF IndInv, Typed, Afters, Compacts, Merges, Retires, Between, Plain
  <2> QED BY <1>2, <2>1, QuietStep DEF Still, Afters
<1> QED BY <1>1, <1>2, ReturnStep DEF IndInv

\* A step that leaves segments, directories and metadata alone.
LEMMA SameStill ==
    ASSUME Typed, UNCHANGED <<segs, disk, nextId, pending, sealedHot, warm, cold, load, live, next>>
    PROVE  Extends /\ Still
BY SameSegs DEF Still, Typed, Counted

\* seal_hot and publish_snapshot.
LEMMA SealSteps ==
    ASSUME IndInv, NEW t \in Threads,
           SealSwap(t) \/ SealPush(t) \/ BuildSnapshot(t) \/ StoreSnapshot(t)
                \/ BeginSeal(t) \/ BeginCompaction(t)
    PROVE  IndInv'
<1>0. Typed /\ thr[t] = [f \in Fields |-> thr[t][f]]
  BY DEF IndInv, Typed
<1>1. CASE SealSwap(t)
  <2>1. thr[t].pc = "seal" /\ thr[t].pc \in Between
    BY <1>1 DEF SealSwap, At, Between, Plain
  <2>2. Still
    BY <1>1, <1>0 DEF SealSwap, Still, lists, counters, recs, Typed, Counted
  <2>3. CASE Return(t) /\ UNCHANGED segs
    BY <1>0, <2>1, <2>2, <2>3, SameSegs, BackStep
  <2>4. CASE /\ NewSeg(hot, "plain", 0)
             /\ thr' = [thr EXCEPT ![t].pc = "sealPush", ![t].plain = Len(segs')]
    <3> DEFINE r(n) == [thr[t] EXCEPT !.pc = "sealPush", !.plain = n]
    <3>1. thr' = [thr EXCEPT ![t] = r(Len(segs'))]
      BY Zenon, <2>4, <1>0 DEF Typed
    <3>2. ASSUME NEW n
          PROVE  /\ r(n) = [f \in Fields |-> r(n)[f]] /\ r(n).pc = "sealPush"
                 /\ r(n).cands = thr[t].cands /\ r(n).made = thr[t].made
                 /\ r(n).id = thr[t].id /\ r(n).then = thr[t].then
      BY Zenon, <1>0, FieldsOfIdle
    <3> HIDE DEF r
    <3>3. PICK q : /\ thr' = [thr EXCEPT ![t] = q]
                   /\ q = [f \in Fields |-> q[f]] /\ q.pc = "sealPush"
                   /\ q.cands = thr[t].cands /\ q.made = thr[t].made
                   /\ q.id = thr[t].id /\ q.then = thr[t].then
      BY Zenon, <3>1, <3>2
    <3>4. Moves(t, "sealPush", thr[t].cands, thr[t].made, thr[t].id, thr[t].then)
      BY <1>0, <3>3, Becomes
    <3>5. Extends
      BY ZenonT(40), <1>0, <2>4, NewSegStep
    <3> QED BY <2>1, <2>2, <3>4, <3>5, KeepStep DEF Between, Plain
  <2> QED BY <1>1, <2>3, <2>4 DEF SealSwap
<1>2. CASE SealPush(t)
  <2>1. /\ thr[t].pc \in Between /\ Goto(t, "build")
        /\ UNCHANGED <<segs, disk, nextId, pending, sealedHot, warm, cold, load, live, next>>
    BY <1>2 DEF SealPush, At, Between, Plain, counters, recs
  <2> QED BY <1>0, <2>1, GotoStep, SameStill, KeepStep DEF Between, Plain
<1>3. CASE BuildSnapshot(t)
  <2> DEFINE r == [thr[t] EXCEPT !.view = Listed, !.pc = "store"]
  <2>1. /\ thr[t].pc \in Between
        /\ UNCHANGED <<segs, disk, nextId, pending, sealedHot, warm, cold, load, live, next>>
    BY <1>3 DEF BuildSnapshot, At, Between, Plain, counters, recs, lists
  <2>2. thr' = [thr EXCEPT ![t] = r]
    BY Zenon, <1>3, <1>0 DEF BuildSnapshot, Typed
  <2>3. /\ r = [f \in Fields |-> r[f]] /\ r.pc = "store"
        /\ r.cands = thr[t].cands /\ r.made = thr[t].made
        /\ r.id = thr[t].id /\ r.then = thr[t].then
    BY Zenon, <1>0, FieldsOfIdle
  <2> HIDE DEF r
  <2>4. Moves(t, "store", thr[t].cands, thr[t].made, thr[t].id, thr[t].then)
    BY <1>0, <2>2, <2>3, Becomes
  <2> QED BY <1>0, <2>1, <2>4, SameStill, KeepStep DEF Between, Plain
<1>4. CASE StoreSnapshot(t)
  <2>1. /\ thr[t].pc \in Between /\ Return(t)
        /\ UNCHANGED <<segs, disk, nextId, pending, sealedHot, warm, cold, load, live, next>>
    BY <1>4 DEF StoreSnapshot, At, Between, Plain, counters, recs, lists
  <2> QED BY <1>0, <2>1, SameStill, BackStep
<1>5. CASE BeginSeal(t)
  <2>1. /\ thr[t].pc \in Between /\ Goto(t, "seal")
        /\ UNCHANGED <<segs, disk, nextId, pending, sealedHot, warm, cold, load, live, next>>
    BY <1>5 DEF BeginSeal, MaintainerStarts, MayStart, At, Between, Plain, counters, recs, lists
  <2> QED BY <1>0, <2>1, GotoStep, SameStill, KeepStep DEF Between, Plain
<1>6. CASE BeginCompaction(t)
  <2>1. /\ thr[t].pc \in Between /\ Goto(t, "compact")
        /\ UNCHANGED <<segs, disk, nextId, pending, sealedHot, warm, cold, load, live, next>>
    BY <1>6 DEF BeginCompaction, MaintainerStarts, MayStart, At, Between, Plain, counters, recs, lists
  <2> QED BY <1>0, <2>1, GotoStep, SameStill, KeepStep DEF Between, Plain
<1> QED BY <1>1, <1>2, <1>3, <1>4, <1>5, <1>6

\* promote_hot.
LEMMA PromotionSteps ==
    ASSUME IndInv, NEW t \in Threads,
           BeginPromotion(t) \/ (\E o \in Offsets : PromoteGet(t, o)) \/ PromotePut(t) \/ EndPromotion(t)
    PROVE  IndInv'
<1>0. Typed /\ thr[t] = [f \in Fields |-> thr[t][f]]
  BY DEF IndInv, Typed
<1>1. CASE BeginPromotion(t)
  <2> DEFINE r == [Idle EXCEPT !.pc = "promote", !.left = Contents(Listed)]
  <2>1. /\ thr' = [thr EXCEPT ![t] = r]
        /\ UNCHANGED <<segs, disk, nextId, pending, sealedHot, warm, cold, load, live, next>>
    BY <1>1 DEF BeginPromotion, lists, recs
  <2>2. /\ r = [f \in Fields |-> r[f]] /\ r.pc = "promote" /\ r.cands = {} /\ r.made = 0
        /\ r.id = 0 /\ r.then = "idle"
    BY Zenon DEF Fields, Idle
  <2> HIDE DEF r
  <2>3. Moves(t, r.pc, r.cands, r.made, r.id, r.then)
    BY <1>0, <2>1, <2>2, Becomes
  <2>4. Moves(t, "promote", {}, 0, 0, "idle")
    BY <2>2, <2>3
  <2> QED BY <1>0, <2>1, <2>4, SameStill, LeaveStep DEF Between, Plain
<1>2. ASSUME NEW o \in Offsets, PromoteGet(t, o) PROVE IndInv'
  <2> DEFINE r == [thr[t] EXCEPT !.pc = "promotePut", !.rec = o, !.left = thr[t].left \ {o}]
  <2>1. /\ thr[t].pc \in Between
        /\ UNCHANGED <<segs, disk, nextId, pending, sealedHot, warm, cold, load, live, next>>
    BY ZenonT(40), <1>2 DEF PromoteGet, At, Between, Plain, counters, recs, lists
  <2>2. thr' = [thr EXCEPT ![t] = r]
    <3>1. [[thr[t] EXCEPT !.pc = "promotePut"] EXCEPT !.rec = o].left = thr[t].left
      BY <1>0, FieldsOfIdle
    <3> QED BY Zenon, <1>2, <1>0, <3>1 DEF PromoteGet, Typed
  <2>3. /\ r = [f \in Fields |-> r[f]] /\ r.pc = "promotePut"
        /\ r.cands = thr[t].cands /\ r.made = thr[t].made
        /\ r.id = thr[t].id /\ r.then = thr[t].then
    BY ZenonT(40), <1>0, FieldsOfIdle
  <2> HIDE DEF r
  <2>4. Moves(t, "promotePut", thr[t].cands, thr[t].made, thr[t].id, thr[t].then)
    BY <1>0, <2>2, <2>3, Becomes
  <2> QED BY <1>0, <2>1, <2>4, SameStill, KeepStep DEF Between, Plain
<1>3. CASE PromotePut(t)
  <2>1. /\ live' = live \cup {thr[t].rec}
        /\ UNCHANGED <<segs, disk, nextId, pending, sealedHot, warm, cold, load, next>>
    BY <1>3 DEF PromotePut, counters, lists
  <2>2. Counted'
    BY Zenon, <1>0, <2>1, FS_AddElement DEF Typed, Counted
  <2>3. PICK pc \in {"seal", "promote"}, then \in {"promote", "idle"} :
            thr' = [thr EXCEPT ![t] = [thr[t] EXCEPT !.pc = pc, !.then = then]]
    BY Zenon, <1>3, <1>0 DEF PromotePut, Typed
  <2> DEFINE r == [thr[t] EXCEPT !.pc = pc, !.then = then]
  <2>4. /\ r = [f \in Fields |-> r[f]] /\ r.pc = pc
        /\ r.cands = thr[t].cands /\ r.made = thr[t].made
        /\ r.id = thr[t].id /\ r.then = then
    BY ZenonT(40), <1>0, FieldsOfIdle
  <2>5. thr' = [thr EXCEPT ![t] = r]
    BY <2>3
  <2> HIDE DEF r
  <2>6. Moves(t, pc, thr[t].cands, thr[t].made, thr[t].id, then)
    BY <1>0, <2>4, <2>5, Becomes
  <2>7. pc \in Plain /\ then \in Afters /\ {pc, then} \cap {"discard", "defer"} = {}
    BY DEF Plain, Afters
  <2>8. Extends
    BY <1>0, <2>1, SameSegs
  <2> QED BY <2>1, <2>2, <2>6, <2>7, <2>8, QuietStep
<1>4. CASE EndPromotion(t)
  <2>1. UNCHANGED <<segs, disk, nextId, pending, sealedHot, warm, cold, load, live, next>>
    BY <1>4 DEF EndPromotion, counters, recs, lists
  <2>2. PICK r : thr' = [thr EXCEPT ![t] = r] /\ (r = Idle \/ r = [Idle EXCEPT !.pc = "build"])
    BY ZenonT(40), <1>4, <1>0 DEF EndPromotion, Typed
  <2>3. /\ r = [f \in Fields |-> r[f]] /\ r.pc \in Between /\ r.cands = {} /\ r.made = 0
        /\ r.id = 0 /\ r.then = "idle"
    BY <2>2 DEF Fields, Idle, Between, Plain
  <2>4. Moves(t, r.pc, r.cands, r.made, r.id, r.then)
    BY <1>0, <2>2, <2>3, Becomes
  <2>5. Moves(t, r.pc, {}, 0, 0, "idle")
    BY <2>3, <2>4
  <2> QED BY <1>0, <2>1, <2>3, <2>5, SameStill, LeaveStep
<1> QED BY <1>1, <1>2, <1>3, <1>4

=============================================================================
