-------------------------- MODULE ProjectCacheProofs --------------------------
(***************************************************************************)
(* The project cache keeps its promises for every number of sources, sizes *)
(* and edits.  The argument for a cached answer: the times of the files    *)
(* are stamps, so what was compiled under a snapshot is still right for    *)
(* every file whose stamp the snapshot covers; and while the compiler has  *)
(* never seen more than its snapshot, equal counts leave no room for a     *)
(* file that is gone.                                                      *)
(***************************************************************************)
EXTENDS ProjectCacheProperties, FiniteSetTheorems, TLAPS

\* The modification time of a file is the number of the edit that wrote it.
Stamped == honest => \A f \in File : Present(f) => disk[f].mtime = disk[f].content

\* Nothing is from the future.
InTime ==
    /\ \A f \in File : disk[f].mtime <= clock /\ disk[f].content <= clock
    /\ scan.latest <= clock
    /\ cache.snapshot.latest <= clock
    /\ \A k \in ByteKey : bytes[k] # None => k[2] <= clock
    /\ phase = "reading" => statted \in ByteKey /\ statted[2] <= clock

\* The tree t is right for the files whose times the snapshot s covers.
RightFor(t, s, F) ==
    \A f \in F : Present(f) /\ disk[f].content <= s.latest => t[f] = disk[f].content

Compiled ==
    /\ honest /\ phase = "compiling" => RightFor(tree, scan, File \ pending)
    /\ honest /\ cache # NothingCached => RightFor(cache.tree, cache.snapshot, File)

\* What is on disk, and what the compiler has read of it, was there during the
\* request.
Witnessed ==
    /\ phase # "idle" => \A f \in File : disk[f].content \in during[f]
    /\ phase = "compiling" => \A f \in File \ pending : tree[f] \in during[f]

\* The sources of a compilation are no more than those its snapshot counted,
\* while no source has ever been created behind a snapshot.
Counted(S, s) == late = {} => Cardinality(S) <= s.count

Scanned == {f \in File \ pending : Present(f)}
Compiling == {f \in File : IF f \in pending THEN Present(f) ELSE tree[f] # None}
Cached == {f \in File : cache.tree[f] # None}

FewEnough ==
    /\ phase = "scanning" => Counted(Scanned, scan)
    /\ phase = "compiling" => Counted(Compiling, scan)
    /\ cache # NothingCached => Counted(Cached, cache.snapshot)

\* The files scanned whose cached compilation is one of this request.
Current == {f \in File \ pending : cache.tree[f] # None /\ cache.tree[f] \in during[f]}

\* A scan that may still turn out to be the cached snapshot.
Promising ==
    /\ phase = "scanning" /\ honest /\ cache # NothingCached
    /\ scan.latest <= cache.snapshot.latest

ManyEnough ==
    Promising =>
        /\ \A f \in File \ pending : f \in Current \/ None \in during[f]
        /\ scan.count <= Cardinality(Current)

\* The bytes kept under the key a file has now are its own.
BytesKept ==
    honest =>
        /\ \A k \in ByteKey :
              bytes[k] # None /\ Present(k[1]) /\ disk[k[1]].mtime = k[2]
                => bytes[k] = disk[k[1]].content
        /\ phase = "reading" /\ bytes[statted] # None => bytes[statted] \in during[statted[1]]

IInv ==
    /\ CacheTypeOK /\ Stamped /\ InTime /\ Compiled /\ Witnessed
    /\ FewEnough /\ ManyEnough /\ BytesKept
    /\ CurrentSources /\ CurrentBytes

-----------------------------------------------------------------------------
(* What the editor does, seen from the times of the files.                 *)

\* An edit leaves the server alone, and as long as the times are honest a file
\* is untouched, gone, or stamped with a new time.
LEMMA EditorStep ==
    ASSUME CacheTypeOK, InTime, TrackedNext, Editor
    PROVE  /\ UNCHANGED serverVars /\ clock' = clock + 1 /\ clock' \in Time
           /\ disk' \in [File -> Source \cup {Absent}]
           /\ \A f \in File : disk'[f].mtime <= clock' /\ disk'[f].content <= clock'
           /\ honest' => \A f \in File :
                 \/ disk'[f] = disk[f]
                 \/ disk'[f] = Absent
                 \/ disk'[f].mtime = clock' /\ disk'[f].content = clock'
<1> USE CacheAssumption
<1>1. PICK f \in File : \/ Save(f) \/ Create(f) \/ Remove(f) \/ Restore(f)
                        \/ \E g \in File : Move(f, g)
  BY DEF Editor
<1>2. clock \in Int /\ clock < MaxEdits /\ clock' = clock + 1 /\ clock' \in Time
      /\ UNCHANGED serverVars
  BY <1>1 DEF Save, Create, Remove, Restore, Move, Written, Edit, CacheTypeOK, Time
<1>3. honest' => honest /\ \A h \in File :
                    disk'[h] \in {disk[h], Absent} \/ disk'[h].mtime = clock'
  BY DEF TrackedNext
<1>4. \A h \in File : /\ disk[h].mtime \in Int /\ disk[h].content \in Int
                      /\ disk[h].mtime < clock' /\ disk[h].content < clock'
  BY <1>2 DEF InTime, CacheTypeOK, Source, Absent, None, Time, Content
<1>5. Absent.mtime <= clock' /\ Absent.content <= clock'
  BY <1>2 DEF Absent, None, Time
<1>6. CASE Written(f)
  <2>1. PICK s \in Size :
          disk' = [disk EXCEPT ![f] = [content |-> clock + 1, size |-> s, mtime |-> clock + 1]]
    BY <1>6 DEF Written, Edit
  <2>2. /\ disk'[f] = [content |-> clock + 1, size |-> s, mtime |-> clock + 1]
        /\ \A h \in File \ {f} : disk'[h] = disk[h]
    BY <2>1 DEF CacheTypeOK
  <2>3. [content |-> clock + 1, size |-> s, mtime |-> clock + 1] \in Source
    BY <1>2 DEF Source, Time, Content
  <2>4. disk' \in [File -> Source \cup {Absent}]
    BY <2>1, <2>3 DEF CacheTypeOK
  <2>5. \A h \in File \ {f} : disk'[h].mtime <= clock' /\ disk'[h].content <= clock'
    BY <1>2, <2>2, <1>4
  <2> QED  BY <1>2, <2>2, <2>4, <2>5
<1>7. CASE Remove(f)
  <2>1. disk' = [disk EXCEPT ![f] = Absent]
    BY <1>7 DEF Remove, Edit
  <2>2. disk' \in [File -> Source \cup {Absent}]
    BY <2>1 DEF CacheTypeOK
  <2>3. disk'[f] = Absent /\ \A h \in File \ {f} : disk'[h] = disk[h]
    BY <2>1 DEF CacheTypeOK
  <2> QED  BY <1>2, <2>2, <2>3, <1>4, <1>5
<1>8. CASE Restore(f)
  <2>1. PICK s \in Size, t \in 0..clock :
          disk' = [disk EXCEPT ![f] = [content |-> clock + 1, size |-> s, mtime |-> t]]
    BY <1>8 DEF Restore, Edit
  <2>2. t \in Time /\ t < clock'
    BY <1>2 DEF CacheTypeOK, Time
  <2>3. disk' \in [File -> Source \cup {Absent}]
    BY <1>2, <2>1, <2>2 DEF CacheTypeOK, Source, Time, Content
  <2>4. disk'[f].mtime = t /\ disk'[f].content = clock + 1
    BY <2>1 DEF CacheTypeOK
  <2>5. ~honest'
    BY <1>2, <1>3, <2>2, <2>4 DEF CacheTypeOK, InTime, Absent, None
  <2>6. \A h \in File \ {f} : disk'[h] = disk[h]
    BY <2>1 DEF CacheTypeOK
  <2> QED  BY <1>2, <2>2, <2>3, <2>4, <2>5, <2>6, <1>4
<1>9. ASSUME NEW g \in File, Move(f, g)
      PROVE  /\ disk' \in [File -> Source \cup {Absent}]
             /\ \A h \in File : disk'[h].mtime <= clock' /\ disk'[h].content <= clock'
             /\ honest' => \A h \in File : disk'[h] = disk[h] \/ disk'[h] = Absent
  <2>1. disk' = [disk EXCEPT ![f] = Absent, ![g] = disk[f]] /\ f # g /\ disk[f] # Absent
    BY <1>9 DEF Move, Edit, Present, Absent
  <2>2. disk' \in [File -> Source \cup {Absent}]
    BY <2>1 DEF CacheTypeOK
  <2>3. /\ disk'[g] = disk[f] /\ disk'[f] = Absent
        /\ \A h \in File \ {f, g} : disk'[h] = disk[h]
    BY <2>1 DEF CacheTypeOK
  <2>4. disk[f].mtime < clock'
    BY <1>2, <1>4
  <2>5. honest' => disk'[g] = disk[g]
    <3> SUFFICES ASSUME honest' PROVE disk'[g] = disk[g]
      OBVIOUS
    <3>1. disk'[g] \in {disk[g], Absent} \/ disk'[g].mtime = clock'
      BY <1>3
    <3>2. disk'[g] # Absent /\ disk'[g].mtime # clock'
      BY <2>1, <2>3, <2>4, <1>2, <1>4
    <3> QED  BY <3>1, <3>2
  <2>6. \A h \in File : disk'[h] = Absent \/ \E i \in File : disk'[h] = disk[i]
    BY <2>3
  <2> QED  BY <1>2, <2>2, <2>3, <2>5, <2>6, <1>4, <1>5
<1> QED  BY <1>1, <1>2, <1>6, <1>7, <1>8, <1>9 DEF Save, Create

\* Every other step leaves the sources and their times alone.
LEMMA ServerStep ==
    ASSUME CacheTypeOK, Request \/ Server
    PROVE  UNCHANGED <<disk, clock>>
BY DEF Request, Server, Scan, Compile, StatBytes, CacheHit, CacheMiss, CompileFails,
       StoreCompilation, ReadBytes, Answer

\* What the history variables do at any step.
LEMMA Tracked ==
    ASSUME CacheTypeOK, TrackedNext
    PROVE  /\ honest' => honest
           /\ late \subseteq late'
           /\ \A f \in File : disk'[f].content \in during'[f]
           /\ ~(phase # "scanning" /\ phase' = "scanning")
                => \A f \in File : during[f] \subseteq during'[f]
           /\ phase \in {"scanning", "compiling"} /\ late' = {}
                => \A f \in File : Present(f)' => Present(f)
BY DEF TrackedNext, CacheTypeOK, Contents, Present

LEMMA TypeInit ==
    TrackedInit => CacheTypeOK
<1> USE CacheAssumption
<1> SUFFICES ASSUME TrackedInit PROVE CacheTypeOK
  OBVIOUS
<1>1. 0 \in Time /\ 0 \in Content
  BY DEF Time, Content
<1>2. disk \in [File -> Source \cup {Absent}]
  BY <1>1 DEF TrackedInit, Init, Source
<1> QED  BY <1>1, <1>2 DEF TrackedInit, Init, CacheTypeOK, Phase, Snapshot, Tree, NoTree,
                          NothingCached, None

LEMMA TypeNext ==
    ASSUME CacheTypeOK, InTime, TrackedNext
    PROVE  CacheTypeOK'
<1> USE CacheAssumption
<1>1. disk' \in [File -> Source \cup {Absent}] =>
          /\ during' \in [File -> SUBSET (Content \cup {None})]
          /\ honest' \in BOOLEAN /\ late' \subseteq File
  BY DEF TrackedNext, CacheTypeOK, Contents, Source, Absent
<1>2. CASE Editor
  BY <1>1, <1>2, EditorStep DEF CacheTypeOK, serverVars
<1>3. ASSUME Request \/ Server
      PROVE  disk' = disk /\ clock' = clock
  BY <1>3, ServerStep
<1>4. CASE Request
  BY <1>1, <1>3, <1>4 DEF Request, CacheTypeOK, Phase, Snapshot, Time, NoTree, None, Tree
<1>5. ASSUME NEW f \in File, Scan(f)
      PROVE  CacheTypeOK'
  <2>1. disk[f].mtime \in Time \/ ~Present(f)
    BY DEF CacheTypeOK, Source, Absent, Present
  <2>2. scan' \in Snapshot
    BY <1>5, <2>1 DEF Scan, CacheTypeOK, Snapshot, Later
  <2>3. Server
    BY <1>5 DEF Server
  <2> QED  BY <1>1, <1>3, <1>5, <2>2, <2>3 DEF Scan, CacheTypeOK
<1>6. ASSUME NEW f \in File, Compile(f)
      PROVE  CacheTypeOK'
  <2>1. disk[f].content \in Content \cup {None}
    BY DEF CacheTypeOK, Source, Absent
  <2>2. tree' \in [File -> Content \cup {None}] /\ Server
    BY <1>6, <2>1 DEF Compile, CacheTypeOK, Server
  <2> QED  BY <1>1, <1>3, <1>6, <2>2 DEF Compile, CacheTypeOK
<1>7. ASSUME NEW f \in File, StatBytes(f)
      PROVE  CacheTypeOK'
  <2>1. Present(f) => Key(f) \in ByteKey
    BY DEF Present, Key, ByteKey, CacheTypeOK, Source, Absent
  <2>2. statted' \in ByteKey \cup {<<>>} /\ phase' \in Phase /\ Server
    BY <1>7, <2>1 DEF StatBytes, CacheTypeOK, Server, Phase
  <2> QED  BY <1>1, <1>3, <1>7, <2>2 DEF StatBytes, CacheTypeOK
<1>8. CASE CacheHit
  BY <1>1, <1>3, <1>8 DEF Server, CacheHit, CacheTypeOK, Phase, Tree, NothingCached, NoTree, None
<1>9. CASE CacheMiss \/ CompileFails
  BY <1>1, <1>3, <1>9 DEF Server, CacheMiss, CompileFails, CacheTypeOK, Phase
<1>10. CASE StoreCompilation
  BY <1>1, <1>3, <1>10 DEF Server, StoreCompilation, CacheTypeOK, Phase, Recorded, Tree
<1>11. CASE ReadBytes
  <2>1. statted \in ByteKey
    BY <1>11 DEF ReadBytes, InTime
  <2>2. statted[1] \in File /\ disk[statted[1]].content \in Content \cup {None}
    BY <2>1 DEF ByteKey, CacheTypeOK, Source, Absent
  <2>3. bytes' \in [ByteKey -> Content \cup {None}] /\ quoted' \in Tree
    BY <1>11, <2>1, <2>2 DEF ReadBytes, CachedBytes, CacheTypeOK, Tree
  <2> QED  BY <1>1, <1>3, <1>11, <2>3 DEF Server, ReadBytes, CacheTypeOK, Phase
<1>12. CASE Answer
  BY <1>1, <1>3, <1>12 DEF Server, Answer, CacheTypeOK, Phase
<1> QED  BY <1>2, <1>4, <1>5, <1>6, <1>7, <1>8, <1>9, <1>10, <1>11, <1>12
         DEF TrackedNext, Next, Server

-----------------------------------------------------------------------------
(* The inductive invariant, part by part.                                  *)

LEMMA StampedNext ==
    ASSUME CacheTypeOK, InTime, Stamped, TrackedNext
    PROVE  Stamped'
<1>1. CASE Editor
  BY <1>1, EditorStep, Tracked DEF Stamped, Present, Absent
<1>2. CASE Request \/ Server
  BY <1>2, ServerStep, Tracked DEF Stamped, Present
<1> QED  BY <1>1, <1>2 DEF TrackedNext, Next

LEMMA InTimeNext ==
    ASSUME CacheTypeOK, InTime, TrackedNext
    PROVE  InTime'
<1>1. clock \in Int
  BY CacheAssumption DEF CacheTypeOK, Time
<1>2. CASE Editor
  <2>1. UNCHANGED serverVars /\ clock' = clock + 1
    BY <1>2, EditorStep
  <2>2. \A k \in ByteKey : k[2] \in Int
    BY DEF ByteKey, Time
  <2>3. scan.latest \in Int /\ cache.snapshot.latest \in Int
    BY DEF CacheTypeOK, Snapshot, NothingCached, Time
  <2> QED  BY <1>1, <1>2, <2>1, <2>2, <2>3, EditorStep DEF InTime, serverVars
<1>3. ASSUME Request \/ Server
      PROVE  UNCHANGED <<disk, clock>>
  BY <1>3, ServerStep
<1>4. 0 <= clock
  BY DEF CacheTypeOK, Time
<1>5. CASE Request
  BY <1>3, <1>4, <1>5 DEF Request, InTime
<1>6. ASSUME NEW f \in File, Scan(f)
      PROVE  InTime'
  BY <1>3, <1>6 DEF Scan, Later, Server, InTime
<1>7. ASSUME NEW f \in File, StatBytes(f)
      PROVE  InTime'
  <2>1. Present(f) => Key(f) \in ByteKey /\ Key(f)[2] <= clock
    BY DEF Present, Key, ByteKey, CacheTypeOK, Source, Absent, InTime
  <2> QED  BY <1>3, <1>7, <2>1 DEF StatBytes, Server, InTime
<1>8. ASSUME NEW f \in File, Compile(f)
      PROVE  InTime'
  BY <1>3, <1>8 DEF Compile, Server, InTime
<1>9. CASE StoreCompilation
  BY <1>3, <1>9 DEF StoreCompilation, Recorded, Server, InTime
<1>10. CASE ReadBytes
  <2>1. statted \in ByteKey /\ statted[2] <= clock
    BY <1>10 DEF ReadBytes, InTime
  <2>2. \A k \in ByteKey \ {statted} : bytes'[k] = bytes[k]
    BY <1>10 DEF ReadBytes, CacheTypeOK
  <2> QED  BY <1>3, <1>10, <2>1, <2>2 DEF ReadBytes, Server, InTime
<1>11. CASE CacheHit \/ CacheMiss \/ CompileFails \/ Answer
  BY <1>3, <1>11 DEF CacheHit, CacheMiss, CompileFails, Answer, Server, InTime
<1> QED  BY <1>2, <1>5, <1>6, <1>7, <1>8, <1>9, <1>10, <1>11 DEF TrackedNext, Next, Server

\* A tree that is right for what its snapshot covers stays so under an edit.
LEMMA StaysRight ==
    ASSUME CacheTypeOK, InTime, TrackedNext, Editor, honest',
           NEW t, NEW s, s.latest \in Int, s.latest <= clock,
           NEW F \in SUBSET File, RightFor(t, s, F)
    PROVE  \A f \in F : Present(f)' /\ disk'[f].content <= s.latest => t[f] = disk'[f].content
<1>1. clock \in Int /\ clock' = clock + 1
  BY EditorStep, CacheAssumption DEF CacheTypeOK, Time
<1> QED  BY <1>1, EditorStep DEF RightFor, Present, Absent

LEMMA CompiledNext ==
    ASSUME CacheTypeOK, InTime, Compiled, TrackedNext
    PROVE  Compiled'
<1>1. honest' => honest
  BY Tracked
<1>2. CASE Editor
  <2>1. UNCHANGED serverVars
    BY <1>2, EditorStep
  <2>2. scan.latest \in Int /\ cache.snapshot.latest \in Int
    BY DEF CacheTypeOK, Snapshot, NothingCached, Time
  <2>3. honest' /\ phase = "compiling" =>
          \A f \in File \ pending :
             Present(f)' /\ disk'[f].content <= scan.latest => tree[f] = disk'[f].content
    BY <1>1, <1>2, <2>2, StaysRight DEF InTime, Compiled
  <2>4. honest' /\ cache # NothingCached =>
          \A f \in File :
             Present(f)' /\ disk'[f].content <= cache.snapshot.latest
               => cache.tree[f] = disk'[f].content
    BY <1>1, <1>2, <2>2, StaysRight DEF InTime, Compiled
  <2> QED  BY <2>1, <2>3, <2>4 DEF Compiled, RightFor, serverVars
<1>3. ASSUME Request \/ Server
      PROVE  UNCHANGED <<disk, clock>>
  BY <1>3, ServerStep
<1>4. ASSUME NEW f \in File, Compile(f)
      PROVE  Compiled'
  <2>1. tree' = [tree EXCEPT ![f] = disk[f].content] /\ tree \in [File -> Content \cup {None}]
    BY <1>4 DEF Compile, CacheTypeOK
  <2> QED  BY <1>1, <1>3, <1>4, <2>1 DEF Compile, Server, Compiled, RightFor, Present
<1>5. CASE StoreCompilation
  BY <1>1, <1>3, <1>5 DEF StoreCompilation, Recorded, Server, Compiled, RightFor, Present
<1>6. CASE CacheMiss
  BY <1>1, <1>3, <1>6 DEF CacheMiss, Server, Compiled, RightFor, Present, CacheTypeOK
<1>7. ASSUME NEW f \in File, Scan(f) \/ StatBytes(f)
      PROVE  Compiled'
  BY <1>1, <1>3, <1>7 DEF Scan, StatBytes, Server, Compiled, RightFor, Present
<1>8. CASE Request \/ CacheHit \/ CompileFails \/ ReadBytes \/ Answer
  BY <1>1, <1>3, <1>8
     DEF Request, CacheHit, CompileFails, ReadBytes, Answer, Server, Compiled, RightFor, Present
<1> QED  BY <1>2, <1>4, <1>5, <1>6, <1>7, <1>8 DEF TrackedNext, Next, Server

LEMMA WitnessedNext ==
    ASSUME CacheTypeOK, Witnessed, TrackedNext
    PROVE  Witnessed'
<1>1. \A f \in File : disk'[f].content \in during'[f]
  BY Tracked
<1>2. ASSUME phase' = "compiling"
      PROVE  \A f \in File \ pending' : tree'[f] \in during'[f]
  <2>1. \A f \in File : during[f] \subseteq during'[f]
    BY <1>2, Tracked
  <2>2. ASSUME Editor \/ CompileFails \/ CacheHit \/ StoreCompilation \/ ReadBytes \/ Answer \/ Request
        PROVE  phase = "compiling" /\ UNCHANGED <<pending, tree>>
    BY <1>2, <2>2 DEF Editor, Save, Create, Remove, Restore, Move, Written, Edit, serverVars,
                      CompileFails, CacheHit, StoreCompilation, ReadBytes, Answer, Request
  <2>3. ASSUME NEW f \in File, Compile(f)
        PROVE  \A g \in File \ pending' : tree'[g] \in during'[g]
    <3>1. disk' = disk
      BY <2>3 DEF Compile
    <3> QED  BY <1>1, <2>1, <2>3, <3>1 DEF Compile, Witnessed, CacheTypeOK
  <2>4. ASSUME NEW f \in File, Scan(f) \/ StatBytes(f)
        PROVE  FALSE
    BY <1>2, <2>4 DEF Scan, StatBytes
  <2>5. CASE CacheMiss
    BY <2>5 DEF CacheMiss
  <2> QED  BY <2>1, <2>2, <2>3, <2>4, <2>5 DEF TrackedNext, Next, Server, Witnessed
<1> QED  BY <1>1, <1>2 DEF Witnessed

LEMMA SubsetCount ==
    ASSUME NEW S \in SUBSET File, NEW T \in SUBSET S
    PROVE  /\ IsFiniteSet(S) /\ Cardinality(S) \in Nat
           /\ Cardinality(T) \in Nat /\ Cardinality(T) <= Cardinality(S)
           /\ Cardinality(S) = Cardinality(T) => S = T
BY CacheAssumption, FS_Subset, FS_CardinalityType

\* Without a file created behind a snapshot, the files there are can only get
\* fewer while the snapshot is taken and the compiler runs.
LEMMA FewEnoughNext ==
    ASSUME CacheTypeOK, FewEnough, TrackedNext
    PROVE  FewEnough'
<1> SUFFICES ASSUME late' = {} PROVE FewEnough'
  BY DEF FewEnough, Counted
<1>1. late = {}
  BY Tracked
<1>2. phase \in {"scanning", "compiling"} => \A f \in File : Present(f)' => Present(f)
  BY Tracked
<1>3. CASE Editor
  <2>1. UNCHANGED serverVars
    BY <1>3 DEF Editor, Save, Create, Remove, Restore, Move, Written, Edit
  <2>2. phase = "scanning" => Scanned' \in SUBSET Scanned
    BY <1>2, <2>1 DEF Scanned, serverVars
  <2>3. phase = "compiling" => Compiling' \in SUBSET Compiling
    BY <1>2, <2>1 DEF Compiling, serverVars
  <2>4. Scanned \in SUBSET File /\ Compiling \in SUBSET File /\ scan.count \in Nat
    BY DEF Scanned, Compiling, CacheTypeOK, Snapshot
  <2>5. phase = "scanning" => Cardinality(Scanned') <= scan.count
    BY <1>1, <2>2, <2>4, SubsetCount DEF FewEnough, Counted
  <2>6. phase = "compiling" => Cardinality(Compiling') <= scan.count
    BY <1>1, <2>3, <2>4, SubsetCount DEF FewEnough, Counted
  <2> QED  BY <1>1, <2>1, <2>5, <2>6 DEF FewEnough, Counted, Cached, serverVars
<1>4. ASSUME Request \/ Server
      PROVE  disk' = disk
  BY <1>4, ServerStep
<1>5. CASE Request
  <2>1. Scanned' = {}
    BY <1>5 DEF Request, Scanned
  <2> QED  BY <1>1, <1>5, <2>1, FS_EmptySet DEF Request, FewEnough, Counted, Cached
<1>6. ASSUME NEW f \in File, Scan(f)
      PROVE  FewEnough'
  <2>1. Cardinality(Scanned) <= scan.count /\ scan.count \in Nat
    BY <1>1, <1>6 DEF Scan, FewEnough, Counted, CacheTypeOK, Snapshot
  <2>2. Scanned' = IF Present(f) THEN Scanned \cup {f} ELSE Scanned
    BY <1>4, <1>6 DEF Scan, Scanned, Present, Server, CacheTypeOK
  <2>3. IsFiniteSet(Scanned) /\ Cardinality(Scanned) \in Nat
    BY SubsetCount DEF Scanned
  <2>4. scan'.count = IF Present(f) THEN scan.count + 1 ELSE scan.count
    BY <1>6 DEF Scan
  <2>5. Cardinality(Scanned \cup {f}) <= Cardinality(Scanned) + 1
    <3>1. \/ Cardinality(Scanned \cup {f}) = Cardinality(Scanned)
          \/ Cardinality(Scanned \cup {f}) = Cardinality(Scanned) + 1
      BY <2>3, FS_AddElement
    <3> QED  BY <2>3, <3>1
  <2>6. Cardinality(Scanned \cup {f}) \in Nat
    BY <2>3, FS_AddElement, FS_CardinalityType
  <2>7. CASE Present(f)
    BY <1>1, <1>6, <2>1, <2>2, <2>3, <2>4, <2>5, <2>6, <2>7
       DEF Scan, FewEnough, Counted, Cached
  <2>8. CASE ~Present(f)
    BY <1>1, <1>6, <2>1, <2>2, <2>4, <2>8 DEF Scan, FewEnough, Counted, Cached
  <2> QED  BY <2>7, <2>8
<1>7. CASE CacheMiss
  <2>1. Compiling' = Scanned
    BY <1>4, <1>7 DEF CacheMiss, Server, Compiling, Scanned, Present
  <2> QED  BY <1>1, <1>7, <2>1 DEF CacheMiss, FewEnough, Counted, Cached
<1>8. ASSUME NEW f \in File, Compile(f)
      PROVE  FewEnough'
  <2>1. Compiling' = Compiling
    BY <1>4, <1>8 DEF Compile, Server, Compiling, Present, CacheTypeOK
  <2> QED  BY <1>1, <1>8, <2>1 DEF Compile, FewEnough, Counted, Cached
<1>9. CASE StoreCompilation
  <2>1. Cached' = Compiling
    BY <1>9 DEF StoreCompilation, Cached, Compiling
  <2> QED  BY <1>1, <1>9, <2>1 DEF StoreCompilation, Recorded, FewEnough, Counted
<1>10. ASSUME NEW f \in File, StatBytes(f)
       PROVE  FewEnough'
  BY <1>1, <1>10 DEF StatBytes, FewEnough, Counted, Cached
<1>11. CASE CacheHit \/ CompileFails \/ ReadBytes \/ Answer
  BY <1>1, <1>11 DEF CacheHit, CompileFails, ReadBytes, Answer, FewEnough, Counted, Cached
<1> QED  BY <1>3, <1>5, <1>6, <1>7, <1>8, <1>9, <1>10, <1>11 DEF TrackedNext, Next, Server

\* A file that is scanned and covered by the cached snapshot was compiled as it
\* is now, and counts.
LEMMA ManyEnoughNext ==
    ASSUME CacheTypeOK, Stamped, InTime, Compiled, Witnessed, ManyEnough, TrackedNext
    PROVE  ManyEnough'
<1> SUFFICES ASSUME Promising'
             PROVE  /\ \A f \in File \ pending' : f \in Current' \/ None \in during'[f]
                    /\ scan'.count <= Cardinality(Current')
  BY DEF ManyEnough
<1>1. honest /\ honest' /\ phase' = "scanning"
  BY Tracked DEF Promising
<1>2. scan.count \in Nat /\ scan.latest \in Int /\ cache.snapshot.latest \in Int
  BY DEF CacheTypeOK, Snapshot, NothingCached, Time
<1>3. CASE Request
  <2>1. File \ pending' = {} /\ Current' = {} /\ scan'.count = 0
    BY <1>3 DEF Request, Current
  <2> QED  BY <2>1, FS_EmptySet
<1>4. CASE phase = "scanning" /\ UNCHANGED <<pending, scan, cache>>
  <2>1. Promising /\ \A f \in File : during[f] \subseteq during'[f]
    BY <1>1, <1>4, Tracked DEF Promising
  <2>2. Current \in SUBSET Current' /\ Current' \in SUBSET File
    BY <1>4, <2>1 DEF Current
  <2>3. Cardinality(Current) <= Cardinality(Current')
        /\ Cardinality(Current) \in Nat /\ Cardinality(Current') \in Nat
    BY <2>2, SubsetCount
  <2> QED  BY <1>2, <1>4, <2>1, <2>2, <2>3 DEF ManyEnough
<1>5. ASSUME NEW f \in File, Scan(f)
      PROVE  /\ \A g \in File \ pending' : g \in Current' \/ None \in during'[g]
             /\ scan'.count <= Cardinality(Current')
  <2>1. /\ phase = "scanning" /\ f \in pending /\ pending' = pending \ {f}
        /\ UNCHANGED <<disk, clock, cache>>
    BY <1>5 DEF Scan
  <2>2. \A g \in File : during[g] \subseteq during'[g] /\ disk[g].content \in during'[g]
    BY <1>1, <2>1, Tracked
  <2>3. Current \in SUBSET Current' /\ Current' \in SUBSET File /\ f \notin Current
    BY <2>1, <2>2 DEF Current
  <2>4. /\ Current \in SUBSET File /\ IsFiniteSet(Current) /\ IsFiniteSet(Current')
        /\ Cardinality(Current) \in Nat /\ Cardinality(Current') \in Nat
    BY <2>3, SubsetCount
  <2>5. CASE Present(f)
    <3>1. disk[f].mtime \in Int /\ disk[f].mtime = disk[f].content
      BY <1>1, <2>5 DEF Stamped, CacheTypeOK, Source, Absent, Time
    <3>2. scan' = [count |-> scan.count + 1, latest |-> Later(scan.latest, disk[f].mtime)]
      BY <1>5, <2>5 DEF Scan
    <3>3. disk[f].content <= cache.snapshot.latest /\ Promising
      BY <1>1, <1>2, <2>1, <3>1, <3>2 DEF Promising, Later
    <3>4. cache.tree[f] = disk[f].content /\ disk[f].content # None
      BY <2>5, <3>3 DEF Promising, Compiled, RightFor, Present
    <3>5. f \in Current'
      BY <2>1, <2>2, <3>4 DEF Current
    <3>6. Current \cup {f} \in SUBSET Current'
      BY <2>3, <3>5
    <3>7. Cardinality(Current \cup {f}) = Cardinality(Current) + 1
      BY <2>3, <2>4, FS_AddElement
    <3>8. Cardinality(Current \cup {f}) <= Cardinality(Current')
      BY <2>3, <3>6, SubsetCount
    <3> QED  BY <1>2, <2>1, <2>2, <2>3, <2>4, <3>2, <3>3, <3>5, <3>7, <3>8 DEF ManyEnough
  <2>6. CASE ~Present(f)
    <3>1. scan' = scan /\ None \in during'[f] /\ Promising
      BY <1>1, <1>5, <2>1, <2>2, <2>6 DEF Scan, Present, Promising
    <3>2. Cardinality(Current) <= Cardinality(Current')
      BY <2>3, SubsetCount
    <3> QED  BY <1>2, <2>1, <2>2, <2>3, <2>4, <3>1, <3>2 DEF ManyEnough
  <2> QED  BY <2>5, <2>6
<1>6. CASE Editor
  BY <1>1, <1>4, <1>6 DEF Editor, Save, Create, Remove, Restore, Move, Written, Edit, serverVars
<1>7. ASSUME NEW f \in File, Compile(f) \/ StatBytes(f)
      PROVE  FALSE
  BY <1>1, <1>7 DEF Compile, StatBytes
<1>8. CASE CacheHit \/ CacheMiss \/ CompileFails \/ StoreCompilation \/ ReadBytes \/ Answer
  BY <1>1, <1>8 DEF CacheHit, CacheMiss, CompileFails, StoreCompilation, ReadBytes, Answer
<1> QED  BY <1>3, <1>5, <1>6, <1>7, <1>8 DEF TrackedNext, Next, Server

\* A key that a file still has was never the key of another content: a new time
\* is greater than that of every key there is.
LEMMA BytesKeptNext ==
    ASSUME CacheTypeOK, InTime, BytesKept, TrackedNext
    PROVE  BytesKept'
<1> SUFFICES ASSUME honest' PROVE BytesKept'
  BY DEF BytesKept
<1>1. honest /\ clock \in Int
  BY Tracked, CacheAssumption DEF CacheTypeOK, Time
<1>2. \A k \in ByteKey : k[1] \in File /\ k[2] \in Int
  BY DEF ByteKey, Time
<1>3. \A f \in File : disk'[f].content \in during'[f]
  BY Tracked
<1>4. CASE Editor
  <2>1. UNCHANGED serverVars /\ clock' = clock + 1
    BY <1>4, EditorStep
  <2>2. ASSUME NEW k \in ByteKey, bytes[k] # None, Present(k[1])', disk'[k[1]].mtime = k[2]
        PROVE  bytes[k] = disk'[k[1]].content
    <3>1. disk'[k[1]] # Absent /\ k[2] <= clock
      BY <2>2 DEF Present, Absent, InTime
    <3>2. disk'[k[1]] = disk[k[1]]
      BY <1>1, <1>2, <1>4, <2>1, <2>2, <3>1, EditorStep
    <3> QED  BY <1>1, <2>2, <3>2 DEF BytesKept, Present
  <2>3. \A f \in File : during[f] \subseteq during'[f]
    BY <2>1, Tracked DEF serverVars
  <2>4. phase = "reading" => statted[1] \in File
    BY <1>2 DEF InTime
  <2> QED  BY <1>1, <2>1, <2>2, <2>3, <2>4 DEF BytesKept, serverVars
<1>5. ASSUME Request \/ Server
      PROVE  disk' = disk
  BY <1>5, ServerStep
<1>6. ASSUME NEW f \in File, StatBytes(f)
      PROVE  BytesKept'
  <2>1. disk' = disk /\ bytes' = bytes /\ phase = "quoting"
    BY <1>6 DEF StatBytes
  <2>2. ASSUME phase' = "reading", bytes'[statted'] # None
        PROVE  bytes'[statted'] \in during'[statted'[1]]
    <3>1. Present(f) /\ statted' = Key(f) /\ Key(f) \in ByteKey
      BY <1>6, <2>1, <2>2 DEF StatBytes, Present, Key, ByteKey, CacheTypeOK, Source, Absent
    <3>2. Key(f)[1] = f /\ Key(f)[2] = disk[f].mtime
      BY DEF Key
    <3>3. bytes[Key(f)] = disk[f].content
      BY <1>1, <2>1, <2>2, <3>1, <3>2 DEF BytesKept
    <3> QED  BY <1>3, <2>1, <3>1, <3>2, <3>3
  <2> QED  BY <1>1, <2>1, <2>2 DEF BytesKept, Present
<1>7. CASE ReadBytes
  <2>1. statted \in ByteKey
    BY <1>7 DEF ReadBytes, InTime
  <2>2. /\ disk' = disk /\ phase' = "quoting"
        /\ \A k \in ByteKey \ {statted} : bytes'[k] = bytes[k]
        /\ bytes'[statted] = IF bytes[statted] # None THEN bytes[statted]
                             ELSE disk[statted[1]].content
    BY <1>7, <2>1 DEF ReadBytes, CachedBytes, CacheTypeOK
  <2> QED  BY <1>1, <2>1, <2>2 DEF BytesKept, Present
<1>8. ASSUME NEW f \in File, Scan(f) \/ Compile(f)
      PROVE  BytesKept'
  BY <1>1, <1>5, <1>8 DEF Scan, Compile, BytesKept, Present
<1>9. CASE Request \/ CacheHit \/ CacheMiss \/ CompileFails \/ StoreCompilation \/ Answer
  BY <1>1, <1>5, <1>9 DEF Request, CacheHit, CacheMiss, CompileFails, StoreCompilation, Answer,
                          BytesKept, Present
<1> QED  BY <1>4, <1>6, <1>7, <1>8, <1>9 DEF TrackedNext, Next, Server

LEMMA CurrentBytesNext ==
    ASSUME CacheTypeOK, InTime, BytesKept, CurrentBytes, TrackedNext
    PROVE  CurrentBytes'
<1> SUFFICES ASSUME honest' PROVE CurrentBytes'
  BY DEF CurrentBytes
<1>1. honest /\ \A f \in File : disk'[f].content \in during'[f]
  BY Tracked
<1>2. CASE Request
  BY <1>2 DEF Request, CurrentBytes, NoTree
<1>3. ASSUME ~(phase # "scanning" /\ phase' = "scanning")
      PROVE  \A f \in File : during[f] \subseteq during'[f]
  BY <1>3, Tracked
<1>4. CASE ReadBytes
  <2>1. statted \in ByteKey /\ statted[1] \in File
    BY <1>4 DEF ReadBytes, InTime, ByteKey
  <2>2. /\ \A f \in File \ {statted[1]} : quoted'[f] = quoted[f]
        /\ quoted'[statted[1]] = IF bytes[statted] # None THEN bytes[statted]
                                 ELSE disk[statted[1]].content
    BY <1>4, <2>1 DEF ReadBytes, CachedBytes, CacheTypeOK, Tree
  <2>3. disk' = disk /\ phase = "reading" /\ phase' = "quoting"
    BY <1>4 DEF ReadBytes
  <2>4. quoted'[statted[1]] \in during'[statted[1]]
    BY <1>1, <1>3, <2>1, <2>2, <2>3 DEF BytesKept
  <2> QED  BY <1>1, <1>3, <2>2, <2>3, <2>4 DEF CurrentBytes
<1>5. CASE quoted' = quoted /\ ~(phase # "scanning" /\ phase' = "scanning")
  BY <1>1, <1>3, <1>5 DEF CurrentBytes
<1>6. CASE Editor
  BY <1>5, <1>6, EditorStep DEF serverVars
<1>7. ASSUME NEW f \in File, Scan(f) \/ Compile(f) \/ StatBytes(f)
      PROVE  CurrentBytes'
  BY <1>5, <1>7 DEF Scan, Compile, StatBytes
<1>8. CASE CacheHit \/ CacheMiss \/ CompileFails \/ StoreCompilation \/ Answer
  BY <1>5, <1>8 DEF CacheHit, CacheMiss, CompileFails, StoreCompilation, Answer
<1> QED  BY <1>2, <1>4, <1>6, <1>7, <1>8 DEF TrackedNext, Next, Server

\* A cached compilation is served only if the scan counted as many files as its
\* snapshot did.  Every file counted now is one it holds, it holds no more than
\* its snapshot counted, so it holds no other.
LEMMA HitIsCurrent ==
    ASSUME CacheTypeOK, FewEnough, ManyEnough, honest, CacheHit
    PROVE  \A f \in File :
              cache.tree[f] \in during[f] \/ (late # {} /\ None \in during[f])
<1>1. phase = "scanning" /\ pending = {} /\ cache.snapshot = scan
  BY DEF CacheHit, Fresh
<1>2. scan.count \in Nat /\ scan.latest \in Int
  BY DEF CacheTypeOK, Snapshot, Time
<1>3. cache # NothingCached
  BY <1>1, <1>2 DEF NothingCached
<1>4. Promising
  BY <1>1, <1>2, <1>3 DEF Promising
<1>5. \A f \in File : f \in Current \/ None \in during[f]
  BY <1>1, <1>4 DEF ManyEnough
<1> SUFFICES ASSUME NEW f \in File
             PROVE  cache.tree[f] \in during[f] \/ (late # {} /\ None \in during[f])
  OBVIOUS
<1>6. CASE f \in Current
  BY <1>6 DEF Current
<1>7. CASE f \notin Current /\ late # {}
  BY <1>5, <1>7
<1>8. CASE f \notin Current /\ late = {}
  <2>1. Cardinality(Cached) <= scan.count /\ scan.count <= Cardinality(Current)
    BY <1>1, <1>3, <1>4, <1>8 DEF FewEnough, ManyEnough, Counted
  <2>2. Cached \in SUBSET File /\ Current \in SUBSET Cached
    BY DEF Current, Cached
  <2>3. /\ Cardinality(Cached) \in Nat /\ Cardinality(Current) \in Nat
        /\ Cardinality(Current) <= Cardinality(Cached)
    BY <2>2, SubsetCount
  <2>4. Cardinality(Cached) = Cardinality(Current)
    BY <1>2, <2>1, <2>3
  <2>5. Cached = Current
    BY <2>2, <2>4, SubsetCount
  <2>6. cache.tree[f] = None
    BY <1>8, <2>5 DEF Cached
  <2> QED  BY <1>5, <1>8, <2>6
<1> QED  BY <1>6, <1>7, <1>8

LEMMA CurrentSourcesNext ==
    ASSUME CacheTypeOK, Witnessed, FewEnough, ManyEnough, CurrentSources, TrackedNext
    PROVE  CurrentSources'
<1> DEFINE Right(f) == tree[f] \in during[f] \/ (late # {} /\ None \in during[f])
<1> SUFFICES ASSUME honest', Answering', NEW f \in File
             PROVE  Right(f)'
  BY DEF CurrentSources
<1>1. phase' \in {"quoting", "reading", "answered"}
  BY DEF Answering
<1>2. honest /\ late \subseteq late' /\ \A g \in File : during[g] \subseteq during'[g]
  BY <1>1, Tracked
<1>3. CASE Answering /\ tree' = tree
  <2>1. Right(f)
    BY <1>2, <1>3 DEF CurrentSources
  <2> QED  BY <1>2, <1>3, <2>1
<1>4. CASE CacheHit
  BY <1>2, <1>4, HitIsCurrent DEF CacheHit
<1>5. CASE StoreCompilation
  <2>1. tree'[f] = tree[f] /\ tree[f] \in during[f]
    BY <1>5 DEF StoreCompilation, Witnessed
  <2> QED  BY <1>2, <2>1
<1>6. CASE Editor
  BY <1>1, <1>3, <1>6 DEF Editor, Save, Create, Remove, Restore, Move, Written, Edit, serverVars,
                          Answering
<1>7. ASSUME NEW g \in File, Scan(g) \/ Compile(g)
      PROVE  FALSE
  BY <1>1, <1>7 DEF Scan, Compile
<1>8. ASSUME NEW g \in File, StatBytes(g)
      PROVE  Answering /\ tree' = tree
  BY <1>8 DEF StatBytes, Answering
<1>9. CASE ReadBytes \/ Answer
  BY <1>3, <1>9 DEF ReadBytes, Answer, Answering
<1>10. CASE Request \/ CacheMiss \/ CompileFails
  BY <1>1, <1>10 DEF Request, CacheMiss, CompileFails
<1> QED  BY <1>3, <1>4, <1>5, <1>6, <1>7, <1>8, <1>9, <1>10 DEF TrackedNext, Next, Server

LEMMA CacheInit ==
    TrackedInit => IInv
<1> SUFFICES ASSUME TrackedInit PROVE IInv
  OBVIOUS
<1>1. CacheTypeOK
  BY TypeInit
<1>2. clock = 0 /\ phase = "idle" /\ cache = NothingCached
  BY DEF TrackedInit, Init
<1>3. \A f \in File :
         /\ disk[f].mtime = 0 /\ disk[f].content <= 0
         /\ Present(f) => disk[f].mtime = disk[f].content
  BY DEF TrackedInit, Init, Absent, Present, None
<1>4. /\ scan = [count |-> 0, latest |-> 0]
      /\ cache.snapshot.latest = 0
      /\ \A k \in ByteKey : bytes[k] = None
  BY DEF TrackedInit, Init, NothingCached
<1>5. Stamped /\ InTime
  <2>1. Stamped
    BY <1>3 DEF Stamped
  <2>2. /\ \A f \in File : disk[f].mtime <= clock /\ disk[f].content <= clock
        /\ scan.latest <= clock /\ cache.snapshot.latest <= clock
    BY <1>2, <1>3, <1>4
  <2>3. phase # "reading"
    BY <1>2
  <2> QED  BY <1>4, <2>1, <2>2, <2>3 DEF InTime
<1>6. Compiled /\ Witnessed /\ FewEnough /\ ManyEnough
  BY <1>2 DEF Compiled, Witnessed, FewEnough, ManyEnough, Promising
<1>7. BytesKept /\ CurrentSources /\ CurrentBytes
  BY <1>2 DEF TrackedInit, Init, BytesKept, CurrentSources, Answering, CurrentBytes, NoTree
<1> QED  BY <1>1, <1>5, <1>6, <1>7 DEF IInv

LEMMA CacheNext ==
    IInv /\ [TrackedNext]_trackedVars => IInv'
<1> SUFFICES ASSUME IInv, [TrackedNext]_trackedVars PROVE IInv'
  OBVIOUS
<1>1. CASE TrackedNext
  BY <1>1, TypeNext, StampedNext, InTimeNext, CompiledNext, WitnessedNext, FewEnoughNext,
     ManyEnoughNext, BytesKeptNext, CurrentSourcesNext, CurrentBytesNext DEF IInv
<1>2. CASE UNCHANGED trackedVars
  <2>1. UNCHANGED vars /\ UNCHANGED <<during, honest, late>>
    BY <1>2 DEF trackedVars
  <2>2. CacheTypeOK' /\ Stamped' /\ InTime' /\ Compiled'
    BY <2>1 DEF IInv, vars, CacheTypeOK, Stamped, InTime, Compiled, RightFor, Present
  <2>3. Witnessed' /\ FewEnough'
    BY <2>1 DEF IInv, vars, Witnessed, FewEnough, Counted, Scanned, Compiling, Cached, Present
  <2>4. ManyEnough' /\ BytesKept'
    BY <2>1 DEF IInv, vars, ManyEnough, Promising, Current, BytesKept, Present
  <2>5. CurrentSources' /\ CurrentBytes'
    BY <2>1 DEF IInv, vars, CurrentSources, Answering, CurrentBytes
  <2> QED  BY <2>2, <2>3, <2>4, <2>5 DEF IInv
<1> QED  BY <1>1, <1>2

LEMMA CacheInvariant ==
    TrackedSpec => []IInv
BY CacheInit, CacheNext, PTL DEF TrackedSpec

-----------------------------------------------------------------------------
(* The theorems.                                                           *)

\* Every variable of the server and of its history keeps its type.
THEOREM CacheTypeCorrect ==
    TrackedSpec => []CacheTypeOK
<1>1. IInv => CacheTypeOK
  BY DEF IInv
<1> QED  BY <1>1, CacheInvariant, PTL

\* The compilation _SLICERS keeps is right whenever the sources are again what
\* the snapshot recorded with it says.
THEOREM CompilationNeverStale ==
    TrackedSpec => []CacheNeverStale
<1>1. IInv => CacheNeverStale
  <2> SUFFICES ASSUME IInv, honest, cache # NothingCached, IsSnapshot(cache.snapshot),
                      NEW f \in File, Present(f)
               PROVE  cache.tree[f] = disk[f].content
    BY DEF CacheNeverStale
  <2>1. disk[f].mtime <= cache.snapshot.latest
    BY DEF IsSnapshot
  <2>2. disk[f].mtime = disk[f].content
    BY DEF IInv, Stamped
  <2> QED  BY <2>1, <2>2 DEF IInv, Compiled, RightFor
<1> QED  BY <1>1, CacheInvariant, PTL

\* What _get_slicer returns describes the sources as they were at some moment of
\* the request, cached or not.
THEOREM SourcesAreCurrent ==
    TrackedSpec => []CurrentSources
<1>1. IInv => CurrentSources
  BY DEF IInv
<1> QED  BY <1>1, CacheInvariant, PTL

\* What _read_file_bytes returns was in the file at some moment of the request,
\* from whichever request its cache has it.
THEOREM BytesAreCurrent ==
    TrackedSpec => []CurrentBytes
<1>1. IInv => CurrentBytes
  BY DEF IInv
<1> QED  BY <1>1, CacheInvariant, PTL
=============================================================================
