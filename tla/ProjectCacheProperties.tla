------------------------ MODULE ProjectCacheProperties ------------------------
(***************************************************************************)
(* What the project cache promises: a slice describes the sources as they  *)
(* are, whatever the editor does between the steps of a request.  Since a  *)
(* request takes time, "as they are" is as they were at some moment since  *)
(* the request arrived; history variables keep those moments, and what the *)
(* editor did that the times of the files do not tell.                     *)
(***************************************************************************)
EXTENDS ProjectCache

VARIABLES
    during,  \* the contents each file has had since the request arrived
    honest,  \* every file that was written has the time it was written
    late     \* files created after a snapshot, before its compilation was kept

trackedVars == <<vars, during, honest, late>>

TrackedInit ==
    Init /\ during = [f \in File |-> {}] /\ honest = TRUE /\ late = {}

TrackedNext ==
    /\ Next
    /\ during' = [f \in File |->
                    (IF phase # "scanning" /\ phase' = "scanning" THEN {} ELSE during[f])
                      \cup {Contents'[f]}]
    /\ honest' = (honest /\ \A f \in File :
                              disk'[f] \in {disk[f], Absent} \/ disk'[f].mtime = clock')
    /\ late' = IF phase \in {"scanning", "compiling"}
               THEN late \cup {f \in File : ~Present(f) /\ Contents'[f] # None}
               ELSE late

TrackedSpec == TrackedInit /\ [][TrackedNext]_trackedVars

\* A type for every variable.
CacheTypeOK ==
    /\ disk \in [File -> Source \cup {Absent}]
    /\ clock \in Time
    /\ phase \in Phase /\ pending \in SUBSET File
    /\ scan \in Snapshot
    /\ tree \in [File -> Content \cup {None}]
    /\ cache \in [tree: Tree, snapshot: Snapshot] \cup {NothingCached}
    /\ bytes \in [ByteKey -> Content \cup {None}]
    /\ statted \in ByteKey \cup {<<>>}
    /\ quoted \in Tree
    /\ during \in [File -> SUBSET (Content \cup {None})]
    /\ honest \in BOOLEAN /\ late \subseteq File

-----------------------------------------------------------------------------
Answering == phase \in {"quoting", "reading", "answered"}

\* A compilation is kept under a snapshot that is not newer than it: when the
\* sources are again what the recorded snapshot says, every source there is has
\* been compiled as it is now.  This is why the snapshot is taken before the
\* compiler runs: an edit while it runs, in whichever order the two meet the
\* files, must make the recorded snapshot wrong and not the compilation.
CacheNeverStale ==
    honest /\ cache # NothingCached /\ IsSnapshot(cache.snapshot) =>
        \A f \in File : Present(f) => cache.tree[f] = disk[f].content

\* An answer describes every source as it was at some moment since the request
\* arrived, whether it comes from the cache or not; one that was gone all the time
\* is not part of it.  The exception is a source that is gone by now, once the
\* compiler has ever seen one that the snapshot had not: the number of files no
\* longer tells them apart.
CurrentSources ==
    honest /\ Answering =>
        \A f \in File : tree[f] \in during[f] \/ (late # {} /\ None \in during[f])

\* The bytes quoted are never older than the request, although they are kept
\* from one request to the next: a key that is seen again has not changed.
CurrentBytes ==
    honest => \A f \in File : quoted[f] # None => quoted[f] \in during[f]

-----------------------------------------------------------------------------
(* What the documents say and the code does not do.                        *)

\* "Every node in a slice carries an exact, byte-accurate SourceRef": the bytes
\* quoted for a file are those whose offsets the compilation holds.
ByteAccurate ==
    phase = "answered" => \A f \in File : quoted[f] = tree[f]
=============================================================================
