----------------------------- MODULE ProjectCache -----------------------------
(***************************************************************************)
(* mcp_server.py and model.py: one project behind the MCP server, while an *)
(* editor changes its sources.                                             *)
(*                                                                         *)
(* A request takes a snapshot of the sources (a count and the latest       *)
(* modification time), serves the cached compilation when the snapshot is  *)
(* the one recorded with it and compiles the project anew otherwise, then  *)
(* reads the bytes of each source its answer quotes, through a cache keyed *)
(* by modification time and size.  It touches the files one at a time, and *)
(* the editor may act between any two of these steps.  The server runs one *)
(* request at a time.                                                      *)
(*                                                                         *)
(* The content of a file is the number of the edit that wrote it.          *)
(***************************************************************************)
EXTENDS FiniteSets, Integers

CONSTANTS
    File,       \* names of .sol files
    Size,       \* file sizes
    MaxEdits    \* bound on what the editor does

ASSUME CacheAssumption ==
    /\ IsFiniteSet(File) /\ Size \subseteq Nat /\ Size # {}
    /\ MaxEdits \in Nat

VARIABLES
    disk,      \* the sources, by name
    clock,     \* edits so far: the time of the last one
    phase,     \* what the request that is running does
    pending,   \* files this phase has not come to
    scan,      \* the snapshot so far: files counted, latest modification time
    tree,      \* what the compiler has read; the compilation the request uses
    cache,     \* _SLICERS: the compilation kept and the snapshot recorded with it
    bytes,     \* _read_file_bytes_cached: key -> content
    statted,   \* the key of the file whose bytes are read next
    quoted     \* the bytes quoted in the answer, by file

vars == <<disk, clock, phase, pending, scan, tree, cache, bytes, statted, quoted>>
serverVars == <<phase, pending, scan, tree, cache, bytes, statted, quoted>>

Time == 0..MaxEdits
Content == 0..MaxEdits

\* No such file, nothing compiled, nothing read: an OSError, or an empty text.
None == -1

Source == [content: Content, size: Size, mtime: Time]
Absent == [content |-> None, size |-> 0, mtime |-> 0]

Phase == {"idle", "scanning", "compiling", "quoting", "reading", "answered"}
Snapshot == [count: Nat, latest: Time]
Tree == [File -> Content \cup {None}]

NoTree == [f \in File |-> None]
NothingCached == [tree |-> NoTree, snapshot |-> [count |-> -1, latest |-> 0]]

\* A key of the byte cache: (filename, mtime_ns, size).
ByteKey == File \X Time \X Size

Present(f) == disk[f].content # None
Contents == [f \in File |-> disk[f].content]

Init ==
    /\ disk \in [File -> [content: {0}, size: Size, mtime: {0}] \cup {Absent}]
    /\ clock = 0
    /\ phase = "idle" /\ pending = {}
    /\ scan = [count |-> 0, latest |-> 0]
    /\ tree = NoTree /\ cache = NothingCached
    /\ bytes = [k \in ByteKey |-> None]
    /\ statted = <<>> /\ quoted = NoTree

-----------------------------------------------------------------------------
(* The editor.                                                             *)

Edit(edited) ==
    /\ clock < MaxEdits
    /\ clock' = clock + 1
    /\ disk' = edited
    /\ UNCHANGED serverVars

\* A file is written, and gets the time of writing.
Written(f) ==
    \E s \in Size :
        Edit([disk EXCEPT ![f] = [content |-> clock + 1, size |-> s, mtime |-> clock + 1]])

Save(f) == Present(f) /\ Written(f)
Create(f) == ~Present(f) /\ Written(f)

Remove(f) == Present(f) /\ Edit([disk EXCEPT ![f] = Absent])

\* A file is replaced by an older one, or again within one tick of a clock.
Restore(f) ==
    \E s \in Size : \E t \in 0..clock :
        Edit([disk EXCEPT ![f] = [content |-> clock + 1, size |-> s, mtime |-> t]])

\* A move keeps the modification time.
Move(f, g) ==
    /\ Present(f) /\ f # g
    /\ Edit([disk EXCEPT ![f] = Absent, ![g] = disk[f]])

Editor ==
    \E f \in File : \/ Save(f) \/ Create(f) \/ Remove(f) \/ Restore(f)
                    \/ \E g \in File : Move(f, g)

-----------------------------------------------------------------------------
(* _get_slicer                                                             *)

\* A request arrives.  What the last one computed is gone.
Request ==
    /\ phase \in {"idle", "answered"}
    /\ phase' = "scanning" /\ pending' = File
    /\ scan' = [count |-> 0, latest |-> 0]
    /\ tree' = NoTree /\ quoted' = NoTree
    /\ UNCHANGED <<disk, clock, cache, bytes, statted>>

Later(s, t) == IF s < t THEN t ELSE s

\* _project_snapshot, one file: what cannot be statted is not counted.
Scan(f) ==
    /\ phase = "scanning" /\ f \in pending
    /\ pending' = pending \ {f}
    /\ scan' = IF Present(f)
               THEN [count |-> scan.count + 1, latest |-> Later(scan.latest, disk[f].mtime)]
               ELSE scan
    /\ UNCHANGED <<disk, clock, phase, tree, cache, bytes, statted, quoted>>

\* (slip) Only the modification times are compared.
FreshByTime == cache.snapshot.latest = scan.latest /\ cache # NothingCached

\* The snapshot recorded with the cached compilation is this one.
Fresh == cache.snapshot = scan

CacheHit ==
    /\ phase = "scanning" /\ pending = {} /\ Fresh
    /\ tree' = cache.tree
    /\ phase' = "quoting" /\ pending' = File
    /\ UNCHANGED <<disk, clock, scan, cache, bytes, statted, quoted>>

CacheMiss ==
    /\ phase = "scanning" /\ pending = {} /\ ~Fresh
    /\ phase' = "compiling" /\ pending' = File
    /\ UNCHANGED <<disk, clock, scan, tree, cache, bytes, statted, quoted>>

\* The compiler reads a file.
Compile(f) ==
    /\ phase = "compiling" /\ f \in pending
    /\ pending' = pending \ {f}
    /\ tree' = [tree EXCEPT ![f] = disk[f].content]
    /\ UNCHANGED <<disk, clock, phase, scan, cache, bytes, statted, quoted>>

\* It rejects the sources: the request ends with an error and stores nothing.
CompileFails ==
    /\ phase = "compiling"
    /\ phase' = "idle" /\ pending' = {}
    /\ UNCHANGED <<disk, clock, scan, tree, cache, bytes, statted, quoted>>

\* s is the snapshot of what is on disk.
IsSnapshot(s) ==
    LET times == {disk[f].mtime : f \in {g \in File : Present(g)}}
    IN  /\ s.count = Cardinality({f \in File : Present(f)})
        /\ \A t \in times : t <= s.latest
        /\ s.latest \in times \cup {0}

\* (slip) The snapshot of what the compiler leaves behind.
RecordedAfter == CHOOSE s \in [count: 0..Cardinality(File), latest: Time] : IsSnapshot(s)

\* What is recorded with the compilation: the snapshot taken before it.
Recorded == scan

StoreCompilation ==
    /\ phase = "compiling" /\ pending = {}
    /\ cache' = [tree |-> tree, snapshot |-> Recorded]
    /\ phase' = "quoting" /\ pending' = File
    /\ UNCHANGED <<disk, clock, scan, tree, bytes, statted, quoted>>

-----------------------------------------------------------------------------
(* SourceRef.from_node, for the files the compilation holds.               *)

Key(f) == <<f, disk[f].mtime, disk[f].size>>

\* _read_file_bytes: os.stat.  A file that is gone is quoted as an empty text.
StatBytes(f) ==
    /\ phase = "quoting" /\ f \in pending /\ tree[f] # None
    /\ pending' = pending \ {f}
    /\ IF Present(f) THEN phase' = "reading" /\ statted' = Key(f)
                     ELSE UNCHANGED <<phase, statted>>
    /\ UNCHANGED <<disk, clock, scan, tree, cache, bytes, quoted>>

\* (slip) The cache is keyed by name only.
CachedByName(k) ==
    LET known == {bytes[j] : j \in {i \in ByteKey : i[1] = k[1]}} \ {None}
    IN  IF known = {} THEN None ELSE CHOOSE c \in known : TRUE

CachedBytes(k) == bytes[k]

\* The cache has the key, or the file is opened and read under it, whatever it
\* holds by now; a file that is gone by now is quoted as an empty text.
ReadBytes ==
    LET known == CachedBytes(statted)
        read  == IF known # None THEN known ELSE disk[statted[1]].content
    IN  /\ phase = "reading"
        /\ bytes' = [bytes EXCEPT ![statted] = read]
        /\ quoted' = [quoted EXCEPT ![statted[1]] = read]
        /\ phase' = "quoting"
        /\ UNCHANGED <<disk, clock, pending, scan, tree, cache, statted>>

\* The answer is returned.
Answer ==
    /\ phase = "quoting" /\ \A f \in pending : tree[f] = None
    /\ phase' = "answered" /\ pending' = {} /\ statted' = <<>>
    /\ UNCHANGED <<disk, clock, scan, tree, cache, bytes, quoted>>

Server ==
    \/ \E f \in File : Scan(f) \/ Compile(f) \/ StatBytes(f)
    \/ CacheHit \/ CacheMiss \/ CompileFails \/ StoreCompilation
    \/ ReadBytes \/ Answer

Next == Editor \/ Request \/ Server

Spec == Init /\ [][Next]_vars
=============================================================================
