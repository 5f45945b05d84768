----------------------------- MODULE FlatCache -----------------------------
(***************************************************************************)
(* FlatFileKvBlobCache: one file per key in a flat directory. A file is an *)
(* inode that names of the directory lead to; std::fs::write and           *)
(* std::fs::read are an open and then one system call per chunk, so a      *)
(* writer and a reader keep the inode they opened whatever happens to its  *)
(* name. A process crash ends every thread and keeps the directory.        *)
(***************************************************************************)
EXTENDS Naturals, Sequences, FiniteSets

CONSTANTS
    FlatThreads,        \* threads of the process
    FileKeys,       \* cache keys, as sequences of characters
    PutsOf,         \* the keys each thread puts
    Chunks,         \* system calls a payload takes to write or read
    MaxPuts         \* bound: puts in a behaviour

ASSUME FlatCacheAssumption ==
    /\ \A k \in FileKeys : k \in Seq(STRING)
    /\ PutsOf \in [FlatThreads -> SUBSET FileKeys]
    /\ Chunks \in Nat \ {0} /\ MaxPuts \in Nat

VARIABLES
    inode,      \* content of each inode, a sequence of chunks
    dir,        \* the directory: name to inode
    rooted,     \* the directory exists
    file,       \* what each thread does
    got,        \* what its last get returned
    puts

flatVars == <<inode, dir, rooted, file, got, puts>>

\* Characters kept in file names; every other becomes "_".
Kept == {"a", "b", "c", "-", "_", ".", "="}

PathForKey(key) ==
    [name |-> [i \in 1..Len(key) |-> IF key[i] \in Kept THEN key[i] ELSE "_"], ext |-> "kv"]

Tmp(path) == [path EXCEPT !.ext = "kv.tmp"]

Names == {PathForKey(k) : k \in FileKeys} \cup {Tmp(PathForKey(k)) : k \in FileKeys}
NoInode == 0
Hole == "hole"

\* One payload per put; a payload is Chunks equal chunks, named by key and put.
Payload(k, n) == [i \in 1..Chunks |-> <<k, n>>]
PayloadsOf(k) == {Payload(k, n) : n \in 1..MaxPuts}

Resting == [at |-> "idle"]

FlatInit ==
    /\ inode = <<>>
    /\ dir = [n \in Names |-> NoInode]
    /\ rooted = TRUE
    /\ file = [t \in FlatThreads |-> Resting]
    /\ got = [t \in FlatThreads |-> <<>>]
    /\ puts = 0

Do(t, step) == file' = [file EXCEPT ![t] = step]

Link(name, i) == dir' = [dir EXCEPT ![name] = i]

\* put, up to the open of the temporary file: created or truncated.
OpenTmp(t) ==
    /\ file[t].at = "idle" /\ puts < MaxPuts
    /\ \E k \in PutsOf[t] :
        LET tmp == Tmp(PathForKey(k))
            i == IF dir[tmp] = NoInode THEN Len(inode) + 1 ELSE dir[tmp]
        IN /\ puts' = puts + 1
           /\ \/ /\ rooted
                 /\ inode' = IF i > Len(inode) THEN Append(inode, <<>>)
                             ELSE [inode EXCEPT ![i] = <<>>]
                 /\ Link(tmp, i)
                 /\ Do(t, [at |-> "write", key |-> k, data |-> Payload(k, puts + 1),
                           i |-> i, pos |-> 1])
              \/ /\ ~rooted      \* write tmp failed
                 /\ UNCHANGED <<inode, dir, file>>
    /\ UNCHANGED <<rooted, got>>

\* A chunk at the thread's own offset; a truncation meanwhile leaves a hole before it.
PutChunk(content, pos, chunk) ==
    [p \in 1..(IF Len(content) > pos THEN Len(content) ELSE pos) |->
        IF p = pos THEN chunk
        ELSE IF p <= Len(content) THEN content[p] ELSE Hole]

\* fs::write goes on, or fails: the temporary file stays as it is.
WriteChunk(t) ==
    /\ file[t].at = "write"
    /\ LET w == file[t]
       IN \/ /\ inode' = [inode EXCEPT ![w.i] = PutChunk(@, w.pos, w.data[w.pos])]
             /\ Do(t, IF w.pos < Chunks THEN [w EXCEPT !.pos = @ + 1]
                      ELSE [at |-> "rename", key |-> w.key])
          \/ Do(t, Resting) /\ UNCHANGED inode
    /\ UNCHANGED <<dir, rooted, got, puts>>

\* rename, or, when the temporary name is gone, the removal of nothing.
Rename(t) ==
    /\ file[t].at = "rename"
    /\ LET path == PathForKey(file[t].key)
           i == dir[Tmp(path)]
       IN dir' = IF i = NoInode THEN dir
                 ELSE [dir EXCEPT ![path] = i, ![Tmp(path)] = NoInode]
    /\ Do(t, Resting)
    /\ UNCHANGED <<inode, rooted, got, puts>>

\* get: open, then read until the end of the file.
OpenRead(t) ==
    /\ file[t].at = "idle"
    /\ \E k \in FileKeys :
        /\ dir[PathForKey(k)] # NoInode
        /\ Do(t, [at |-> "read", key |-> k, i |-> dir[PathForKey(k)], seen |-> <<>>])
    /\ got' = [got EXCEPT ![t] = <<>>]
    /\ UNCHANGED <<inode, dir, rooted, puts>>

\* Faulty variant: the path is opened again for every chunk.
ReadChunkByName(t) ==
    /\ file[t].at = "read"
    /\ LET r == file[t]
           i == dir[PathForKey(r.key)]
           next == Len(r.seen) + 1
       IN IF i # NoInode /\ next <= Len(inode[i])
          THEN /\ Do(t, [r EXCEPT !.seen = Append(@, inode[i][next])])
               /\ UNCHANGED got
          ELSE /\ got' = [got EXCEPT ![t] = <<r.key, r.seen>>]
               /\ Do(t, Resting)
    /\ UNCHANGED <<inode, dir, rooted, puts>>

ReadChunk(t) ==
    /\ file[t].at = "read"
    /\ LET r == file[t]
           next == Len(r.seen) + 1
       IN IF next <= Len(inode[r.i])
          THEN /\ Do(t, [r EXCEPT !.seen = Append(@, inode[r.i][next])])
               /\ UNCHANGED got
          ELSE /\ got' = [got EXCEPT ![t] = <<r.key, r.seen>>]
               /\ Do(t, Resting)
    /\ UNCHANGED <<inode, dir, rooted, puts>>

\* remove
RemoveFile(t) ==
    /\ file[t].at = "idle"
    /\ \E k \in FileKeys :
        /\ dir[PathForKey(k)] # NoInode
        /\ Link(PathForKey(k), NoInode)
    /\ UNCHANGED <<inode, rooted, file, got, puts>>

\* clear: the directory is removed with what is in it, then made again.
ClearDir(t) ==
    /\ \/ /\ file[t].at = "idle" /\ rooted
          /\ dir' = [n \in Names |-> NoInode]
          /\ rooted' = FALSE
          /\ Do(t, [at |-> "mkdir"])
       \/ /\ file[t].at = "mkdir"
          /\ rooted' = TRUE
          /\ Do(t, Resting)
          /\ UNCHANGED dir
    /\ UNCHANGED <<inode, got, puts>>

\* The process dies; open of the next one makes the directory if it is missing.
CrashAndOpen ==
    /\ file' = [t \in FlatThreads |-> Resting]
    /\ got' = [t \in FlatThreads |-> <<>>]
    /\ rooted' = TRUE
    /\ UNCHANGED <<inode, dir, puts>>

FlatNext ==
    \/ \E t \in FlatThreads :
        \/ OpenTmp(t) \/ WriteChunk(t) \/ Rename(t)
        \/ OpenRead(t) \/ ReadChunk(t)
        \/ RemoveFile(t) \/ ClearDir(t)
    \/ CrashAndOpen

FlatSpec == FlatInit /\ [][FlatNext]_flatVars

(***************************************************************************)
(* Properties                                                              *)
(***************************************************************************)

\* A get returns a payload that was put under its own key, whole and of one put,
\* although the file may be replaced, removed or cleared away while it is read.
ReadsOwnPayload ==
    \A t \in FlatThreads : got[t] # <<>> => got[t][2] \in PayloadsOf(got[t][1])

=============================================================================
