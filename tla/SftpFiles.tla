----------------------------- MODULE SftpFiles ------------------------------
(***************************************************************************)
(* The SFTP sessions of one shared directory (src/src/services/files.rs)   *)
(* under its access mode.  Each session has a table of open handles and,   *)
(* where it may only write, a map from the paths it asked for to the files *)
(* it was given; all sessions and the owner of the directory change the    *)
(* same files.                                                             *)
(*                                                                         *)
(* A request that is refused changes nothing and is not an action.  The    *)
(* tree has one level of directories and no symbolic links; contents and   *)
(* attributes are abstracted to who saw or changed them.                   *)
(***************************************************************************)
EXTENDS Naturals, FiniteSets

CONSTANTS
    Session,      \* SFTP sessions
    Flags,        \* the combinations of open flags that clients use
    MaxObjects,   \* bound on the files and directories ever made
    MaxHandles    \* bound on the handles a session opens

Flag == {"READ", "WRITE", "APPEND", "CREATE", "TRUNCATE", "EXCLUDE"}

ASSUME SftpAssumption ==
    /\ Flags \subseteq SUBSET Flag
    /\ MaxObjects \in Nat /\ MaxHandles \in Nat

VARIABLES
    mode,        \* FileShare.mode: "ro", "rw", "wo" or "wo+"
    tree,        \* tree[p]: the object at path p, 0 if there is none
    objects,     \* the objects made so far, as a function from their numbers
    started,     \* the sessions that exchanged versions (Files.initialized)
    wrote,       \* wrote[s]: Files.wrote, as pairs of the path asked for and the path given
    handles,     \* handles[s]: Files.handles, as a function from handle names
    foreign,     \* history: what sessions did to files that are not theirs
    taken        \* history: the owner took something out of the directory

shared == <<tree, objects>>
sftpHistory == <<foreign, taken>>
sftpVars == <<mode, shared, started, wrote, handles, sftpHistory>>

Mode == {"ro", "rw", "wo", "wo+"}
WriteOnly == mode \in {"wo", "wo+"}

\* A path under the root: "a", "d" or "d/a", or the same with a suffix that
\* unique_path() made up.  Suffixes are numbered with the objects.
Path == {p \in [in : {"top", "d"}, name : {"a", "d"}, serial : 0 .. MaxObjects] :
            p.in = "d" => p.name = "a"}
At(in, name) == [in |-> in, name |-> name, serial |-> 0]
Unique(p, n) == [p EXCEPT !.serial = n]

Exists(p) == tree[p] # 0
IsDir(p) == Exists(p) /\ objects[tree[p]].dir
IsFile(p) == Exists(p) /\ ~ objects[tree[p]].dir
HasParent(p) == p.in = "top" \/ IsDir(At("top", "d"))
Empty(p) == p = At("top", "d") => \A q \in Path : q.in = "d" => ~ Exists(q)

\* The paths a client asks for: a made-up suffix counts as a guess only if it exists.
Asked(p) == p.serial = 0 \/ Exists(p)

\* The number of the next object.
Fresh == Cardinality(DOMAIN objects) + 1

\* What s did, to the object o of somebody else.  In rw everything is allowed.
Deed(s, verb, o) == IF mode = "rw" \/ objects[o].by = s THEN {} ELSE {verb}

-----------------------------------------------------------------------------
\* Path p gets a new object of s.
Make(s, p, dir) ==
    /\ Fresh <= MaxObjects /\ ~ Exists(p) /\ HasParent(p)
    /\ objects' = [o \in 1 .. Fresh |->
                      IF o = Fresh THEN [dir |-> dir, by |-> s] ELSE objects[o]]
    /\ tree' = [tree EXCEPT ![p] = Fresh]

\* add_handle(): names are never used twice.
AddHandle(s, handle) ==
    LET n == Cardinality(DOMAIN handles[s]) + 1 IN
    /\ n <= MaxHandles
    /\ handles' = [handles EXCEPT ![s] =
                      [h \in 1 .. n |-> IF h = n THEN handle ELSE handles[s][h]]]

Opened(o, flags) ==
    [kind |-> "file", object |-> o, readable |-> "READ" \in flags, writable |-> "WRITE" \in flags]

Closed == [kind |-> "closed", object |-> 0, readable |-> FALSE, writable |-> FALSE]

\* The file handle h of s.
File(s, h) == h \in DOMAIN handles[s] /\ handles[s][h].kind = "file"

\* wrote.insert().
Recorded(s, asked, given) ==
    [wrote EXCEPT ![s] = {w \in @ : w[1] # asked} \cup {<<asked, given>>}]

\* Packet::Init, once.
Start(s) ==
    /\ s \notin started
    /\ started' = started \cup {s}
    /\ UNCHANGED <<mode, shared, wrote, handles, sftpHistory>>

\* open_file() with the flags of the client: the combinations the system accepts.
Valid(flags) ==
    LET writes == flags \cap {"WRITE", "APPEND"} # {} IN
    /\ "READ" \in flags \/ writes
    /\ flags \cap {"CREATE", "TRUNCATE", "EXCLUDE"} # {} => writes
    /\ {"APPEND", "TRUNCATE"} \subseteq flags => "EXCLUDE" \in flags

OpenPlain(s, p, flags) ==
    /\ ~ WriteOnly /\ Valid(flags)
    /\ mode = "ro" => flags \subseteq {"READ"}
    /\ \/ /\ IsFile(p) /\ "EXCLUDE" \notin flags
          /\ foreign' = foreign \cup (IF "TRUNCATE" \in flags THEN Deed(s, "altered", tree[p])
                                                              ELSE {})
          /\ AddHandle(s, Opened(tree[p], flags))
          /\ UNCHANGED shared
       \/ /\ flags \cap {"CREATE", "EXCLUDE"} # {}
          /\ Make(s, p, FALSE)
          /\ AddHandle(s, Opened(Fresh, flags))
          /\ UNCHANGED foreign
    /\ UNCHANGED <<mode, started, wrote, taken>>

\* Where a session that may only write creates the file it asks for: under a name of
\* its own, or under the name asked for unless that is in use.
Given(p) == IF mode = "wo" \/ Exists(p) THEN Unique(p, Fresh) ELSE p

OpenUpload(s, p, flags) ==
    /\ WriteOnly /\ "READ" \notin flags /\ {"WRITE", "CREATE"} \subseteq flags
    /\ mode = "wo" => p.in = "top"
    /\ Make(s, Given(p), FALSE)
    /\ AddHandle(s, Opened(Fresh, flags))
    /\ wrote' = Recorded(s, p, Given(p))
    /\ UNCHANGED <<mode, started, sftpHistory>>

\* Packet::Close, for either kind of handle.
Close(s, h) ==
    /\ h \in DOMAIN handles[s] /\ handles[s][h].kind # "closed"
    /\ handles' = [handles EXCEPT ![s][h] = Closed]
    /\ UNCHANGED <<mode, shared, started, wrote, sftpHistory>>

\* Packet::Read, Write, Fstat and FSetStat go by the handle alone.
Read(s, h) ==
    /\ ~ WriteOnly /\ File(s, h) /\ handles[s][h].readable
    /\ foreign' = foreign \cup Deed(s, "seen", handles[s][h].object)
    /\ UNCHANGED <<mode, shared, started, wrote, handles, taken>>

Write(s, h) ==
    /\ File(s, h) /\ handles[s][h].writable
    /\ foreign' = foreign \cup Deed(s, "altered", handles[s][h].object)
    /\ UNCHANGED <<mode, shared, started, wrote, handles, taken>>

Fstat(s, h) ==
    /\ File(s, h)
    /\ foreign' = foreign \cup Deed(s, "seen", handles[s][h].object)
    /\ UNCHANGED <<mode, shared, started, wrote, handles, taken>>

FSetStat(s, h) ==
    /\ mode # "ro" /\ File(s, h) /\ (WriteOnly => handles[s][h].writable)
    /\ foreign' = foreign \cup Deed(s, "altered", handles[s][h].object)
    /\ UNCHANGED <<mode, shared, started, wrote, handles, taken>>

\* stat_path(): what a session sees at a path.  Where it may only write, it sees the
\* files it was given and, in wo+, directories.  The mutant shows what is there.
VisibleAll(s, p) == {p}

Visible(s, p) ==
    IF ~ WriteOnly THEN {p}
    ELSE IF \E w \in wrote[s] : w[1] = p THEN {w[2] : w \in {v \in wrote[s] : v[1] = p}}
    ELSE {q \in {p} : mode = "wo+" /\ IsDir(q)}

Stat(s, p) ==
    \E q \in Visible(s, p) :
        /\ Exists(q)
        /\ foreign' = foreign \cup
              (IF WriteOnly /\ IsDir(q) THEN {} ELSE Deed(s, "seen", tree[q]))
        /\ UNCHANGED <<mode, shared, started, wrote, handles, taken>>

\* setstat_path(): what it may change at a path.
Changeable(s, p) ==
    IF mode = "ro" THEN {}
    ELSE IF mode = "rw" THEN {p}
    ELSE {w[2] : w \in {v \in wrote[s] : v[1] = p}}

SetStat(s, p) ==
    \E q \in Changeable(s, p) :
        /\ Exists(q)
        /\ foreign' = foreign \cup Deed(s, "altered", tree[q])
        /\ UNCHANGED <<mode, shared, started, wrote, handles, taken>>

\* opendir(): a snapshot of the names and attributes, for ReadDir to hand out.
OpenDir(s, p) ==
    LET listed == {tree[q] : q \in {r \in Path : r.in = p.name /\ Exists(r)}} IN
    /\ ~ WriteOnly /\ IsDir(p)
    /\ AddHandle(s, [Closed EXCEPT !.kind = "dir"])
    /\ foreign' = foreign \cup UNION {Deed(s, "seen", o) : o \in listed}
    /\ UNCHANGED <<mode, shared, started, wrote, taken>>

\* Packet::MkDir.  The only directory of the model's paths is "d".
MkDir(s) ==
    /\ mode \in {"rw", "wo+"}
    /\ Make(s, At("top", "d"), TRUE)
    /\ wrote' = IF WriteOnly THEN Recorded(s, At("top", "d"), At("top", "d")) ELSE wrote
    /\ UNCHANGED <<mode, started, handles, sftpHistory>>

\* require_rw(): Remove, RmDir, Rename and hard links.  Renaming replaces a file that has
\* the new name, unless it is the same.
RequireRw == mode = "rw"

Remove(s, p) ==
    /\ RequireRw /\ Exists(p) /\ Empty(p)
    /\ tree' = [tree EXCEPT ![p] = 0]
    /\ UNCHANGED <<mode, objects, started, wrote, handles, sftpHistory>>

Rename(s, p, q) ==
    /\ RequireRw /\ IsFile(p) /\ ~ IsDir(q) /\ HasParent(q) /\ tree[p] # tree[q]
    /\ tree' = [tree EXCEPT ![p] = 0, ![q] = tree[p]]
    /\ UNCHANGED <<mode, objects, started, wrote, handles, sftpHistory>>

HardLink(s, p, q) ==
    /\ RequireRw /\ IsFile(p) /\ ~ Exists(q) /\ HasParent(q)
    /\ tree' = [tree EXCEPT ![q] = tree[p]]
    /\ UNCHANGED <<mode, objects, started, wrote, handles, sftpHistory>>

\* The owner of the directory takes a file out of it.
TakeAway(p) ==
    /\ Exists(p) /\ Empty(p)
    /\ tree' = [tree EXCEPT ![p] = 0]
    /\ taken' = TRUE
    /\ UNCHANGED <<mode, objects, started, wrote, handles, foreign>>

-----------------------------------------------------------------------------
\* The share opens with a file and, perhaps, a directory of the owner's in it.
SftpInit ==
    /\ mode \in Mode
    /\ \E dir \in BOOLEAN :
          /\ objects = [o \in 1 .. (IF dir THEN 2 ELSE 1) |-> [dir |-> o = 2, by |-> "owner"]]
          /\ tree = [p \in Path |-> IF p = At("top", "a") THEN 1
                                    ELSE IF p = At("top", "d") /\ dir THEN 2 ELSE 0]
    /\ started = {}
    /\ wrote = [s \in Session |-> {}]
    /\ handles = [s \in Session |-> <<>>]
    /\ foreign = {}
    /\ taken = FALSE

\* dispatch().
Dispatch(s) ==
    \/ \E p \in Path, flags \in Flags :
          Asked(p) /\ (OpenPlain(s, p, flags) \/ OpenUpload(s, p, flags))
    \/ \E h \in 1 .. MaxHandles :
          Close(s, h) \/ Read(s, h) \/ Write(s, h) \/ Fstat(s, h) \/ FSetStat(s, h)
    \/ \E p \in Path :
          Asked(p) /\ (Stat(s, p) \/ SetStat(s, p) \/ OpenDir(s, p) \/ Remove(s, p))
    \/ \E p, q \in Path :
          Asked(p) /\ Asked(q) /\ (Rename(s, p, q) \/ HardLink(s, p, q))
    \/ MkDir(s)

SftpNext ==
    \/ \E s \in Session : Start(s) \/ (s \in started /\ Dispatch(s))
    \/ \E p \in Path : TakeAway(p)

SftpSpec == SftpInit /\ [][SftpNext]_sftpVars

-----------------------------------------------------------------------------
(***************************************************************************)
(* Properties                                                              *)
(***************************************************************************)

\* Nobody changes a file of a read-only share, and a session that may only write neither
\* sees nor changes what is not its own.  In wo+ this holds while the owner takes nothing
\* away, and not longer: the map of given files goes by name, and another session may be
\* given a name that is free again (open, stat_path, setstat_path; SessionCreatedOnly).
OnlyOwnFiles ==
    /\ mode = "ro" => "altered" \notin foreign
    /\ mode = "wo" => foreign = {}
    /\ mode = "wo+" /\ ~ taken => foreign = {}

\* What docs/repository-map.md says of write-only sessions, whatever the owner does: they
\* change metadata of "session-created files only" (setstat_path).
SessionCreatedOnly == WriteOnly => "altered" \notin foreign
=============================================================================
