------------------------------ MODULE MapCache ------------------------------
(***************************************************************************)
(* The cache of the DERP map (src/src/protocol.rs).  Each process keeps    *)
(* the last map in memory; all processes of a user share one on disk, in   *)
(* two files, the map and the tag the server gave it.  The map's file is   *)
(* replaced by renaming a complete one, and the tag's file is written      *)
(* after it.                                                               *)
(*                                                                         *)
(* A map is the number of its version at the server and so is a tag; 0 is  *)
(* no map, and the empty tag.  A process makes one fetch at a time.        *)
(***************************************************************************)
EXTENDS Naturals

CONSTANTS
    Process,      \* processes of one user
    MaxVersion    \* bound on the versions of the map the server publishes

ASSUME MapAssumption == MaxVersion \in Nat \ {0}

VARIABLES
    server,       \* the version the server serves
    disk,         \* the two files, and whether the map's is less than an hour old
    memory,       \* memory[p]: MAP_CACHE of the process
    fetch,        \* fetch[p]: its fetch_derp_map_cached()
    overlapped    \* history: a fetch was at the files while another stored an answer

mapVars == <<server, disk, memory, fetch, overlapped>>

Version == 0 .. MaxVersion
Entry == [map : Version, tag : Version, fresh : BOOLEAN]
NoEntry == [map |-> 0, tag |-> 0, fresh |-> FALSE]

\* Where a fetch is.  It has the entry it found in "ask", the one to keep from
\* "rename" to "insert" and the one it returns in "done".
Place == {"idle", "readTag", "ask", "rename", "tag", "fill", "insert", "done"}
NoFetch == [at |-> "idle", entry |-> NoEntry, answer |-> 0]

To(p, place, entry) == [fetch EXCEPT ![p].at = place, ![p].entry = entry]

\* One fetch has an answer that is not on disk yet while another has one too, or is
\* between reading the two files.
Stores(p) == fetch[p].at \in {"rename", "tag", "fill"}
Overlap == \E p, q \in Process : p # q /\ Stores(p) /\ (Stores(q) \/ fetch[q].at = "readTag")

-----------------------------------------------------------------------------
\* An entry less than an hour old is the result; the server is asked about others.
Found(p, entry) == To(p, IF entry.fresh THEN "done" ELSE "ask", entry)

Recall(p) ==
    /\ fetch[p].at = "idle" /\ memory[p].map # 0
    /\ fetch' = Found(p, memory[p])
    /\ UNCHANGED <<server, disk, memory>>

\* read_disk_cache(), in two steps: the file that is open is not the one that replaces it.
ReadMap(p) ==
    /\ fetch[p].at = "idle" /\ memory[p].map = 0
    /\ fetch' = IF disk.map = 0 THEN To(p, "ask", NoEntry)
                ELSE To(p, "readTag", [disk EXCEPT !.tag = 0])
    /\ UNCHANGED <<server, disk, memory>>

ReadTag(p) ==
    /\ fetch[p].at = "readTag"
    /\ fetch' = Found(p, [fetch[p].entry EXCEPT !.tag = disk.tag])
    /\ UNCHANGED <<server, disk, memory>>

\* The server answers with its map, with a tag or without.
Answered(p) ==
    /\ fetch[p].at = "ask"
    /\ \E tag \in {0, server} :
          fetch' = [fetch EXCEPT ![p] =
                       [at |-> "rename", answer |-> server,
                        entry |-> [map |-> server, tag |-> tag, fresh |-> TRUE]]]
    /\ UNCHANGED <<server, disk, memory>>

\* It may answer "304 Not Modified" to the tag of its map.
NotModified(p) ==
    /\ fetch[p].at = "ask" /\ fetch[p].entry.tag = server
    /\ fetch' = [fetch EXCEPT ![p].at = "rename", ![p].answer = server,
                              ![p].entry.fresh = TRUE]
    /\ UNCHANGED <<server, disk, memory>>

\* No answer, or none that can be used: the entry found is the result, if there is one.
Unanswered(p) ==
    /\ fetch[p].at = "ask"
    /\ fetch' = IF fetch[p].entry.map = 0 THEN [fetch EXCEPT ![p] = NoFetch]
                ELSE To(p, "done", fetch[p].entry)
    /\ UNCHANGED <<server, disk, memory>>

\* store() writes the disk first.  A failure of write_disk_cache() skips the rest of it;
\* the mutant goes on with the tag.
SkippedMap == "tag"

Skipped == "insert"

WriteFails(p) ==
    /\ fetch[p].at = "rename"
    /\ fetch' = [fetch EXCEPT ![p].at = Skipped]
    /\ UNCHANGED <<server, disk, memory>>

ReplaceMap(p) ==
    /\ fetch[p].at = "rename"
    /\ disk' = [disk EXCEPT !.map = fetch[p].entry.map, !.fresh = TRUE]
    /\ fetch' = [fetch EXCEPT ![p].at = "tag"]
    /\ UNCHANGED <<server, memory>>

\* Without a tag its file is removed; with one it is truncated and filled.
ClearTag(p) ==
    /\ fetch[p].at = "tag"
    /\ disk' = [disk EXCEPT !.tag = 0]
    /\ fetch' = [fetch EXCEPT ![p].at = IF fetch[p].entry.tag = 0 THEN "insert"
                                             ELSE "fill"]
    /\ UNCHANGED <<server, memory>>

FillTag(p) ==
    /\ fetch[p].at = "fill"
    /\ disk' = [disk EXCEPT !.tag = fetch[p].entry.tag]
    /\ fetch' = [fetch EXCEPT ![p].at = "insert"]
    /\ UNCHANGED <<server, memory>>

TagFails(p) ==
    /\ fetch[p].at \in {"tag", "fill"}
    /\ fetch' = [fetch EXCEPT ![p].at = "insert"]
    /\ UNCHANGED <<server, disk, memory>>

Insert(p) ==
    /\ fetch[p].at = "insert"
    /\ memory' = [memory EXCEPT ![p] = fetch[p].entry]
    /\ fetch' = [fetch EXCEPT ![p].at = "done"]
    /\ UNCHANGED <<server, disk>>

Return(p) ==
    /\ fetch[p].at = "done"
    /\ fetch' = [fetch EXCEPT ![p] = NoFetch]
    /\ UNCHANGED <<server, disk, memory>>

\* The process ends, anywhere in its fetch.  Another one starts with an empty memory.
Exit(p) ==
    /\ fetch' = [fetch EXCEPT ![p] = NoFetch]
    /\ memory' = [memory EXCEPT ![p] = NoEntry]
    /\ UNCHANGED <<server, disk>>

Publish ==
    /\ server < MaxVersion
    /\ server' = server + 1
    /\ UNCHANGED <<disk, memory, fetch>>

\* An hour passes for what is on disk or in a memory.
Age ==
    /\ \/ disk' = [disk EXCEPT !.fresh = FALSE] /\ UNCHANGED memory
       \/ \E p \in Process : memory' = [memory EXCEPT ![p].fresh = FALSE] /\ UNCHANGED disk
    /\ UNCHANGED <<server, fetch>>

-----------------------------------------------------------------------------
MapInit ==
    /\ server = 1
    /\ disk = NoEntry
    /\ memory = [p \in Process |-> NoEntry]
    /\ fetch = [p \in Process |-> NoFetch]
    /\ overlapped = FALSE

Step(p) ==
    \/ Recall(p) \/ ReadMap(p) \/ ReadTag(p)
    \/ Answered(p) \/ NotModified(p) \/ Unanswered(p)
    \/ WriteFails(p) \/ ReplaceMap(p) \/ ClearTag(p) \/ FillTag(p) \/ TagFails(p)
    \/ Insert(p) \/ Return(p) \/ Exit(p)

MapNext ==
    /\ Publish \/ Age \/ \E p \in Process : Step(p)
    /\ overlapped' = (overlapped \/ Overlap')

MapSpec == MapInit /\ [][MapNext]_mapVars

-----------------------------------------------------------------------------
(***************************************************************************)
(* Properties                                                              *)
(***************************************************************************)

\* A tag is never newer than the map it stands beside, on disk, in memory or in a fetch.
SoundEntry(entry) == entry.tag <= entry.map /\ entry.map <= server

\* A fetch that the server answered keeps and returns the server's map of that moment,
\* "Not Modified" included: no crash between the two files, failed write or exit makes a
\* later revalidation confirm an old map.  Two fetches that store answers, or read and
\* store, at once may: then an old map may stand beside, or be read with, a new tag
\* (read_disk_cache, write_disk_cache).
AnsweredIsCurrent ==
    ~ overlapped =>
        /\ SoundEntry(disk)
        /\ \A p \in Process :
              /\ SoundEntry(memory[p])
              /\ fetch[p].at # "readTag" => SoundEntry(fetch[p].entry)
              /\ fetch[p].answer # 0 => fetch[p].entry.map = fetch[p].answer
=============================================================================
