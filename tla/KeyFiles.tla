------------------------------ MODULE KeyFiles ------------------------------
(***************************************************************************)
(* Two key files that the processes of one user share: the SSH host key,   *)
(* which the first server that needs it makes (host_key in                 *)
(* src/src/services/mod.rs), and a saved key of genkey, written with and   *)
(* without --force and deleted (secure_write in src/src/cli/keys.rs).      *)
(*                                                                         *)
(* Keys are numbered as they are made; 0 is no file.  Writing and syncing  *)
(* the bytes of a file is one step after creating it.                      *)
(***************************************************************************)
EXTENDS Naturals

CONSTANTS
    Server,      \* processes that need the host key
    Keygen,      \* processes that run genkey
    MaxKeys      \* bound on the keys ever made

ASSUME KeyAssumption == MaxKeys \in Nat

VARIABLES
    made,        \* the number of keys made so far
    hostKey,     \* the file ssh_host_ed25519_key: a complete key, or none
    starting,    \* starting[s]: where a server is in host_key(), its new key, and the result
    presented,   \* history: the host keys that servers presented to clients
    saved,       \* the saved key file: its key and whether it is complete
    keygen       \* keygen[g]: where a genkey is in secure_write() and its new key

hostVars == <<hostKey, starting, presented>>
savedVars == <<saved, keygen>>
keyVars == <<made, hostVars, savedVars>>

KeyId == 0 .. MaxKeys
NotStarted == [at |-> "idle", key |-> 0]
NoFile == [key |-> 0, whole |-> FALSE]

NewKey == made < MaxKeys /\ made' = made + 1

Goes(s, place) == [starting EXCEPT ![s].at = place]

-----------------------------------------------------------------------------
\* A server that finds the file uses it.  The lock of the process makes its other
\* sessions wait, so a process is one server here.
UseExisting(s) ==
    /\ starting[s].at = "idle" /\ hostKey # 0
    /\ starting' = Goes(s, "ready")
    /\ presented' = presented \cup {hostKey}
    /\ UNCHANGED <<made, hostKey, savedVars>>

\* Otherwise it makes a key and writes it to a temporary file of its own,
MakeHostKey(s) ==
    /\ starting[s].at = "idle" /\ hostKey = 0
    /\ NewKey
    /\ starting' = [starting EXCEPT ![s] = [at |-> "link", key |-> made']]
    /\ UNCHANGED <<hostKey, presented, savedVars>>

\* links that file to the name, unless somebody else was first; the mutant renames it,
Replacing(s) == starting[s].key

Published(s) == IF hostKey = 0 THEN starting[s].key ELSE hostKey

LinkHostKey(s) ==
    /\ starting[s].at = "link"
    /\ hostKey' = Published(s)
    /\ starting' = Goes(s, "load")
    /\ UNCHANGED <<made, presented, savedVars>>

\* and removes the temporary file.  An error of the write or the link ends host_key() there.
HostKeyFails(s) ==
    /\ starting[s].at = "link"
    /\ starting' = [starting EXCEPT ![s] = NotStarted]
    /\ UNCHANGED <<made, hostKey, presented, savedVars>>

\* The key it presents is the one in the file.
LoadHostKey(s) ==
    /\ starting[s].at = "load"
    /\ presented' = presented \cup {hostKey}
    /\ starting' = Goes(s, "ready")
    /\ UNCHANGED <<made, hostKey, savedVars>>

\* A server ends, or is killed on the way.
ServerEnds(s) ==
    /\ starting[s].at # "idle"
    /\ starting' = [starting EXCEPT ![s] = NotStarted]
    /\ UNCHANGED <<made, hostKey, presented, savedVars>>

-----------------------------------------------------------------------------
\* Without --force, secure_write() creates the file under its own name and then fills it.
CreateSaved(g) ==
    /\ keygen[g].at = "idle" /\ saved.key = 0
    /\ NewKey
    /\ saved' = [key |-> made', whole |-> FALSE]
    /\ keygen' = [keygen EXCEPT ![g] = [at |-> "fill", key |-> made']]
    /\ UNCHANGED hostVars

\* What it fills is lost if the file was deleted or replaced meanwhile.
FillSaved(g) ==
    /\ keygen[g].at = "fill"
    /\ saved' = IF saved.key = keygen[g].key THEN [key |-> saved.key, whole |-> TRUE] ELSE saved
    /\ keygen' = [keygen EXCEPT ![g] = NotStarted]
    /\ UNCHANGED <<made, hostVars>>

\* With --force it fills a temporary file and renames that.  The mutant writes in place.
InPlace(key) == [key |-> key, whole |-> FALSE]

WholeKey(key) == [key |-> key, whole |-> TRUE]

ForceSaved(g) ==
    /\ keygen[g].at = "idle"
    /\ NewKey
    /\ keygen' = [keygen EXCEPT ![g] = [at |-> "rename", key |-> made']]
    /\ UNCHANGED <<hostVars, saved>>

RenameSaved(g) ==
    /\ keygen[g].at = "rename"
    /\ saved' = WholeKey(keygen[g].key)
    /\ keygen' = [keygen EXCEPT ![g] = NotStarted]
    /\ UNCHANGED <<made, hostVars>>

\* genkey --delete.
DeleteSaved(g) ==
    /\ keygen[g].at = "idle" /\ saved.key # 0
    /\ saved' = NoFile
    /\ UNCHANGED <<made, hostVars, keygen>>

\* A write fails or the process is killed: what it had created under the name stays.
KeygenEnds(g) ==
    /\ keygen[g].at # "idle"
    /\ keygen' = [keygen EXCEPT ![g] = NotStarted]
    /\ UNCHANGED <<made, hostVars, saved>>

-----------------------------------------------------------------------------
KeyInit ==
    /\ made = 0
    /\ hostKey = 0
    /\ starting = [s \in Server |-> NotStarted]
    /\ presented = {}
    /\ saved = NoFile
    /\ keygen = [g \in Keygen |-> NotStarted]

KeyNext ==
    \/ \E s \in Server :
          \/ UseExisting(s) \/ MakeHostKey(s) \/ LinkHostKey(s)
          \/ HostKeyFails(s) \/ LoadHostKey(s) \/ ServerEnds(s)
    \/ \E g \in Keygen :
          \/ CreateSaved(g) \/ FillSaved(g) \/ ForceSaved(g)
          \/ RenameSaved(g) \/ DeleteSaved(g) \/ KeygenEnds(g)

KeySpec == KeyInit /\ [][KeyNext]_keyVars

-----------------------------------------------------------------------------
(***************************************************************************)
(* Properties                                                              *)
(***************************************************************************)

\* "Publish only complete contents, atomically, without replacing a key that another
\* tailcat process generated while we were starting" (host_key): all servers, started
\* together, failed and restarted, present one key, the one in the file.
OneHostKey == presented \subseteq {hostKey} \ {0}

\* A saved key that is complete stays as it is, until it is deleted or, with --force,
\* replaced by a complete one (secure_write).  That is so although a genkey without
\* --force, slow or killed, leaves an incomplete file under the name.
SavedKeyKept ==
    [][saved.whole =>
          \/ saved' = saved \/ saved' = NoFile
          \/ saved'.whole /\ \E g \in Keygen : keygen[g] = [at |-> "rename", key |-> saved'.key]
      ]_keyVars
=============================================================================
