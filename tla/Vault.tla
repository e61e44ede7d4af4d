-------------------------------- MODULE Vault --------------------------------
(***************************************************************************)
(* The vault in shadow mode (meter/vault.py and its tables): the daemon's  *)
(* worker compares what a finished node produced with the patch kept under *)
(* the node's semantic key, or keeps it; `dag-vault purge`, a process of   *)
(* its own, evicts the least recently used entries.                        *)
(*                                                                         *)
(* A patch stands for its text and for its sha, which names its file.      *)
(* Table and files are separate: the table operations are atomic, a file   *)
(* is opened and then written, and neither process locks the other out.    *)
(***************************************************************************)
EXTENDS Naturals, FiniteSets

CONSTANTS
  Keys,      \* what compute_key may return
  Patches,
  MaxFiles,  \* meter.modules.vault.max_gb, in patches of one size
  MaxJobs,   \* bound: completed receipts
  MaxPurges  \* bound: runs of dag-vault purge

ASSUME VaultAssumption ==
  {MaxFiles, MaxJobs, MaxPurges} \subseteq Nat

VARIABLES
  entries,  \* table entries: at most one [key, patch, used] per key
  files,    \* artifacts/: [patch, whole] records
  worker,   \* the worker thread inside process_completed_receipt
  purger,   \* the purge process
  clock,    \* the second int(time.time()) is in: two uses may share one
  jobs, purges,
  \* history
  checks,   \* table vault_shadow_log, with what the entry and the node held
  last,     \* when the patch of a key was last put to use
  purged,   \* the keys the last complete purge removed; NotPurged once work went on
  upset     \* the kinds of disorder that have happened

vars == <<entries, files, worker, purger, clock, jobs, purges, checks, last, purged, upset>>

Upsets == {"overlap", "kill", "failure"}

Idle == [at |-> "idle"]
NotPurged == [done |-> FALSE]

Under(k)  == {e \in entries : e.key = k}
Files(p)  == {f \in files : f.patch = p}
Whole(p)  == [patch |-> p, whole |-> TRUE] \in files
UsesPatch(p) == \E e \in entries : e.patch = p

Init ==
  /\ entries = {} /\ files = {}
  /\ worker = Idle /\ purger = Idle
  /\ clock = 0 /\ jobs = 0 /\ purges = 0
  /\ checks = {} /\ last = [k \in Keys |-> 0] /\ purged = NotPurged /\ upset = {}

-----------------------------------------------------------------------------
\* History: worker and purge are two processes and nothing keeps them apart.
Overlap(other) == IF other = Idle THEN {} ELSE {"overlap"}

(* _process, on the worker thread *)

\* A done receipt with a worktree and a commit: its key and its patch.
Job(k, p) ==
  /\ worker = Idle
  /\ jobs < MaxJobs
  /\ jobs' = jobs + 1
  /\ worker' = [at |-> "look", key |-> k, made |-> p]
  /\ purged' = NotPurged
  /\ upset' = upset \cup Overlap(purger)
  /\ UNCHANGED <<entries, files, purger, clock, purges, checks, last>>

\* get_vault_entry
Look ==
  /\ worker.at = "look"
  /\ IF Under(worker.key) = {}
     THEN worker' = [worker EXCEPT !.at = "store"]
     ELSE \E e \in Under(worker.key) :
            worker' = [at |-> "load", key |-> e.key, made |-> worker.made, stored |-> e.patch]
  /\ UNCHANGED <<entries, files, purger, clock, jobs, purges, checks, last, purged, upset>>

\* store_patch: a file of that name is taken to be that patch; an OSError is
\* swallowed and the entry inserted all the same.
StoreNothing ==
  /\ worker.at = "store"
  /\ \/ Files(worker.made) # {} /\ UNCHANGED upset
     \/ upset' = upset \cup {"failure"}
  /\ worker' = [worker EXCEPT !.at = "insert"]
  /\ UNCHANGED <<entries, files, purger, clock, jobs, purges, checks, last, purged>>

OpenPatch ==
  /\ worker.at = "store"
  /\ Files(worker.made) = {}
  /\ files' = files \cup {[patch |-> worker.made, whole |-> FALSE]}
  /\ worker' = [worker EXCEPT !.at = "write"]
  /\ UNCHANGED <<entries, purger, clock, jobs, purges, checks, last, purged, upset>>

\* Into nowhere, when the name was unlinked meanwhile; a full disk leaves it torn.
WritePatch ==
  /\ worker.at = "write"
  /\ \/ /\ files' = (files \ Files(worker.made)) \cup
                    {[f EXCEPT !.whole = TRUE] : f \in Files(worker.made)}
        /\ UNCHANGED upset
     \/ /\ upset' = upset \cup {"failure"}
        /\ UNCHANGED files
  /\ worker' = [worker EXCEPT !.at = "insert"]
  /\ UNCHANGED <<entries, purger, clock, jobs, purges, checks, last, purged>>

\* insert_vault_entry: ON CONFLICT DO NOTHING.
Insert ==
  /\ worker.at = "insert"
  /\ entries' = IF Under(worker.key) # {} THEN entries
                ELSE entries \cup {[key |-> worker.key, patch |-> worker.made, used |-> clock]}
  /\ last' = [last EXCEPT ![worker.key] = clock]
  /\ clock' \in {clock, clock + 1}
  /\ worker' = Idle
  /\ UNCHANGED <<files, purger, jobs, purges, checks, purged, upset>>

LoadTrusting ==                                                 \* mutant
  /\ worker.at = "load"
  /\ worker' = [worker EXCEPT !.at = IF ~Whole(worker.stored) \/ worker.stored = worker.made
                                     THEN "agree" ELSE "disagree"]
  /\ UNCHANGED <<entries, files, purger, clock, jobs, purges, checks, last, purged, upset>>

\* load_patch, and the comparison of the two texts.
Load ==
  /\ worker.at = "load"
  /\ worker' = [worker EXCEPT !.at = IF Whole(worker.stored) /\ worker.stored = worker.made
                                     THEN "agree" ELSE "disagree"]
  /\ UNCHANGED <<entries, files, purger, clock, jobs, purges, checks, last, purged, upset>>

\* record_shadow_check
RecordCheck ==
  /\ worker.at \in {"agree", "disagree"}
  /\ checks' = checks \cup {[agreed |-> worker.at = "agree", stored |-> worker.stored,
                             made |-> worker.made]}
  /\ worker' = [worker EXCEPT !.at = "bump"]
  /\ UNCHANGED <<entries, files, purger, clock, jobs, purges, last, purged, upset>>

BumpNothing ==                                                  \* mutant
  /\ worker.at = "bump"
  /\ last' = [last EXCEPT ![worker.key] = clock]
  /\ clock' \in {clock, clock + 1}
  /\ worker' = Idle
  /\ UNCHANGED <<entries, files, purger, jobs, purges, checks, purged, upset>>

\* bump_vault_hit
Bump ==
  /\ worker.at = "bump"
  /\ entries' = {IF e.key = worker.key THEN [e EXCEPT !.used = clock] ELSE e : e \in entries}
  /\ last' = [last EXCEPT ![worker.key] = clock]
  /\ clock' \in {clock, clock + 1}
  /\ worker' = Idle
  /\ UNCHANGED <<files, purger, jobs, purges, checks, purged, upset>>

-----------------------------------------------------------------------------
(* purge, in the process of dag-vault.py *)

\* _current_size
Measure ==
  /\ purger = Idle
  /\ purges < MaxPurges
  /\ purges' = purges + 1
  /\ purger' = [at |-> "list", size |-> Cardinality(files)]
  /\ purged' = NotPurged
  /\ upset' = upset \cup Overlap(worker)
  /\ UNCHANGED <<entries, files, worker, clock, jobs, checks, last>>

\* list_vault_entries_by_age
List ==
  /\ purger.at = "list"
  /\ purger' = [at |-> "evict", size |-> purger.size, left |-> entries, gone |-> {}]
  /\ UNCHANGED <<entries, files, worker, clock, jobs, purges, checks, last, purged, upset>>

\* delete_vault_entry for the oldest entry of the list, by its key.
Evict ==
  /\ purger.at = "evict" /\ purger.size > MaxFiles
  /\ \E e \in purger.left :
       /\ \A o \in purger.left : e.used <= o.used
       /\ entries' = entries \ Under(e.key)
       /\ purger' = [at |-> "check", size |-> purger.size, left |-> purger.left \ {e},
                     gone |-> purger.gone \cup {e.key}, patch |-> e.patch]
  /\ UNCHANGED <<files, worker, clock, jobs, purges, checks, last, purged, upset>>

CheckNothing ==                                                 \* mutant
  /\ purger.at = "check"
  /\ purger' = [purger EXCEPT !.at = "unlink"]
  /\ UNCHANGED <<entries, files, worker, clock, jobs, purges, checks, last, purged, upset>>

\* vault_patch_still_referenced
Check ==
  /\ purger.at = "check"
  /\ purger' = IF UsesPatch(purger.patch)
               THEN [at |-> "evict", size |-> purger.size, left |-> purger.left,
                     gone |-> purger.gone]
               ELSE [purger EXCEPT !.at = "unlink"]
  /\ UNCHANGED <<entries, files, worker, clock, jobs, purges, checks, last, purged, upset>>

\* The file goes, and its size; one that is not there changes nothing.
Unlink ==
  /\ purger.at = "unlink"
  /\ files' = files \ Files(purger.patch)
  /\ purger' = [at |-> "evict", left |-> purger.left, gone |-> purger.gone,
                size |-> purger.size - Cardinality(Files(purger.patch))]
  /\ UNCHANGED <<entries, worker, clock, jobs, purges, checks, last, purged, upset>>

\* Under the cap, or nothing left to evict.
PurgeDone ==
  /\ purger.at = "evict"
  /\ purger.size <= MaxFiles \/ purger.left = {}
  /\ purged' = [done |-> TRUE, gone |-> purger.gone]
  /\ purger' = Idle
  /\ UNCHANGED <<entries, files, worker, clock, jobs, purges, checks, last, upset>>

DaemonKilled ==
  /\ worker # Idle
  /\ worker' = Idle
  /\ upset' = upset \cup {"kill"}
  /\ UNCHANGED <<entries, files, purger, clock, jobs, purges, checks, last, purged>>

PurgeKilled ==
  /\ purger # Idle
  /\ purger' = Idle
  /\ upset' = upset \cup {"kill"}
  /\ UNCHANGED <<entries, files, worker, clock, jobs, purges, checks, last, purged>>

Worker == Look \/ StoreNothing \/ OpenPatch \/ WritePatch \/ Insert \/ Load \/ RecordCheck \/ Bump
Purger == List \/ Evict \/ Check \/ Unlink \/ PurgeDone

Next ==
  \/ \E k \in Keys, p \in Patches : Job(k, p)
  \/ Worker
  \/ Measure
  \/ Purger
  \/ DaemonKilled \/ PurgeKilled

Spec == Init /\ [][Next]_vars

-----------------------------------------------------------------------------
Entry == [key : Keys, patch : Patches, used : Nat]

TypeOK ==
  /\ entries \subseteq Entry
  /\ \A e, o \in entries : e.key = o.key => e = o
  /\ files \subseteq [patch : Patches, whole : BOOLEAN]
  /\ worker \in {Idle} \cup [at : {"look", "store", "write", "insert"}, key : Keys, made : Patches]
                \cup [at : {"load", "agree", "disagree", "bump"}, key : Keys, made : Patches,
                      stored : Patches]
  /\ purger \in {Idle} \cup [at : {"list"}, size : Nat]
                \cup [at : {"evict"}, size : Nat, left : SUBSET Entry, gone : SUBSET Keys]
                \cup [at : {"check", "unlink"}, size : Nat, left : SUBSET Entry,
                      gone : SUBSET Keys, patch : Patches]
  /\ clock \in Nat /\ jobs \in 0..MaxJobs /\ purges \in 0..MaxPurges
  /\ last \in [Keys -> Nat]
  /\ checks \subseteq [agreed : BOOLEAN, stored : Patches, made : Patches]
  /\ purged \in {NotPurged} \cup [done : {TRUE}, gone : SUBSET Keys]
  /\ upset \subseteq Upsets

Never(kinds) == upset \cap kinds = {}

\* At rest, and undisturbed, the table and the files say the same: every entry has
\* its whole patch, and no file is kept that no entry names.
Consistent ==
  worker = Idle /\ purger = Idle /\ Never(Upsets) =>
    files = {[patch |-> e.patch, whole |-> TRUE] : e \in entries}

\* "There is a size cap with LRU eviction": a purge that ran to its end leaves the
\* files under it, also when patches could not be written; and what it removed was
\* not used after anything it kept, whatever was killed or failed.
PurgeIsLRU ==
  purged.done /\ Never({"overlap"}) =>
    /\ Never({"kill"}) => Cardinality(files) <= MaxFiles
    /\ \A k \in purged.gone, e \in entries : last[k] <= last[e.key]

\* The evidence for replaying is real.  An agreement is never reported for a node
\* that produced another patch than the one kept, whatever went wrong; and while
\* nothing did, a disagreement "means: ... the applied patch would NOT have matched
\* what the worker actually produced".
EvidenceIsReal ==
  /\ \A c \in checks : c.agreed => c.stored = c.made
  /\ Never(Upsets) => \A c \in checks : ~c.agreed => c.stored # c.made
=============================================================================
