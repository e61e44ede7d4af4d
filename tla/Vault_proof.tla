----------------------------- MODULE Vault_proof -----------------------------
(***************************************************************************)
(* The vault, for any keys, patches and caps: what it reports is real, the *)
(* table and the files agree while nothing goes wrong, and a purge keeps   *)
(* the cap and what was used last.                                         *)
(*                                                                         *)
(* The bounded reads of the clamp, for any agents, files and edits: merged *)
(* intervals cover exactly the lines read, and a read is denied only for   *)
(* lines that were delivered.                                              *)
(*                                                                         *)
(* And its compressed output, for any lines and thresholds: nothing is     *)
(* lost silently.  Intervals are merged and outputs compressed by folds,   *)
(* about which Folding says what induction says.                           *)
(***************************************************************************)
EXTENDS Vault, Clamp, Compress, Folding, FiniteSetTheorems, SequenceTheorems, TLAPS

-----------------------------------------------------------------------------
(* The inductive invariant. *)

Storing   == {"store", "write", "insert"}
Comparing == {"load", "agree", "disagree", "bump"}
Evicting  == {"evict", "check", "unlink"}

\* An agreement was read off two equal patches, whatever went wrong.
Agreed ==
  /\ IsFiniteSet(files)
  /\ worker.at = "agree" => worker.stored = worker.made
  /\ \A c \in checks : c.agreed => c.stored = c.made

\* A patch has one file, and a purge that removes one counted it.
Single ==
  /\ \A f, g \in files : f.patch = g.patch => f = g
  /\ purger.at \in {"check", "unlink"} => purger.size > 0

\* Without an overlap worker and purge take turns.
Turns ==
  "overlap" \notin upset =>
    /\ worker = Idle \/ purger = Idle
    /\ purged.done => worker = Idle /\ purger = Idle

\* The worker's key stays without an entry until it inserts one, or with the one it found.
Looked ==
  "overlap" \notin upset =>
    /\ worker.at \in Storing => Under(worker.key) = {}
    /\ worker.at \in Comparing => \E e \in entries : e.key = worker.key /\ e.patch = worker.stored
    /\ worker.at = "write" => Files(worker.made) # {}

\* An entry is as old as the last use of its key. A purge knows the size and what is
\* left, has removed the oldest, and unlinks what no entry names.
Ages ==
  "overlap" \notin upset =>
    /\ \A e \in entries : e.used = last[e.key]
    /\ purger # Idle => purger.size = Cardinality(files)
    /\ purger.at \in Evicting =>
         /\ purger.left = entries
         /\ \A k \in purger.gone, e \in entries : last[k] <= last[e.key]
    /\ purger.at = "unlink" => ~UsesPatch(purger.patch)

\* Unless a process was killed, a file is named by an entry, or is about to be or was.
Named ==
  "overlap" \notin upset /\ "kill" \notin upset =>
    \A f \in files :
      \/ UsesPatch(f.patch)
      \/ worker.at \in {"write", "insert"} /\ worker.made = f.patch
      \/ purger.at \in {"check", "unlink"} /\ purger.patch = f.patch

\* While nothing went wrong every entry has its whole patch, and so has a disagreement.
Sound ==
  upset = {} =>
    /\ \A e \in entries : Whole(e.patch)
    /\ \A f \in files : f.whole \/ (worker.at = "write" /\ worker.made = f.patch)
    /\ worker.at = "insert" => Whole(worker.made)
    /\ worker.at = "disagree" => worker.stored # worker.made
    /\ \A c \in checks : ~c.agreed => c.stored # c.made

\* What the last complete purge left.
Purged ==
  "overlap" \notin upset /\ purged.done =>
    /\ "kill" \notin upset => Cardinality(files) <= MaxFiles
    /\ \A k \in purged.gone, e \in entries : last[k] <= last[e.key]

IInv == TypeOK /\ Single /\ Agreed /\ Turns /\ Looked /\ Ages /\ Named /\ Sound /\ Purged

-----------------------------------------------------------------------------
(* The records of the two processes. *)

\* Where the worker is tells what it knows.
LEMMA WorkerIs ==
  ASSUME TypeOK
  PROVE  /\ worker.at \in {"idle", "look"} \cup Storing \cup Comparing
         /\ worker = Idle <=> worker.at = "idle"
         /\ worker.at \in {"look"} \cup Storing =>
              /\ worker.key \in Keys /\ worker.made \in Patches
              /\ worker = [at |-> worker.at, key |-> worker.key, made |-> worker.made]
         /\ worker.at \in Comparing =>
              /\ worker.key \in Keys /\ worker.made \in Patches /\ worker.stored \in Patches
              /\ worker = [at |-> worker.at, key |-> worker.key, made |-> worker.made, stored |-> worker.stored]
<1>1. CASE worker = Idle
  <2>1. worker.at = "idle"  BY <1>1 DEF Idle
  <2> QED  BY <1>1, <2>1 DEF Storing, Comparing
<1>2. CASE worker \in [at : {"look", "store", "write", "insert"}, key : Keys, made : Patches]
  <2>1. /\ worker.at \in {"look", "store", "write", "insert"} /\ worker.key \in Keys /\ worker.made \in Patches
        /\ worker = [at |-> worker.at, key |-> worker.key, made |-> worker.made]
    BY <1>2
  <2>2. worker # Idle  BY <2>1 DEF Idle
  <2> QED  BY <2>1, <2>2 DEF Storing, Comparing
<1>3. CASE worker \in [at : {"load", "agree", "disagree", "bump"}, key : Keys, made : Patches, stored : Patches]
  <2>1. /\ worker.at \in {"load", "agree", "disagree", "bump"} /\ worker.key \in Keys
        /\ worker.made \in Patches /\ worker.stored \in Patches
        /\ worker = [at |-> worker.at, key |-> worker.key, made |-> worker.made, stored |-> worker.stored]
    BY <1>3
  <2>2. worker # Idle  BY <2>1 DEF Idle
  <2> QED  BY <2>1, <2>2 DEF Storing, Comparing
<1> QED  BY <1>1, <1>2, <1>3 DEF TypeOK

\* Where the purge is tells what it knows.
LEMMA PurgerIs ==
  ASSUME TypeOK
  PROVE  /\ purger.at \in {"idle", "list"} \cup Evicting
         /\ purger = Idle <=> purger.at = "idle"
         /\ purger.at = "list" => purger.size \in Nat /\ purger = [at |-> "list", size |-> purger.size]
         /\ purger.at \in Evicting =>
              purger.size \in Nat /\ purger.left \in SUBSET Entry /\ purger.gone \in SUBSET Keys
         /\ purger.at = "evict" =>
              purger = [at |-> "evict", size |-> purger.size, left |-> purger.left, gone |-> purger.gone]
         /\ purger.at \in {"check", "unlink"} =>
              /\ purger.patch \in Patches
              /\ purger = [at |-> purger.at, size |-> purger.size, left |-> purger.left,
                           gone |-> purger.gone, patch |-> purger.patch]
<1>1. CASE purger = Idle
  <2>1. purger.at = "idle"  BY <1>1 DEF Idle
  <2> QED  BY <1>1, <2>1 DEF Evicting
<1>2. CASE purger \in [at : {"list"}, size : Nat]
  <2>1. purger.at = "list" /\ purger.size \in Nat /\ purger = [at |-> "list", size |-> purger.size]
    BY <1>2
  <2>2. purger # Idle  BY <2>1 DEF Idle
  <2> QED  BY <2>1, <2>2 DEF Evicting
<1>3. CASE purger \in [at : {"evict"}, size : Nat, left : SUBSET Entry, gone : SUBSET Keys]
  <2>1. /\ purger.at = "evict" /\ purger.size \in Nat
        /\ purger.left \in SUBSET Entry /\ purger.gone \in SUBSET Keys
        /\ purger = [at |-> "evict", size |-> purger.size, left |-> purger.left, gone |-> purger.gone]
    BY <1>3
  <2>2. purger # Idle  BY <2>1 DEF Idle
  <2> QED  BY <2>1, <2>2 DEF Evicting
<1>4. CASE purger \in [at : {"check", "unlink"}, size : Nat, left : SUBSET Entry,
                       gone : SUBSET Keys, patch : Patches]
  <2>1. /\ purger.at \in {"check", "unlink"} /\ purger.size \in Nat
        /\ purger.left \in SUBSET Entry /\ purger.gone \in SUBSET Keys /\ purger.patch \in Patches
        /\ purger = [at |-> purger.at, size |-> purger.size, left |-> purger.left,
                     gone |-> purger.gone, patch |-> purger.patch]
    BY <1>4
  <2>2. purger # Idle  BY <2>1 DEF Idle
  <2> QED  BY <2>1, <2>2 DEF Evicting
<1> QED  BY <1>1, <1>2, <1>3, <1>4 DEF TypeOK

-----------------------------------------------------------------------------
(* Types. *)

Looking == [at : {"look", "store", "write", "insert"}, key : Keys, made : Patches]
Found   == [at : {"load", "agree", "disagree", "bump"}, key : Keys, made : Patches, stored : Patches]

\* Where a step leaves the worker.
LEMMA WorkerStep ==
  ASSUME TypeOK, [Next]_vars
  PROVE  worker' \in {Idle} \cup Looking \cup Found
<1>w. worker \in {Idle} \cup Looking \cup Found  BY DEF TypeOK, Looking, Found
<1>1. ASSUME NEW k \in Keys, NEW p \in Patches, Job(k, p)  PROVE worker' \in Looking
  BY <1>1 DEF Job, Looking
<1>2. CASE Look
  <2>0. worker = [at |-> "look", key |-> worker.key, made |-> worker.made] /\ worker.key \in Keys /\ worker.made \in Patches
    BY <1>2, WorkerIs DEF Look
  <2>1. CASE worker' = [worker EXCEPT !.at = "store"]
    <3>1. worker' = [at |-> "store", key |-> worker.key, made |-> worker.made]  BY <2>0, <2>1
    <3> QED  BY <2>0, <3>1 DEF Looking
  <2>2. CASE \E e \in Under(worker.key) :
               worker' = [at |-> "load", key |-> e.key, made |-> worker.made, stored |-> e.patch]
    <3> PICK e \in Under(worker.key) :
               worker' = [at |-> "load", key |-> e.key, made |-> worker.made, stored |-> e.patch]
      BY <2>2
    <3>1. e.key \in Keys /\ e.patch \in Patches  BY DEF Under, TypeOK, Entry
    <3> QED  BY <2>0, <3>1 DEF Found
  <2> QED  BY <1>2, <2>1, <2>2 DEF Look
<1>3. CASE StoreNothing \/ OpenPatch \/ WritePatch
  <2>1. worker.at \in Storing  BY <1>3 DEF StoreNothing, OpenPatch, WritePatch, Storing
  <2>2. worker = [at |-> worker.at, key |-> worker.key, made |-> worker.made] /\ worker.key \in Keys /\ worker.made \in Patches
    BY <2>1, WorkerIs
  <2>3. \E q \in {"write", "insert"} : worker' = [worker EXCEPT !.at = q]
    BY <1>3 DEF StoreNothing, OpenPatch, WritePatch
  <2>4. \E q \in {"write", "insert"} : worker' = [at |-> q, key |-> worker.key, made |-> worker.made]
    BY <2>2, <2>3
  <2> QED  BY <2>2, <2>4 DEF Looking
<1>4. CASE Load \/ RecordCheck
  <2>1. worker.at \in Comparing  BY <1>4 DEF Load, RecordCheck, Comparing
  <2>2. /\ worker = [at |-> worker.at, key |-> worker.key, made |-> worker.made, stored |-> worker.stored]
        /\ worker.key \in Keys /\ worker.made \in Patches /\ worker.stored \in Patches
    BY <2>1, WorkerIs
  <2>3. \E q \in {"agree", "disagree", "bump"} : worker' = [worker EXCEPT !.at = q]
    BY <1>4 DEF Load, RecordCheck
  <2>4. \E q \in {"agree", "disagree", "bump"} :
          worker' = [at |-> q, key |-> worker.key, made |-> worker.made, stored |-> worker.stored]
    BY <2>2, <2>3
  <2> QED  BY <2>2, <2>4 DEF Found
<1>5. CASE Insert \/ Bump \/ DaemonKilled
  BY <1>5 DEF Insert, Bump, DaemonKilled
<1>6. CASE Measure \/ Purger \/ PurgeKilled \/ UNCHANGED vars
  BY <1>6, <1>w DEF Measure, Purger, List, Evict, Check, Unlink, PurgeDone, PurgeKilled, vars
<1> QED  BY <1>1, <1>2, <1>3, <1>4, <1>5, <1>6 DEF Next, Worker

PurgerType == {Idle} \cup [at : {"list"}, size : Nat]
                \cup [at : {"evict"}, size : Nat, left : SUBSET Entry, gone : SUBSET Keys]
                \cup [at : {"check", "unlink"}, size : Nat, left : SUBSET Entry,
                      gone : SUBSET Keys, patch : Patches]

\* What is left when the files of a patch are unlinked, and how many that is.
LEMMA UnlinkSize ==
  ASSUME TypeOK, IsFiniteSet(files), NEW p \in Patches
  PROVE  /\ IsFiniteSet(files \ Files(p))
         /\ Cardinality(files \ Files(p)) = Cardinality(files) - Cardinality(Files(p))
         /\ Cardinality(files) \in Nat /\ Cardinality(Files(p)) \in Nat
         /\ Cardinality(files) - Cardinality(Files(p)) \in Nat
<1>1. Files(p) \subseteq files /\ files \cap Files(p) = Files(p)  BY DEF Files
<1>2. IsFiniteSet(Files(p)) /\ IsFiniteSet(files \ Files(p))  BY <1>1, FS_Subset
<1>3. Cardinality(files \ Files(p)) = Cardinality(files) - Cardinality(files \cap Files(p))
  BY FS_Difference
<1>4. Cardinality(files) \in Nat /\ Cardinality(Files(p)) \in Nat /\ Cardinality(files \ Files(p)) \in Nat
  BY <1>2, FS_CardinalityType
<1> QED  BY <1>1, <1>2, <1>3, <1>4
\* A patch has at most one file.
LEMMA OneFile ==
  ASSUME TypeOK, Single, IsFiniteSet(files), NEW p \in Patches
  PROVE  Cardinality(Files(p)) \in {0, 1}
<1>1. CASE Files(p) = {}
  BY <1>1, FS_EmptySet
<1>2. CASE Files(p) # {}
  <2> PICK f \in Files(p) : TRUE  BY <1>2
  <2>1. Files(p) = {f}  BY DEF Files, Single
  <2>2. Cardinality({f}) = 1  BY FS_Singleton
  <2> QED  BY <2>1, <2>2
<1> QED  BY <1>1, <1>2

\* Where a step leaves the purge.
LEMMA PurgerStep ==
  ASSUME TypeOK, Single, Agreed, [Next]_vars
  PROVE  purger' \in PurgerType
<1>w. purger \in PurgerType  BY DEF TypeOK, PurgerType
<1>f. IsFiniteSet(files)  BY DEF Agreed
<1>1. CASE Measure
  <2>1. Cardinality(files) \in Nat  BY <1>f, FS_CardinalityType
  <2> QED  BY <1>1, <2>1 DEF Measure, PurgerType
<1>2. CASE List
  <2>1. purger.size \in Nat  BY <1>2, PurgerIs DEF List
  <2>2. entries \in SUBSET Entry  BY DEF TypeOK
  <2> QED  BY <1>2, <2>1, <2>2 DEF List, PurgerType
<1>3. CASE Evict
  <2>1. purger.size \in Nat /\ purger.left \in SUBSET Entry /\ purger.gone \in SUBSET Keys
    BY <1>3, PurgerIs DEF Evict, Evicting
  <2> PICK e \in purger.left : purger' = [at |-> "check", size |-> purger.size, left |-> purger.left \ {e},
                     gone |-> purger.gone \cup {e.key}, patch |-> e.patch]
    BY <1>3 DEF Evict
  <2>2. e.key \in Keys /\ e.patch \in Patches  BY <2>1 DEF Entry
  <2> QED  BY <2>1, <2>2 DEF PurgerType
<1>4. CASE Check
  <2>1. /\ purger.size \in Nat /\ purger.left \in SUBSET Entry /\ purger.gone \in SUBSET Keys /\ purger.patch \in Patches
        /\ purger = [at |-> purger.at, size |-> purger.size, left |-> purger.left,
                     gone |-> purger.gone, patch |-> purger.patch]
    BY <1>4, PurgerIs DEF Check, Evicting
  <2>2. CASE purger' = [at |-> "evict", size |-> purger.size, left |-> purger.left, gone |-> purger.gone]
    BY <2>1, <2>2 DEF PurgerType
  <2>3. CASE purger' = [purger EXCEPT !.at = "unlink"]
    <3>1. purger' = [at |-> "unlink", size |-> purger.size, left |-> purger.left,
                     gone |-> purger.gone, patch |-> purger.patch]
      BY <2>1, <2>3
    <3> QED  BY <2>1, <3>1 DEF PurgerType
  <2> QED  BY <1>4, <2>2, <2>3 DEF Check
<1>5. CASE Unlink
  <2>1. /\ purger.size \in Nat /\ purger.left \in SUBSET Entry /\ purger.gone \in SUBSET Keys
        /\ purger.patch \in Patches
    BY <1>5, PurgerIs DEF Unlink, Evicting
  <2>2. Cardinality(Files(purger.patch)) \in {0, 1}  BY <2>1, <1>f, OneFile
  <2>3. purger.size > 0  BY <1>5 DEF Unlink, Single
  <2>4. purger.size - Cardinality(Files(purger.patch)) \in Nat  BY <2>1, <2>2, <2>3
  <2> QED  BY <1>5, <2>1, <2>4 DEF Unlink, PurgerType
<1>6. CASE PurgeDone \/ PurgeKilled
  BY <1>6 DEF PurgeDone, PurgeKilled, PurgerType
<1>7. CASE (\E k \in Keys, p \in Patches : Job(k, p)) \/ Worker \/ DaemonKilled \/ UNCHANGED vars
  BY <1>7, <1>w DEF Job, Worker, Look, StoreNothing, OpenPatch, WritePatch, Insert, Load, RecordCheck, Bump,
       DaemonKilled, vars
<1> QED  BY <1>1, <1>2, <1>3, <1>4, <1>5, <1>6, <1>7 DEF Next, Purger

\* The table keeps one entry per key.
LEMMA EntriesStep ==
  ASSUME TypeOK, [Next]_vars
  PROVE  entries' \subseteq Entry /\ \A e, o \in entries' : e.key = o.key => e = o
<1>h. /\ entries \subseteq Entry /\ \A e, o \in entries : e.key = o.key => e = o
      /\ clock \in Nat
  BY DEF TypeOK
<1>1. CASE Insert
  <2>1. worker.key \in Keys /\ worker.made \in Patches  BY <1>1, WorkerIs DEF Insert, Storing
  <2>2. CASE entries' = entries  BY <2>2, <1>h
  <2>3. CASE /\ Under(worker.key) = {}
             /\ entries' = entries \cup {[key |-> worker.key, patch |-> worker.made, used |-> clock]}
    <3>1. [key |-> worker.key, patch |-> worker.made, used |-> clock] \in Entry  BY <2>1, <1>h DEF Entry
    <3>2. \A e \in entries : e.key # worker.key  BY <2>3 DEF Under
    <3> QED  BY <2>3, <3>1, <3>2, <1>h
  <2> QED  BY <1>1, <2>2, <2>3 DEF Insert
<1>2. CASE Bump
  <2>1. \A e \in entries : [e EXCEPT !.used = clock] \in Entry /\ [e EXCEPT !.used = clock].key = e.key
    BY <1>h DEF Entry
  <2>2. entries' = {IF e.key = worker.key THEN [e EXCEPT !.used = clock] ELSE e : e \in entries}
    BY <1>2 DEF Bump
  <2> DEFINE F(e) == IF e.key = worker.key THEN [e EXCEPT !.used = clock] ELSE e
  <2>3. \A e \in entries : F(e) \in Entry /\ F(e).key = e.key  BY <2>1, <1>h
  <2>4. entries' = {F(e) : e \in entries}  BY <2>2
  <2> HIDE DEF F
  <2> QED  BY <2>3, <2>4, <1>h
<1>3. CASE Evict
  BY <1>3, <1>h DEF Evict
<1>4. CASE \/ \E k \in Keys, p \in Patches : Job(k, p)
           \/ Look \/ StoreNothing \/ OpenPatch \/ WritePatch \/ Load \/ RecordCheck
           \/ Measure \/ List \/ Check \/ Unlink \/ PurgeDone \/ DaemonKilled \/ PurgeKilled \/ UNCHANGED vars
  BY <1>4, <1>h DEF Job, Look, StoreNothing, OpenPatch, WritePatch, Load, RecordCheck, Measure, List, Check,
       Unlink, PurgeDone, DaemonKilled, PurgeKilled, vars
<1> QED  BY <1>1, <1>2, <1>3, <1>4 DEF Next, Worker, Purger

\* Writing a file makes it whole.
LEMMA FileWritten ==
  ASSUME TypeOK
  PROVE  \A f \in Files(worker.made) : [f EXCEPT !.whole = TRUE] = [patch |-> worker.made, whole |-> TRUE]
<1> TAKE f \in Files(worker.made)
<1>1. f \in [patch : Patches, whole : BOOLEAN] /\ f.patch = worker.made  BY DEF Files, TypeOK
<1> DEFINE g == [f EXCEPT !.whole = TRUE]
<1>2. g \in [patch : Patches, whole : BOOLEAN] /\ g.patch = worker.made /\ g.whole = TRUE  BY <1>1
<1> HIDE DEF g
<1>3. g = [patch |-> g.patch, whole |-> g.whole]  BY <1>2
<1>4. g = [patch |-> worker.made, whole |-> TRUE]  BY <1>2, <1>3
<1> QED  BY <1>4 DEF g

\* What a step does to the files.
LEMMA FilesStep ==
  ASSUME TypeOK, Single, [Next]_vars
  PROVE  \/ files' = files
         \/ OpenPatch /\ files' = files \cup {[patch |-> worker.made, whole |-> FALSE]}
         \/ /\ WritePatch
            /\ files' = (files \ Files(worker.made)) \cup
                          {[patch |-> worker.made, whole |-> TRUE] : f \in Files(worker.made)}
         \/ Unlink /\ files' = files \ Files(purger.patch)
<1>1. CASE OpenPatch  BY <1>1 DEF OpenPatch
<1>2. CASE Unlink  BY <1>2 DEF Unlink
<1>3. CASE WritePatch
  <2>1. \A f \in Files(worker.made) : [f EXCEPT !.whole = TRUE] = [patch |-> worker.made, whole |-> TRUE]
    BY FileWritten
  <2>2. {[f EXCEPT !.whole = TRUE] : f \in Files(worker.made)}
          = {[patch |-> worker.made, whole |-> TRUE] : f \in Files(worker.made)}
    BY <2>1
  <2> QED  BY <1>3, <2>2 DEF WritePatch
<1>4. CASE \/ \E k \in Keys, p \in Patches : Job(k, p)
           \/ Look \/ StoreNothing \/ Insert \/ Load \/ RecordCheck \/ Bump
           \/ Measure \/ List \/ Evict \/ Check \/ PurgeDone \/ DaemonKilled \/ PurgeKilled \/ UNCHANGED vars
  BY <1>4 DEF Job, Look, StoreNothing, Insert, Load, RecordCheck, Bump, Measure, List, Evict, Check,
       PurgeDone, DaemonKilled, PurgeKilled, vars
<1> QED  BY <1>1, <1>2, <1>3, <1>4 DEF Next, Worker, Purger

\* The variables keep their types.
LEMMA TypeInductive ==
  ASSUME TypeOK, Single, Agreed, [Next]_vars
  PROVE  TypeOK'
<1>1. worker' \in {Idle} \cup [at : {"look", "store", "write", "insert"}, key : Keys, made : Patches]
                \cup [at : {"load", "agree", "disagree", "bump"}, key : Keys, made : Patches,
                      stored : Patches]
  BY WorkerStep DEF Looking, Found
<1>2. purger' \in {Idle} \cup [at : {"list"}, size : Nat]
                \cup [at : {"evict"}, size : Nat, left : SUBSET Entry, gone : SUBSET Keys]
                \cup [at : {"check", "unlink"}, size : Nat, left : SUBSET Entry,
                      gone : SUBSET Keys, patch : Patches]
  BY PurgerStep DEF PurgerType
<1>3. entries' \subseteq Entry /\ \A e, o \in entries' : e.key = o.key => e = o
  BY EntriesStep
<1>4. files' \subseteq [patch : Patches, whole : BOOLEAN]
  <2>1. files \subseteq [patch : Patches, whole : BOOLEAN]  BY DEF TypeOK
  <2>2. OpenPatch \/ WritePatch => worker.made \in Patches
    BY WorkerIs DEF OpenPatch, WritePatch, Storing
  <2> DEFINE R == [patch : Patches, whole : BOOLEAN]
  <2>3. \A b \in BOOLEAN : worker.made \in Patches => [patch |-> worker.made, whole |-> b] \in R  OBVIOUS
  <2>4. files \subseteq R  BY <2>1
  <2> HIDE DEF R
  <2>5. \/ files' = files \/ files' = files \ Files(purger.patch)
        \/ worker.made \in Patches /\ \E b \in BOOLEAN : files' \subseteq files \cup {[patch |-> worker.made, whole |-> b]}
    BY <2>2, FilesStep
  <2>6. files' \subseteq R  BY <2>3, <2>4, <2>5
  <2> QED  BY <2>6 DEF R
<1>5. clock' \in Nat /\ last' \in [Keys -> Nat]
  <2>1. clock \in Nat /\ last \in [Keys -> Nat]  BY DEF TypeOK
  <2>2. CASE Insert \/ Bump
    BY <2>1, <2>2 DEF Insert, Bump
  <2>3. CASE \/ \E k \in Keys, p \in Patches : Job(k, p)
             \/ Look \/ StoreNothing \/ OpenPatch \/ WritePatch \/ Load \/ RecordCheck
             \/ Measure \/ Purger \/ DaemonKilled \/ PurgeKilled \/ UNCHANGED vars
    BY <2>1, <2>3 DEF Job, Look, StoreNothing, OpenPatch, WritePatch, Load, RecordCheck, Measure, Purger, List,
         Evict, Check, Unlink, PurgeDone, DaemonKilled, PurgeKilled, vars
  <2> QED  BY <2>2, <2>3 DEF Next, Worker
<1>6. jobs' \in 0..MaxJobs /\ purges' \in 0..MaxPurges
  <2>1. jobs \in 0..MaxJobs /\ purges \in 0..MaxPurges /\ MaxJobs \in Nat /\ MaxPurges \in Nat
    BY VaultAssumption DEF TypeOK
  <2>2. \/ jobs' = jobs \/ (jobs < MaxJobs /\ jobs' = jobs + 1)
    BY DEF Next, Worker, Purger, Job, Look, StoreNothing, OpenPatch, WritePatch, Insert, Load, RecordCheck, Bump,
         Measure, List, Evict, Check, Unlink, PurgeDone, DaemonKilled, PurgeKilled, vars
  <2>3. \/ purges' = purges \/ (purges < MaxPurges /\ purges' = purges + 1)
    BY DEF Next, Worker, Purger, Job, Look, StoreNothing, OpenPatch, WritePatch, Insert, Load, RecordCheck, Bump,
         Measure, List, Evict, Check, Unlink, PurgeDone, DaemonKilled, PurgeKilled, vars
  <2>4. jobs' \in 0..MaxJobs  BY <2>1, <2>2
  <2>5. purges' \in 0..MaxPurges  BY <2>1, <2>3
  <2> QED  BY <2>4, <2>5
<1>7. checks' \subseteq [agreed : BOOLEAN, stored : Patches, made : Patches]
  <2>1. checks \subseteq [agreed : BOOLEAN, stored : Patches, made : Patches]  BY DEF TypeOK
  <2>2. CASE RecordCheck
    <3>1. worker.stored \in Patches /\ worker.made \in Patches
      BY <2>2, WorkerIs DEF RecordCheck, Comparing
    <3>2. (worker.at = "agree") \in BOOLEAN  OBVIOUS
    <3>3. [agreed |-> worker.at = "agree", stored |-> worker.stored, made |-> worker.made]
            \in [agreed : BOOLEAN, stored : Patches, made : Patches]
      BY <3>1, <3>2
    <3> QED  BY <2>1, <2>2, <3>3 DEF RecordCheck
  <2>3. CASE checks' = checks  BY <2>1, <2>3
  <2>4. ~RecordCheck => checks' = checks
    BY DEF Next, Worker, Purger, Job, Look, StoreNothing, OpenPatch, WritePatch, Insert, Load, Bump,
         Measure, List, Evict, Check, Unlink, PurgeDone, DaemonKilled, PurgeKilled, vars
  <2> QED  BY <2>2, <2>3, <2>4
<1>8. purged' \in {NotPurged} \cup [done : {TRUE}, gone : SUBSET Keys]
  <2>1. purged \in {NotPurged} \cup [done : {TRUE}, gone : SUBSET Keys]  BY DEF TypeOK
  <2>2. CASE PurgeDone
    <3>1. purger.gone \in SUBSET Keys  BY <2>2, PurgerIs DEF PurgeDone, Evicting
    <3> QED  BY <2>2, <3>1 DEF PurgeDone
  <2>3. ~PurgeDone => purged' \in {purged, NotPurged}
    BY DEF Next, Worker, Purger, Job, Look, StoreNothing, OpenPatch, WritePatch, Insert, Load, RecordCheck, Bump,
         Measure, List, Evict, Check, Unlink, DaemonKilled, PurgeKilled, vars
  <2> QED  BY <2>1, <2>2, <2>3
<1>9. upset' \subseteq Upsets
  <2>1. upset \subseteq Upsets /\ \A o : Overlap(o) \subseteq Upsets /\ "failure" \in Upsets /\ "kill" \in Upsets
    BY DEF TypeOK, Overlap, Upsets
  <2>2. CASE (\E k \in Keys, p \in Patches : Job(k, p)) \/ Measure
    BY <2>1, <2>2 DEF Job, Measure
  <2>3. CASE StoreNothing \/ WritePatch \/ DaemonKilled \/ PurgeKilled
    BY <2>1, <2>3 DEF StoreNothing, WritePatch, DaemonKilled, PurgeKilled
  <2>4. CASE Look \/ OpenPatch \/ Insert \/ Load \/ RecordCheck \/ Bump \/ Purger \/ UNCHANGED vars
    BY <2>1, <2>4 DEF Look, OpenPatch, Insert, Load, RecordCheck, Bump, Purger, List, Evict, Check, Unlink, PurgeDone, vars
  <2> QED  BY <2>2, <2>3, <2>4 DEF Next, Worker
<1> QED  BY <1>1, <1>2, <1>3, <1>4, <1>5, <1>6, <1>7, <1>8, <1>9 DEF TypeOK

-----------------------------------------------------------------------------
(* What holds whatever goes wrong. *)

\* A disorder that has happened is not forgotten.
LEMMA UpsetStays ==
  ASSUME [Next]_vars
  PROVE  upset \subseteq upset'
BY DEF Next, Worker, Purger, Job, Look, StoreNothing, OpenPatch, WritePatch, Insert, Load, RecordCheck, Bump,
       Measure, List, Evict, Check, Unlink, PurgeDone, DaemonKilled, PurgeKilled, vars

\* A patch has one file, after every step.
LEMMA SingleInductive ==
  ASSUME TypeOK, Single, [Next]_vars
  PROVE  Single'
<1>1. \A f, g \in files' : f.patch = g.patch => f = g
  <2>h. \A f, g \in files : f.patch = g.patch => f = g  BY DEF Single
  <2>1. CASE files' = files \/ files' = files \ Files(purger.patch)
    BY <2>1, <2>h
  <2>2. CASE OpenPatch /\ files' = files \cup {[patch |-> worker.made, whole |-> FALSE]}
    <3>1. \A f \in files : f.patch # worker.made  BY <2>2 DEF OpenPatch, Files
    <3> DEFINE n == [patch |-> worker.made, whole |-> FALSE]
    <3>2. n.patch = worker.made /\ files' = files \cup {n}  BY <2>2
    <3> HIDE DEF n
    <3> QED  BY <2>h, <3>1, <3>2
  <2>3. CASE files' = (files \ Files(worker.made)) \cup
                        {[patch |-> worker.made, whole |-> TRUE] : f \in Files(worker.made)}
    <3>1. \A f \in files \ Files(worker.made) : f \in files /\ f.patch # worker.made  BY DEF Files
    <3> DEFINE n == [patch |-> worker.made, whole |-> TRUE]
    <3>2. n.patch = worker.made  OBVIOUS
    <3>3. files' \subseteq (files \ Files(worker.made)) \cup {n}  BY <2>3
    <3> HIDE DEF n
    <3> QED  BY <2>h, <3>1, <3>2, <3>3
  <2> QED  BY <2>1, <2>2, <2>3, FilesStep
<1>2. purger'.at \in {"check", "unlink"} => purger'.size > 0
  <2>1. CASE Evict
    <3>1. purger.size > MaxFiles /\ purger.size \in Nat /\ MaxFiles \in Nat
      BY <2>1, PurgerIs, VaultAssumption DEF Evict, Evicting
    <3>2. purger'.size = purger.size  BY <2>1 DEF Evict
    <3> QED  BY <3>1, <3>2
  <2>2. CASE Check
    <3>1. purger.size > 0  BY <2>2 DEF Check, Single
    <3>2. purger'.size = purger.size  BY <2>2, PurgerIs DEF Check
    <3> QED  BY <3>1, <3>2
  <2>3. CASE Measure \/ List \/ Unlink \/ PurgeDone \/ PurgeKilled
    BY <2>3 DEF Measure, List, Unlink, PurgeDone, PurgeKilled, Idle
  <2>4. CASE purger' = purger
    BY <2>4 DEF Single
  <2>5. CASE (\E k \in Keys, p \in Patches : Job(k, p)) \/ Worker \/ DaemonKilled \/ UNCHANGED vars
    BY <2>4, <2>5 DEF Job, Worker, Look, StoreNothing, OpenPatch, WritePatch, Insert, Load, RecordCheck, Bump,
         DaemonKilled, vars
  <2> QED  BY <2>1, <2>2, <2>3, <2>5 DEF Next, Purger
<1> QED  BY <1>1, <1>2 DEF Single

\* An agreement is one, after every step.
LEMMA AgreedInductive ==
  ASSUME TypeOK, Single, Agreed, [Next]_vars
  PROVE  Agreed'
<1>1. IsFiniteSet(files')
  <2>f. IsFiniteSet(files)  BY DEF Agreed
  <2>1. CASE files' = files  BY <2>f, <2>1
  <2>2. CASE files' = files \cup {[patch |-> worker.made, whole |-> FALSE]}
    BY <2>f, <2>2, FS_AddElement
  <2>3. CASE files' = (files \ Files(worker.made)) \cup
                        {[patch |-> worker.made, whole |-> TRUE] : f \in Files(worker.made)}
    <3>1. files' \subseteq files \cup {[patch |-> worker.made, whole |-> TRUE]}  BY <2>3
    <3>2. IsFiniteSet(files \cup {[patch |-> worker.made, whole |-> TRUE]})  BY <2>f, FS_AddElement
    <3> QED  BY <3>1, <3>2, FS_Subset
  <2>4. CASE files' = files \ Files(purger.patch)
    <3>1. files' \subseteq files  BY <2>4
    <3> QED  BY <2>f, <3>1, FS_Subset
  <2> QED  BY <2>1, <2>2, <2>3, <2>4, FilesStep
<1>2. worker'.at = "agree" => worker'.stored = worker'.made
  <2>1. CASE Load
    <3>1. /\ worker.at = "load"
          /\ worker = [at |-> worker.at, key |-> worker.key, made |-> worker.made, stored |-> worker.stored]
      BY <2>1, WorkerIs DEF Load, Comparing
    <3>2. worker'.stored = worker.stored /\ worker'.made = worker.made
          /\ (worker'.at = "agree" => worker.stored = worker.made)
      BY <2>1, <3>1 DEF Load
    <3> QED  BY <3>2
  <2>2. CASE worker' = worker  BY <2>2 DEF Agreed
  <2>3. CASE Measure \/ Purger \/ PurgeKilled \/ UNCHANGED vars
    BY <2>2, <2>3 DEF Measure, Purger, List, Evict, Check, Unlink, PurgeDone, PurgeKilled, vars
  <2>4. CASE (\E k \in Keys, p \in Patches : Job(k, p)) \/ Insert \/ Bump \/ DaemonKilled
    BY <2>4 DEF Job, Insert, Bump, DaemonKilled, Idle
  <2>5. CASE Look \/ StoreNothing \/ OpenPatch \/ WritePatch \/ RecordCheck
    <3>1. worker.at \in {"look", "store", "write", "agree", "disagree"}
      BY <2>5 DEF Look, StoreNothing, OpenPatch, WritePatch, RecordCheck
    <3>2. \/ \E q \in {"store", "write", "insert", "bump"} : worker' = [worker EXCEPT !.at = q]
          \/ \E e \in entries : worker' = [at |-> "load", key |-> e.key, made |-> worker.made, stored |-> e.patch]
      BY <2>5 DEF Look, StoreNothing, OpenPatch, WritePatch, RecordCheck, Under
    <3>3. worker'.at # "agree"  BY <3>1, <3>2, WorkerIs DEF Storing, Comparing
    <3> QED  BY <3>3
  <2> QED  BY <2>1, <2>3, <2>4, <2>5 DEF Next, Worker
<1>3. \A c \in checks' : c.agreed => c.stored = c.made
  <2>1. CASE checks' = checks  BY <2>1 DEF Agreed
  <2>2. CASE RecordCheck
    <3>1. worker.at = "agree" => worker.stored = worker.made  BY DEF Agreed
    <3>2. checks' = checks \cup {[agreed |-> worker.at = "agree", stored |-> worker.stored, made |-> worker.made]}
      BY <2>2 DEF RecordCheck
    <3>3. \A c \in checks : c.agreed => c.stored = c.made  BY DEF Agreed
    <3> DEFINE n == [agreed |-> worker.at = "agree", stored |-> worker.stored, made |-> worker.made]
    <3>4. n.stored = worker.stored /\ n.made = worker.made  OBVIOUS
    <3>5. n.agreed = (worker.at = "agree")  OBVIOUS
    <3>6. checks' = checks \cup {n}  BY <3>2
    <3> HIDE DEF n
    <3>7. n.agreed => n.stored = n.made  BY <3>1, <3>4, <3>5, Zenon
    <3> QED  BY <3>3, <3>6, <3>7
  <2>3. ~RecordCheck => checks' = checks
    BY DEF Next, Worker, Purger, Job, Look, StoreNothing, OpenPatch, WritePatch, Insert, Load, Bump,
         Measure, List, Evict, Check, Unlink, PurgeDone, DaemonKilled, PurgeKilled, vars
  <2> QED  BY <2>1, <2>2, <2>3
<1> QED  BY <1>1, <1>2, <1>3 DEF Agreed

\* The worker goes on with what it knows.
LEMMA WorkerGoes ==
  ASSUME TypeOK, NEW q, worker.at # "idle", worker' = [worker EXCEPT !.at = q]
  PROVE  /\ worker'.at = q /\ worker'.key = worker.key /\ worker'.made = worker.made
         /\ worker.at \in Comparing => worker'.stored = worker.stored
<1>1. CASE worker.at \in {"look"} \cup Storing
  <2>1. worker = [at |-> worker.at, key |-> worker.key, made |-> worker.made] /\ worker.at \notin Comparing
    BY <1>1, WorkerIs DEF Storing, Comparing
  <2> QED  BY <2>1
<1>2. CASE worker.at \in Comparing
  <2>1. worker = [at |-> worker.at, key |-> worker.key, made |-> worker.made, stored |-> worker.stored]
    BY <1>2, WorkerIs
  <2> QED  BY <2>1
<1> QED  BY <1>1, <1>2, WorkerIs

-----------------------------------------------------------------------------
(* Worker and purge take turns. *)

\* Without an overlap one of the two is idle, after every step.
LEMMA TurnsInductive ==
  ASSUME TypeOK, Turns, [Next]_vars
  PROVE  Turns'
<1> SUFFICES ASSUME "overlap" \notin upset'
             PROVE  /\ worker' = Idle \/ purger' = Idle
                    /\ purged'.done => worker' = Idle /\ purger' = Idle
  BY DEF Turns
<1>u. "overlap" \notin upset  BY UpsetStays
<1>h. (worker = Idle \/ purger = Idle) /\ (purged.done => worker = Idle /\ purger = Idle)
  BY <1>u DEF Turns
<1>n. ~NotPurged.done  BY DEF NotPurged
<1>i. Idle.at = "idle"  BY DEF Idle
<1>1. ASSUME NEW k \in Keys, NEW p \in Patches, Job(k, p)
      PROVE  purger' = Idle /\ ~purged'.done
  <2>1. purger = Idle  BY <1>1 DEF Job, Overlap
  <2> QED  BY <1>1, <1>n, <2>1 DEF Job
<1>2. CASE Worker
  <2>1. worker.at # "idle" /\ purger' = purger /\ purged' = purged
    BY <1>2 DEF Worker, Look, StoreNothing, OpenPatch, WritePatch, Insert, Load, RecordCheck, Bump
  <2>2. worker # Idle  BY <2>1, <1>i
  <2>3. purger' = Idle  BY <1>h, <2>1, <2>2
  <2>4. ~purged'.done  BY <1>h, <2>1, <2>2
  <2> QED  BY <2>3, <2>4
<1>3. CASE Measure
  <2>1. worker = Idle  BY <1>3 DEF Measure, Overlap
  <2> QED  BY <1>3, <1>n, <2>1 DEF Measure
<1>4. CASE List \/ Evict \/ Check \/ Unlink
  <2>1. purger.at # "idle" /\ worker' = worker /\ purged' = purged
    BY <1>4 DEF List, Evict, Check, Unlink
  <2>2. purger # Idle  BY <2>1, <1>i
  <2>3. worker' = Idle  BY <1>h, <2>1, <2>2
  <2>4. ~purged'.done  BY <1>h, <2>1, <2>2
  <2> QED  BY <2>3, <2>4
<1>5. CASE PurgeDone
  <2>1. purger.at # "idle" /\ worker' = worker /\ purger' = Idle  BY <1>5 DEF PurgeDone
  <2>2. worker' = Idle  BY <1>h, <1>i, <2>1
  <2> QED  BY <2>1, <2>2
<1>6. CASE DaemonKilled
  <2>1. worker' = Idle /\ purger' = purger /\ purged' = purged  BY <1>6 DEF DaemonKilled
  <2> QED  BY <1>h, <2>1
<1>7. CASE PurgeKilled
  <2>1. purger' = Idle /\ worker' = worker /\ purged' = purged  BY <1>7 DEF PurgeKilled
  <2> QED  BY <1>h, <2>1
<1>8. CASE UNCHANGED vars
  <2>1. purger' = purger /\ worker' = worker /\ purged' = purged  BY <1>8 DEF vars
  <2> QED  BY <1>h, <2>1
<1> QED  BY <1>1, <1>2, <1>3, <1>4, <1>5, <1>6, <1>7, <1>8 DEF Next, Purger

\* While one of them works, the other leaves everything alone.
LEMMA OneAtWork ==
  ASSUME TypeOK, Turns, "overlap" \notin upset
  PROVE  /\ worker.at # "idle" => purger = Idle /\ purger.at = "idle" /\ ~purged.done
         /\ purger.at # "idle" => worker = Idle /\ worker.at = "idle" /\ ~purged.done
<1>1. worker = Idle \/ purger = Idle  BY DEF Turns
<1>2. purged.done => worker = Idle /\ purger = Idle  BY DEF Turns
<1>3. Idle.at = "idle"  BY DEF Idle
<1> QED  BY <1>1, <1>2, <1>3, Zenon

\* Without an overlap the worker's key is as it found it, after every step.
LEMMA LookedInductive ==
  ASSUME TypeOK, Turns, Looked, [Next]_vars
  PROVE  Looked'
<1> SUFFICES ASSUME "overlap" \notin upset'
             PROVE  /\ worker'.at \in Storing => Under(worker.key)' = {}
                    /\ worker'.at \in Comparing => \E e \in entries' : e.key = worker'.key /\ e.patch = worker'.stored
                    /\ worker'.at = "write" => Files(worker.made)' # {}
  BY DEF Looked
<1>u. "overlap" \notin upset  BY UpsetStays
<1>h. /\ worker.at \in Storing => Under(worker.key) = {}
      /\ worker.at \in Comparing => \E e \in entries : e.key = worker.key /\ e.patch = worker.stored
      /\ worker.at = "write" => Files(worker.made) # {}
  BY <1>u DEF Looked
<1> DEFINE Goal == /\ worker'.at \in Storing => Under(worker.key)' = {}
                   /\ worker'.at \in Comparing => \E e \in entries' : e.key = worker'.key /\ e.patch = worker'.stored
                   /\ worker'.at = "write" => Files(worker.made)' # {}
<1>1. ASSUME worker'.at \in {"idle", "look"}  PROVE Goal
  BY <1>1 DEF Storing, Comparing
<1>2. ASSUME UNCHANGED <<worker, entries, files>>  PROVE Goal
  <2>1. Under(worker.key)' = Under(worker.key) /\ Files(worker.made)' = Files(worker.made)
    BY <1>2 DEF Under, Files
  <2> QED  BY <1>2, <1>h, <2>1
<1>3. CASE (\E k \in Keys, p \in Patches : Job(k, p)) \/ Insert \/ Bump \/ DaemonKilled
  <2>1. worker'.at \in {"idle", "look"}  BY <1>3 DEF Job, Insert, Bump, DaemonKilled, Idle
  <2> QED  BY <2>1, <1>1
<1>4. CASE Look
  <2>1. ASSUME Under(worker.key) = {}, worker' = [worker EXCEPT !.at = "store"]  PROVE Goal
    <3>1. worker'.at = "store" /\ worker'.key = worker.key  BY <1>4, <2>1, WorkerGoes DEF Look
    <3>2. Under(worker.key)' = Under(worker.key)  BY <1>4, <3>1 DEF Look, Under
    <3> QED  BY <2>1, <3>1, <3>2 DEF Comparing
  <2>2. ASSUME NEW e \in Under(worker.key),
               worker' = [at |-> "load", key |-> e.key, made |-> worker.made, stored |-> e.patch]
        PROVE  Goal
    <3>1. e \in entries'  BY <1>4 DEF Look, Under
    <3>2. worker'.at = "load" /\ worker'.key = e.key /\ worker'.stored = e.patch  BY <2>2
    <3> QED  BY <3>1, <3>2 DEF Storing
  <2> QED  BY <1>4, <2>1, <2>2 DEF Look
<1>5. CASE StoreNothing \/ OpenPatch \/ WritePatch
  <2>1. /\ worker.at \in {"store", "write"} /\ entries' = entries
        /\ \E q \in {"write", "insert"} : worker' = [worker EXCEPT !.at = q]
    BY <1>5 DEF StoreNothing, OpenPatch, WritePatch
  <2>2. worker'.at \in {"write", "insert"} /\ worker'.key = worker.key /\ worker'.made = worker.made
    BY <2>1, WorkerGoes
  <2>3. Under(worker.key)' = {}  BY <1>h, <2>1, <2>2 DEF Under, Storing
  <2>4. worker'.at = "write" => Files(worker.made)' # {}
    <3>1. CASE OpenPatch
      <4>1. [patch |-> worker.made, whole |-> FALSE] \in files'  BY <3>1 DEF OpenPatch
      <4>2. [patch |-> worker.made, whole |-> FALSE].patch = worker'.made  BY <2>2
      <4> QED  BY <4>1, <4>2 DEF Files
    <3>2. CASE StoreNothing \/ WritePatch
      <4>1. worker' = [worker EXCEPT !.at = "insert"]  BY <3>2 DEF StoreNothing, WritePatch
      <4>2. worker'.at = "insert"  BY <4>1, <2>1, WorkerGoes
      <4> QED  BY <4>2
    <3> QED  BY <1>5, <3>1, <3>2
  <2> QED  BY <2>2, <2>3, <2>4 DEF Comparing
<1>6. CASE Load \/ RecordCheck
  <2>1. /\ worker.at \in Comparing /\ worker.at # "idle" /\ entries' = entries
        /\ \E q \in {"agree", "disagree", "bump"} : worker' = [worker EXCEPT !.at = q]
    BY <1>6 DEF Load, RecordCheck, Comparing
  <2>2. worker'.at \in {"agree", "disagree", "bump"} /\ worker'.key = worker.key /\ worker'.stored = worker.stored
    BY <2>1, WorkerGoes
  <2> QED  BY <2>1, <2>2, <1>h DEF Storing
<1>7. CASE List \/ Evict \/ Check \/ Unlink \/ PurgeDone
  <2>1. purger.at # "idle" /\ worker' = worker  BY <1>7 DEF List, Evict, Check, Unlink, PurgeDone
  <2>2. worker'.at = "idle"  BY <2>1, <1>u, OneAtWork
  <2> QED  BY <2>2, <1>1
<1>8. CASE Measure \/ PurgeKilled \/ UNCHANGED vars
  BY <1>2, <1>8 DEF Measure, PurgeKilled, vars
<1> QED  BY <1>3, <1>4, <1>5, <1>6, <1>7, <1>8 DEF Next, Worker, Purger

-----------------------------------------------------------------------------
(* The purge. *)

\* The check that finds a patch unused leads to its file being unlinked.
LEMMA CheckGoes ==
  ASSUME TypeOK, Check
  PROVE  /\ purger'.size = purger.size /\ purger'.left = purger.left /\ purger'.gone = purger.gone
         /\ \/ purger'.at = "evict" /\ UsesPatch(purger.patch)
            \/ purger'.at = "unlink" /\ ~UsesPatch(purger.patch) /\ purger'.patch = purger.patch
<1>1. purger = [at |-> purger.at, size |-> purger.size, left |-> purger.left,
                gone |-> purger.gone, patch |-> purger.patch]
  BY PurgerIs DEF Check
<1>2. CASE UsesPatch(purger.patch)
  BY <1>2 DEF Check
<1>3. CASE ~UsesPatch(purger.patch)
  <2>1. purger' = [purger EXCEPT !.at = "unlink"]  BY <1>3 DEF Check
  <2> QED  BY <1>1, <1>3, <2>1
<1> QED  BY <1>2, <1>3

\* The purge evicts the one entry that was used least recently.
LEMMA EvictGoes ==
  ASSUME TypeOK, Ages, Evict, "overlap" \notin upset
  PROVE  \E e \in entries :
           /\ \A o \in entries : last[e.key] <= last[o.key]
           /\ entries' = entries \ {e}
           /\ purger' = [at |-> "check", size |-> purger.size, left |-> purger.left \ {e},
                         gone |-> purger.gone \cup {e.key}, patch |-> e.patch]
<1>1. purger.left = entries  BY DEF Ages, Evict, Evicting
<1>2. PICK e \in purger.left :
        /\ \A o \in purger.left : e.used <= o.used
        /\ entries' = entries \ Under(e.key)
        /\ purger' = [at |-> "check", size |-> purger.size, left |-> purger.left \ {e},
                      gone |-> purger.gone \cup {e.key}, patch |-> e.patch]
  BY DEF Evict
<1>3. Under(e.key) = {e}  BY <1>1 DEF Under, TypeOK
<1>4. \A o \in entries : o.used = last[o.key]  BY DEF Ages
<1> QED  BY <1>1, <1>2, <1>3, <1>4

\* Without an overlap an entry is as old as its key's last use, after every step.
LEMMA UsesInductive ==
  ASSUME TypeOK, Looked, Ages, [Next]_vars, "overlap" \notin upset
  PROVE  \A e \in entries' : e.used = last'[e.key]
<1>h. \A e \in entries : e.used = last[e.key] /\ e \in Entry  BY DEF Ages, TypeOK
<1>l. last \in [Keys -> Nat] /\ \A e \in entries : e.key \in Keys  BY <1>h DEF TypeOK, Entry
<1>1. CASE Insert
  <2>1. worker.key \in Keys /\ Under(worker.key) = {}
    BY <1>1, WorkerIs DEF Insert, Storing, Looked
  <2>2. /\ entries' = entries \cup {[key |-> worker.key, patch |-> worker.made, used |-> clock]}
        /\ last' = [last EXCEPT ![worker.key] = clock]
    BY <1>1, <2>1 DEF Insert
  <2>3. \A e \in entries : e.key # worker.key  BY <2>1 DEF Under
  <2>4. \A e \in entries : e.used = last'[e.key]  BY <2>2, <2>3, <1>h, <1>l
  <2> DEFINE n == [key |-> worker.key, patch |-> worker.made, used |-> clock]
  <2>5. n.key = worker.key /\ n.used = clock  OBVIOUS
  <2>6. last'[worker.key] = clock  BY <2>1, <2>2, <1>l
  <2>7. entries' = entries \cup {n}  BY <2>2
  <2> HIDE DEF n
  <2> QED  BY <2>4, <2>5, <2>6, <2>7
<1>2. CASE Bump
  <2>1. worker.key \in Keys  BY <1>2, WorkerIs DEF Bump, Comparing
  <2>2. last' = [last EXCEPT ![worker.key] = clock]  BY <1>2 DEF Bump
  <2> DEFINE F(e) == IF e.key = worker.key THEN [e EXCEPT !.used = clock] ELSE e
  <2>3. entries' = {F(e) : e \in entries}  BY <1>2 DEF Bump
  <2>4. \A e \in entries : F(e).key = e.key /\ F(e).used = last'[e.key]
    <3> TAKE e \in entries
    <3>1. CASE e.key = worker.key
      <4>1. e \in Entry  BY <1>h
      <4>2. [e EXCEPT !.used = clock].key = e.key /\ [e EXCEPT !.used = clock].used = clock
        BY <4>1 DEF Entry
      <4>3. last'[e.key] = clock  BY <2>1, <2>2, <3>1, <1>l
      <4> QED  BY <3>1, <4>2, <4>3
    <3>2. CASE e.key # worker.key
      <4>1. last'[e.key] = last[e.key]  BY <2>1, <2>2, <3>2, <1>l
      <4> QED  BY <3>2, <4>1, <1>h
    <3> QED  BY <3>1, <3>2
  <2> HIDE DEF F
  <2> QED  BY <2>3, <2>4
<1>3. CASE Evict
  <2>1. entries' \subseteq entries /\ last' = last  BY <1>3 DEF Evict
  <2> QED  BY <2>1, <1>h
<1>4. CASE \/ \E k \in Keys, p \in Patches : Job(k, p)
           \/ Look \/ StoreNothing \/ OpenPatch \/ WritePatch \/ Load \/ RecordCheck
           \/ Measure \/ List \/ Check \/ Unlink \/ PurgeDone \/ DaemonKilled \/ PurgeKilled \/ UNCHANGED vars
  BY <1>4, <1>h DEF Job, Look, StoreNothing, OpenPatch, WritePatch, Load, RecordCheck, Measure, List, Check,
       Unlink, PurgeDone, DaemonKilled, PurgeKilled, vars
<1> QED  BY <1>1, <1>2, <1>3, <1>4 DEF Next, Worker, Purger

\* The purge knows the size and what is left, after every step.
LEMMA AgesInductive ==
  ASSUME TypeOK, Agreed, Turns, Looked, Ages, [Next]_vars
  PROVE  Ages'
<1> SUFFICES ASSUME "overlap" \notin upset'
             PROVE  /\ purger' # Idle => purger'.size = Cardinality(files')
                    /\ purger'.at \in Evicting =>
                         /\ purger'.left = entries'
                         /\ \A k \in purger'.gone, e \in entries' : last'[k] <= last'[e.key]
                    /\ purger'.at = "unlink" => ~UsesPatch(purger.patch)'
  BY UpsetStays, UsesInductive DEF Ages
<1>u. "overlap" \notin upset  BY UpsetStays
<1>h. /\ purger # Idle => purger.size = Cardinality(files)
      /\ purger.at \in Evicting =>
           /\ purger.left = entries
           /\ \A k \in purger.gone, e \in entries : last[k] <= last[e.key]
      /\ purger.at = "unlink" => ~UsesPatch(purger.patch)
  BY <1>u DEF Ages
<1>i. Idle.at = "idle"  BY DEF Idle
<1> DEFINE Goal == /\ purger' # Idle => purger'.size = Cardinality(files')
                   /\ purger'.at \in Evicting =>
                        /\ purger'.left = entries'
                        /\ \A k \in purger'.gone, e \in entries' : last'[k] <= last'[e.key]
                   /\ purger'.at = "unlink" => ~UsesPatch(purger.patch)'
<1>1. ASSUME purger' = Idle  PROVE Goal
  <2>1. purger'.at = "idle"  BY <1>1, <1>i
  <2> QED  BY <1>1, <2>1 DEF Evicting
<1>2. CASE (\E k \in Keys, p \in Patches : Job(k, p)) \/ Worker
  <2>1. purger = Idle /\ purger' = purger
    <3>1. CASE \E k \in Keys, p \in Patches : Job(k, p)
      BY <3>1 DEF Job, Overlap
    <3>2. CASE Worker
      <4>1. worker.at # "idle" /\ purger' = purger
        BY <3>2 DEF Worker, Look, StoreNothing, OpenPatch, WritePatch, Insert, Load, RecordCheck, Bump
      <4> QED  BY <4>1, <1>u, OneAtWork
    <3> QED  BY <1>2, <3>1, <3>2
  <2> QED  BY <2>1, <1>1
<1>3. CASE Measure
  <2>1. purger'.at = "list" /\ purger'.size = Cardinality(files) /\ files' = files  BY <1>3 DEF Measure
  <2> QED  BY <2>1 DEF Evicting
<1>4. CASE List
  <2>1. /\ purger'.at = "evict" /\ purger'.size = purger.size /\ purger'.left = entries /\ purger'.gone = {}
        /\ files' = files /\ entries' = entries /\ purger # Idle
    BY <1>4, <1>i DEF List
  <2> QED  BY <2>1, <1>h
<1>5. CASE Evict
  <2> PICK e \in entries :
           /\ \A o \in entries : last[e.key] <= last[o.key]
           /\ entries' = entries \ {e}
           /\ purger' = [at |-> "check", size |-> purger.size, left |-> purger.left \ {e},
                         gone |-> purger.gone \cup {e.key}, patch |-> e.patch]
    BY <1>5, <1>u, EvictGoes
  <2>1. /\ purger'.at = "check" /\ purger'.size = purger.size /\ purger'.left = purger.left \ {e}
        /\ purger'.gone = purger.gone \cup {e.key}
    OBVIOUS
  <2>2. files' = files /\ last' = last /\ purger # Idle /\ purger.at \in Evicting
    BY <1>5, <1>i DEF Evict, Evicting
  <2>3. purger'.size = Cardinality(files') /\ purger'.left = entries'  BY <2>1, <2>2, <1>h
  <2>4. \A k \in purger'.gone, o \in entries' : last'[k] <= last'[o.key]  BY <2>1, <2>2, <1>h
  <2> QED  BY <2>1, <2>3, <2>4
<1>6. CASE Check
  <2>1. files' = files /\ last' = last /\ entries' = entries /\ purger # Idle /\ purger.at \in Evicting
    BY <1>6, <1>i DEF Check, Evicting
  <2>2. /\ purger'.size = purger.size /\ purger'.left = purger.left /\ purger'.gone = purger.gone
        /\ purger'.at = "unlink" => ~UsesPatch(purger.patch) /\ purger'.patch = purger.patch
    BY <1>6, CheckGoes
  <2>3. purger'.at = "unlink" => ~UsesPatch(purger.patch)'  BY <2>1, <2>2 DEF UsesPatch
  <2> QED  BY <2>1, <2>2, <2>3, <1>h
<1>7. CASE Unlink
  <2>1. /\ purger'.at = "evict" /\ purger'.left = purger.left /\ purger'.gone = purger.gone
        /\ purger'.size = purger.size - Cardinality(Files(purger.patch))
        /\ files' = files \ Files(purger.patch)
        /\ last' = last /\ entries' = entries /\ purger # Idle /\ purger.at \in Evicting
    BY <1>7, <1>i DEF Unlink, Evicting
  <2>2. purger.patch \in Patches  BY <1>7, PurgerIs DEF Unlink
  <2>3. Cardinality(files') = Cardinality(files) - Cardinality(Files(purger.patch))
    BY <2>1, <2>2, UnlinkSize DEF Agreed
  <2> QED  BY <2>1, <2>3, <1>h
<1>8. CASE PurgeDone \/ PurgeKilled
  BY <1>1, <1>8 DEF PurgeDone, PurgeKilled
<1>9. CASE DaemonKilled \/ UNCHANGED vars
  <2>1. UNCHANGED <<purger, files, entries, last>>  BY <1>9 DEF DaemonKilled, vars
  <2>2. UsesPatch(purger.patch)' = UsesPatch(purger.patch)  BY <2>1 DEF UsesPatch
  <2> QED  BY <2>1, <2>2, <1>h
<1> QED  BY <1>2, <1>3, <1>4, <1>5, <1>6, <1>7, <1>8, <1>9 DEF Next, Purger

-----------------------------------------------------------------------------
(* The files and the table. *)

\* A use changes the age of an entry and nothing else.
LEMMA BumpKeeps ==
  ASSUME TypeOK, Bump
  PROVE  /\ \A e \in entries : \E o \in entries' : o.patch = e.patch
         /\ \A o \in entries' : \E e \in entries : e.patch = o.patch
<1> DEFINE F(e) == IF e.key = worker.key THEN [e EXCEPT !.used = clock] ELSE e
<1>1. entries' = {F(e) : e \in entries}  BY DEF Bump
<1>2. \A e \in entries : F(e).patch = e.patch
  <2> TAKE e \in entries
  <2>1. e \in Entry  BY DEF TypeOK
  <2>2. [e EXCEPT !.used = clock].patch = e.patch  BY <2>1 DEF Entry
  <2> QED  BY <2>2
<1> HIDE DEF F
<1> QED  BY <1>1, <1>2

\* Without an overlap an insertion adds the entry.
LEMMA InsertAdds ==
  ASSUME TypeOK, Looked, Insert, "overlap" \notin upset
  PROVE  \E n : n.patch = worker.made /\ entries' = entries \cup {n}
<1>1. Under(worker.key) = {}  BY DEF Insert, Looked, Storing
<1> DEFINE n == [key |-> worker.key, patch |-> worker.made, used |-> clock]
<1>2. entries' = entries \cup {n}  BY <1>1 DEF Insert
<1>3. n.patch = worker.made  OBVIOUS
<1> HIDE DEF n
<1> QED  BY <1>2, <1>3

\* Unless a process was killed, every file is named, after every step.
LEMMA NamedInductive ==
  ASSUME TypeOK, Single, Turns, Looked, Ages, Named, [Next]_vars
  PROVE  Named'
<1> SUFFICES ASSUME "overlap" \notin upset', "kill" \notin upset', NEW f \in files'
             PROVE  \/ UsesPatch(f.patch)'
                    \/ worker'.at \in {"write", "insert"} /\ worker'.made = f.patch
                    \/ purger'.at \in {"check", "unlink"} /\ purger'.patch = f.patch
  BY DEF Named, UsesPatch
<1>u. "overlap" \notin upset /\ "kill" \notin upset  BY UpsetStays
<1>h. \A g \in files :
        \/ UsesPatch(g.patch)
        \/ worker.at \in {"write", "insert"} /\ worker.made = g.patch
        \/ purger.at \in {"check", "unlink"} /\ purger.patch = g.patch
  BY <1>u DEF Named
<1>e. entries' = entries => \A p : UsesPatch(p) => UsesPatch(p)'  BY DEF UsesPatch
<1>1. CASE \/ \E k \in Keys, p \in Patches : Job(k, p)
           \/ Measure
  <2>1. files' = files /\ entries' = entries
    BY <1>1 DEF Job, Measure
  <2>2. worker.at = "idle" /\ purger.at = "idle"
    <3>1. worker = Idle /\ purger = Idle  BY <1>1 DEF Job, Measure, Overlap
    <3> QED  BY <3>1 DEF Idle
  <2> QED  BY <2>1, <2>2, <1>h, <1>e
<1>2. CASE Look \/ StoreNothing \/ Load \/ RecordCheck
  <2>1. /\ files' = files /\ entries' = entries /\ purger' = purger
        /\ worker.at \notin {"write", "insert"}
    BY <1>2 DEF Look, StoreNothing, Load, RecordCheck
  <2> QED  BY <2>1, <1>h, <1>e
<1>3. CASE OpenPatch \/ WritePatch
  <2>1. /\ entries' = entries /\ purger' = purger /\ worker.at \in {"store", "write"}
        /\ \E q \in {"write", "insert"} : worker' = [worker EXCEPT !.at = q]
    BY <1>3 DEF OpenPatch, WritePatch
  <2>2. worker'.at \in {"write", "insert"} /\ worker'.made = worker.made  BY <2>1, WorkerGoes
  <2>3. \/ f \in files
        \/ \E b \in BOOLEAN : f = [patch |-> worker.made, whole |-> b]
    <3>1. files' \subseteq files \cup {[patch |-> worker.made, whole |-> b] : b \in BOOLEAN}
          \/ files' \subseteq files
      BY FilesStep
    <3> QED  BY <3>1
  <2>4. (\E b \in BOOLEAN : f = [patch |-> worker.made, whole |-> b]) => f.patch = worker'.made
    BY <2>2
  <2> QED  BY <2>1, <2>2, <2>3, <2>4, <1>h, <1>e
<1>4. CASE Insert
  <2>1. files' = files /\ purger' = purger  BY <1>4 DEF Insert
  <2> PICK n : n.patch = worker.made /\ entries' = entries \cup {n}  BY <1>4, <1>u, InsertAdds
  <2>2. \A p : UsesPatch(p) \/ worker.made = p => UsesPatch(p)'  BY DEF UsesPatch
  <2> QED  BY <2>1, <2>2, <1>h
<1>5. CASE Bump
  <2>1. files' = files /\ purger' = purger /\ worker.at = "bump"  BY <1>5 DEF Bump
  <2>2. \A p : UsesPatch(p) => UsesPatch(p)'  BY <1>5, BumpKeeps DEF UsesPatch
  <2> QED  BY <2>1, <2>2, <1>h
<1>6. CASE List \/ PurgeDone
  <2>1. files' = files /\ entries' = entries /\ worker' = worker /\ purger.at \in {"list", "evict"}
    BY <1>6 DEF List, PurgeDone
  <2> QED  BY <2>1, <1>h, <1>e
<1>7. CASE Evict
  <2>1. files' = files /\ worker' = worker /\ purger.at = "evict"  BY <1>7 DEF Evict
  <2> PICK e \in entries :
           /\ entries' = entries \ {e}
           /\ purger' = [at |-> "check", size |-> purger.size, left |-> purger.left \ {e},
                         gone |-> purger.gone \cup {e.key}, patch |-> e.patch]
    BY <1>7, <1>u, EvictGoes
  <2>2. purger'.at = "check" /\ purger'.patch = e.patch  OBVIOUS
  <2>3. \A p : UsesPatch(p) => UsesPatch(p)' \/ p = e.patch  BY DEF UsesPatch
  <2> QED  BY <2>1, <2>2, <2>3, <1>h
<1>8. CASE Check
  <2>1. files' = files /\ entries' = entries /\ worker' = worker  BY <1>8 DEF Check
  <2>2. UsesPatch(purger.patch) \/ (purger'.at = "unlink" /\ purger'.patch = purger.patch)
    BY <1>8, CheckGoes
  <2> QED  BY <2>1, <2>2, <1>h, <1>e
<1>9. CASE Unlink
  <2>1. f \in files /\ f.patch # purger.patch /\ entries' = entries /\ worker' = worker
    BY <1>9 DEF Unlink, Files
  <2> QED  BY <2>1, <1>h, <1>e
<1>10. CASE DaemonKilled \/ PurgeKilled
  BY <1>10 DEF DaemonKilled, PurgeKilled
<1>11. CASE UNCHANGED vars
  <2>1. UNCHANGED <<files, entries, worker, purger>>  BY <1>11 DEF vars
  <2> QED  BY <2>1, <1>h, <1>e
<1> QED  BY <1>1, <1>2, <1>3, <1>4, <1>5, <1>6, <1>7, <1>8, <1>9, <1>10, <1>11 DEF Next, Worker, Purger

-----------------------------------------------------------------------------
(* While nothing goes wrong. *)

\* A whole file of a patch is the whole patch.
LEMMA WholeIs ==
  ASSUME TypeOK, NEW f \in files, f.whole
  PROVE  Whole(f.patch)
<1>1. f \in [patch : Patches, whole : BOOLEAN]  BY DEF TypeOK
<1>2. f = [patch |-> f.patch, whole |-> f.whole] /\ f.whole = TRUE  BY <1>1
<1>3. f = [patch |-> f.patch, whole |-> TRUE]  BY <1>2
<1> QED  BY <1>3 DEF Whole

\* Without a failure, every entry has its whole patch after every step.
LEMMA WholeInductive ==
  ASSUME TypeOK, Single, Turns, Looked, Ages, Sound, [Next]_vars, upset' = {}
  PROVE  /\ \A e \in entries' : Whole(e.patch)'
         /\ \A f \in files' : f.whole \/ (worker'.at = "write" /\ worker'.made = f.patch)
         /\ worker'.at = "insert" => Whole(worker.made)'
<1>u. upset = {} /\ "overlap" \notin upset  BY UpsetStays
<1>h. /\ \A e \in entries : Whole(e.patch)
      /\ \A f \in files : f.whole \/ (worker.at = "write" /\ worker.made = f.patch)
      /\ worker.at = "insert" => Whole(worker.made)
  BY <1>u DEF Sound
<1> DEFINE Goal == /\ \A e \in entries' : Whole(e.patch)'
                   /\ \A f \in files' : f.whole \/ (worker'.at = "write" /\ worker'.made = f.patch)
                   /\ worker'.at = "insert" => Whole(worker.made)'
<1>s. files' = files => \A p : Whole(p) => Whole(p)'  BY DEF Whole
<1>1. CASE (\E k \in Keys, p \in Patches : Job(k, p)) \/ Look \/ Load \/ RecordCheck
  <2>1. files' = files /\ entries' = entries /\ worker.at # "write"
    BY <1>1 DEF Job, Look, Load, RecordCheck, Idle
  <2>2. worker'.at # "insert"
    <3>1. CASE \E k \in Keys, p \in Patches : Job(k, p)
      BY <3>1 DEF Job
    <3>2. CASE Look \/ Load \/ RecordCheck
      <4>1. worker.at # "idle"  BY <3>2 DEF Look, Load, RecordCheck
      <4>2. \/ \E q \in {"store", "agree", "disagree", "bump"} : worker' = [worker EXCEPT !.at = q]
            \/ \E e \in entries : worker' = [at |-> "load", key |-> e.key, made |-> worker.made, stored |-> e.patch]
        BY <3>2 DEF Look, Load, RecordCheck, Under
      <4>3. worker'.at \in {"store", "agree", "disagree", "bump", "load"}  BY <4>1, <4>2, WorkerGoes
      <4> QED  BY <4>3
    <3> QED  BY <1>1, <3>1, <3>2
  <2> QED  BY <2>1, <2>2, <1>h, <1>s
<1>2. CASE StoreNothing
  <2>1. /\ files' = files /\ entries' = entries /\ worker.at = "store"
        /\ worker' = [worker EXCEPT !.at = "insert"]
    BY <1>2 DEF StoreNothing
  <2>2. worker'.at = "insert" /\ worker'.made = worker.made  BY <2>1, WorkerGoes
  <2> PICK f \in Files(worker.made) : TRUE  BY <1>2, <1>u DEF StoreNothing
  <2>3. f \in files /\ f.patch = worker.made  BY DEF Files
  <2>4. f.whole  BY <2>1, <2>3, <1>h
  <2>5. Whole(worker.made)  BY <2>3, <2>4, WholeIs
  <2>6. Whole(worker.made)'  BY <2>1, <2>2, <2>5 DEF Whole
  <2> QED  BY <2>1, <2>6, <1>h, <1>s
<1>3. CASE OpenPatch
  <2>1. /\ entries' = entries /\ worker.at = "store" /\ worker' = [worker EXCEPT !.at = "write"]
        /\ files' = files \cup {[patch |-> worker.made, whole |-> FALSE]}
    BY <1>3 DEF OpenPatch
  <2>2. worker'.at = "write" /\ worker'.made = worker.made  BY <2>1, WorkerGoes
  <2>3. \A p : Whole(p) => Whole(p)'  BY <2>1 DEF Whole
  <2>4. \A f \in files : f.whole  BY <2>1, <1>h
  <2>5. [patch |-> worker.made, whole |-> FALSE].patch = worker'.made  BY <2>2
  <2> QED  BY <2>1, <2>2, <2>3, <2>4, <2>5, <1>h
<1>4. CASE WritePatch
  <2>1. /\ entries' = entries /\ worker.at = "write" /\ worker' = [worker EXCEPT !.at = "insert"]
    BY <1>4 DEF WritePatch
  <2>2. worker'.at = "insert" /\ worker'.made = worker.made  BY <2>1, WorkerGoes
  <2> DEFINE n == [patch |-> worker.made, whole |-> TRUE]
  <2>3. files' = (files \ Files(worker.made)) \cup {n : f \in Files(worker.made)}
    <3>1. files' = (files \ Files(worker.made)) \cup
                    {[f EXCEPT !.whole = TRUE] : f \in Files(worker.made)}
      BY <1>4, <1>u DEF WritePatch
    <3>2. \A f \in Files(worker.made) : [f EXCEPT !.whole = TRUE] = n
      BY FileWritten
    <3> HIDE DEF n
    <3> QED  BY <3>1, <3>2
  <2>4. Files(worker.made) # {}  BY <2>1, <1>u DEF Looked
  <2>5. n.patch = worker.made /\ n.whole  OBVIOUS
  <2> HIDE DEF n
  <2>6. n \in files'  BY <2>3, <2>4
  <2>7. \A p : Whole(p) => Whole(p)'
    <3> TAKE p
    <3>1. CASE p = worker.made  BY <2>6, <3>1 DEF Whole, n
    <3>2. CASE p # worker.made
      <4>1. [patch |-> p, whole |-> TRUE] \notin Files(worker.made)  BY <3>2 DEF Files
      <4> QED  BY <2>3, <4>1 DEF Whole
    <3> QED  BY <3>1, <3>2
  <2>8. \A f \in files' : f.whole
    <3> TAKE f \in files'
    <3>1. CASE f = n  BY <2>5, <3>1
    <3>2. CASE f \in files /\ f \notin Files(worker.made)
      <4>1. f.patch # worker.made  BY <3>2 DEF Files
      <4> QED  BY <3>2, <4>1, <1>h
    <3> QED  BY <2>3, <3>1, <3>2
  <2>9. Whole(worker.made)'  BY <2>2, <2>6 DEF Whole, n
  <2> QED  BY <2>1, <2>7, <2>8, <2>9, <1>h
<1>5. CASE Insert
  <2>1. files' = files /\ worker.at = "insert" /\ worker'.at = "idle"  BY <1>5 DEF Insert, Idle
  <2> PICK n : n.patch = worker.made /\ entries' = entries \cup {n}  BY <1>5, <1>u, InsertAdds
  <2>2. \A e \in entries' : Whole(e.patch)'  BY <2>1, <1>h, <1>s
  <2> QED  BY <2>1, <2>2, <1>h
<1>6. CASE Bump
  <2>1. files' = files /\ worker.at = "bump" /\ worker'.at = "idle"  BY <1>6 DEF Bump, Idle
  <2>2. \A o \in entries' : \E e \in entries : e.patch = o.patch  BY <1>6, BumpKeeps
  <2>3. \A e \in entries' : Whole(e.patch)'  BY <2>1, <2>2, <1>h, <1>s
  <2> QED  BY <2>1, <2>3, <1>h
<1>7. CASE Unlink
  <2>1. files' = files \ Files(purger.patch) /\ entries' = entries /\ worker' = worker /\ purger.at = "unlink"
    BY <1>7 DEF Unlink
  <2>2. worker.at = "idle" /\ ~UsesPatch(purger.patch)  BY <2>1, <1>u, OneAtWork DEF Ages
  <2>3. \A e \in entries : Whole(e.patch)'
    <3> TAKE e \in entries
    <3>1. e.patch # purger.patch  BY <2>2 DEF UsesPatch
    <3>2. [patch |-> e.patch, whole |-> TRUE] \notin Files(purger.patch)  BY <3>1 DEF Files
    <3> QED  BY <2>1, <3>2, <1>h DEF Whole
  <2> QED  BY <2>1, <2>2, <2>3, <1>h
<1>8. CASE Measure \/ List \/ Evict \/ Check \/ PurgeDone \/ UNCHANGED vars
  <2>1. files' = files /\ entries' \subseteq entries /\ worker' = worker
    BY <1>8 DEF Measure, List, Evict, Check, PurgeDone, vars
  <2>2. worker'.at = "insert" => Whole(worker.made)'  BY <2>1, <1>h DEF Whole
  <2> QED  BY <2>1, <2>2, <1>h, <1>s
<1>9. CASE DaemonKilled \/ PurgeKilled
  BY <1>9 DEF DaemonKilled, PurgeKilled
<1> QED  BY <1>1, <1>2, <1>3, <1>4, <1>5, <1>6, <1>7, <1>8, <1>9 DEF Next, Worker, Purger

\* Without a failure, a disagreement is one, after every step.
LEMMA DisagreementInductive ==
  ASSUME TypeOK, Looked, Sound, [Next]_vars, upset' = {}
  PROVE  /\ worker'.at = "disagree" => worker'.stored # worker'.made
         /\ \A c \in checks' : ~c.agreed => c.stored # c.made
<1>u. upset = {} /\ "overlap" \notin upset  BY UpsetStays
<1>h. /\ \A e \in entries : Whole(e.patch)
      /\ worker.at = "disagree" => worker.stored # worker.made
      /\ \A c \in checks : ~c.agreed => c.stored # c.made
  BY <1>u DEF Sound
<1>1. worker'.at = "disagree" => worker'.stored # worker'.made
  <2>1. CASE Load
    <3>1. /\ worker.at = "load"
          /\ worker = [at |-> worker.at, key |-> worker.key, made |-> worker.made, stored |-> worker.stored]
      BY <2>1, WorkerIs DEF Load, Comparing
    <3>2. Whole(worker.stored)
      <4>1. worker.at \in Comparing  BY <3>1 DEF Comparing
      <4>2. PICK e \in entries : e.key = worker.key /\ e.patch = worker.stored  BY <4>1, <1>u DEF Looked
      <4> QED  BY <4>2, <1>h
    <3>3. worker'.stored = worker.stored /\ worker'.made = worker.made
          /\ (worker'.at = "disagree" => worker.stored # worker.made)
      BY <2>1, <3>1, <3>2 DEF Load
    <3> QED  BY <3>3
  <2>2. CASE worker' = worker  BY <2>2, <1>h
  <2>3. CASE Measure \/ Purger \/ PurgeKilled \/ UNCHANGED vars
    BY <2>2, <2>3 DEF Measure, Purger, List, Evict, Check, Unlink, PurgeDone, PurgeKilled, vars
  <2>4. CASE (\E k \in Keys, p \in Patches : Job(k, p)) \/ Insert \/ Bump \/ DaemonKilled
    BY <2>4 DEF Job, Insert, Bump, DaemonKilled, Idle
  <2>5. CASE Look \/ StoreNothing \/ OpenPatch \/ WritePatch \/ RecordCheck
    <3>1. worker.at # "idle"
      BY <2>5 DEF Look, StoreNothing, OpenPatch, WritePatch, RecordCheck
    <3>2. \/ \E q \in {"store", "write", "insert", "bump"} : worker' = [worker EXCEPT !.at = q]
          \/ \E e \in entries : worker' = [at |-> "load", key |-> e.key, made |-> worker.made, stored |-> e.patch]
      BY <2>5 DEF Look, StoreNothing, OpenPatch, WritePatch, RecordCheck, Under
    <3>3. worker'.at # "disagree"  BY <3>1, <3>2, WorkerGoes
    <3> QED  BY <3>3
  <2> QED  BY <2>1, <2>3, <2>4, <2>5 DEF Next, Worker
<1>2. \A c \in checks' : ~c.agreed => c.stored # c.made
  <2>1. CASE checks' = checks  BY <2>1, <1>h
  <2>2. CASE RecordCheck
    <3>1. worker.at = "agree" \/ worker.stored # worker.made  BY <2>2, <1>h DEF RecordCheck
    <3>2. checks' = checks \cup {[agreed |-> worker.at = "agree", stored |-> worker.stored, made |-> worker.made]}
      BY <2>2 DEF RecordCheck
    <3> DEFINE n == [agreed |-> worker.at = "agree", stored |-> worker.stored, made |-> worker.made]
    <3>4. n.stored = worker.stored /\ n.made = worker.made  OBVIOUS
    <3>5. n.agreed = (worker.at = "agree")  OBVIOUS
    <3>6. checks' = checks \cup {n}  BY <3>2
    <3> HIDE DEF n
    <3>7. ~n.agreed => n.stored # n.made  BY <3>1, <3>4, <3>5, Zenon
    <3> QED  BY <1>h, <3>6, <3>7
  <2>3. ~RecordCheck => checks' = checks
    BY DEF Next, Worker, Purger, Job, Look, StoreNothing, OpenPatch, WritePatch, Insert, Load, Bump,
         Measure, List, Evict, Check, Unlink, PurgeDone, DaemonKilled, PurgeKilled, vars
  <2> QED  BY <2>1, <2>2, <2>3
<1> QED  BY <1>1, <1>2

\* Without a failure entries, files and disagreements are sound, after every step.
LEMMA SoundInductive ==
  ASSUME TypeOK, Single, Turns, Looked, Ages, Sound, [Next]_vars
  PROVE  Sound'
<1> SUFFICES ASSUME upset' = {}
             PROVE  /\ \A e \in entries' : Whole(e.patch)'
                    /\ \A f \in files' : f.whole \/ (worker'.at = "write" /\ worker'.made = f.patch)
                    /\ worker'.at = "insert" => Whole(worker.made)'
                    /\ worker'.at = "disagree" => worker'.stored # worker'.made
                    /\ \A c \in checks' : ~c.agreed => c.stored # c.made
  BY DEF Sound
<1>1. /\ \A e \in entries' : Whole(e.patch)'
      /\ \A f \in files' : f.whole \/ (worker'.at = "write" /\ worker'.made = f.patch)
      /\ worker'.at = "insert" => Whole(worker.made)'
  BY WholeInductive
<1>2. /\ worker'.at = "disagree" => worker'.stored # worker'.made
      /\ \A c \in checks' : ~c.agreed => c.stored # c.made
  BY DisagreementInductive
<1> QED  BY <1>1, <1>2

\* A purge that ran to its end keeps the cap and what was used last, after every step.
LEMMA PurgedInductive ==
  ASSUME TypeOK, Single, Agreed, Turns, Looked, Ages, Named, Purged, [Next]_vars
  PROVE  Purged'
<1> SUFFICES ASSUME "overlap" \notin upset', purged'.done
             PROVE  /\ "kill" \notin upset' => Cardinality(files') <= MaxFiles
                    /\ \A k \in purged'.gone, e \in entries' : last'[k] <= last'[e.key]
  BY DEF Purged
<1>u. "overlap" \notin upset /\ ("kill" \notin upset' => "kill" \notin upset)  BY UpsetStays
<1>n. ~NotPurged.done  BY DEF NotPurged
<1>1. CASE (\E k \in Keys, p \in Patches : Job(k, p)) \/ Measure
  <2>1. purged' = NotPurged  BY <1>1 DEF Job, Measure
  <2> QED  BY <2>1, <1>n
<1>2. CASE Worker
  <2>1. worker.at # "idle" /\ purged' = purged
    BY <1>2 DEF Worker, Look, StoreNothing, OpenPatch, WritePatch, Insert, Load, RecordCheck, Bump
  <2> QED  BY <2>1, <1>u, OneAtWork
<1>3. CASE List \/ Evict \/ Check \/ Unlink
  <2>1. purger.at # "idle" /\ purged' = purged  BY <1>3 DEF List, Evict, Check, Unlink
  <2> QED  BY <2>1, <1>u, OneAtWork
<1>4. CASE PurgeDone
  <2>1. /\ purger.at = "evict" /\ purger.at \in Evicting
        /\ purger.size <= MaxFiles \/ purger.left = {}
        /\ purged'.gone = purger.gone
        /\ UNCHANGED <<entries, files, last, upset>>
    BY <1>4 DEF PurgeDone, Evicting
  <2>2. /\ purger.size = Cardinality(files) /\ purger.left = entries
        /\ \A k \in purger.gone, e \in entries : last[k] <= last[e.key]
    BY <2>1, <1>u, PurgerIs DEF Ages
  <2>3. ASSUME "kill" \notin upset', entries = {}  PROVE files = {}
    <3>1. worker.at = "idle"  BY <2>1, <1>u, OneAtWork
    <3> QED  BY <2>1, <2>3, <3>1, <1>u DEF Named, UsesPatch
  <2>4. ASSUME "kill" \notin upset'  PROVE Cardinality(files) <= MaxFiles
    <3>1. CASE purger.size <= MaxFiles  BY <3>1, <2>2
    <3>2. CASE purger.left = {}
      <4>1. Cardinality(files) = 0  BY <2>2, <2>3, <2>4, <3>2, FS_EmptySet
      <4> QED  BY <4>1, VaultAssumption
    <3> QED  BY <2>1, <3>1, <3>2
  <2> QED  BY <2>1, <2>2, <2>4
<1>5. CASE DaemonKilled \/ PurgeKilled \/ UNCHANGED vars
  <2>1. UNCHANGED <<entries, files, last, purged>>  BY <1>5 DEF DaemonKilled, PurgeKilled, vars
  <2> QED  BY <2>1, <1>u DEF Purged
<1> QED  BY <1>1, <1>2, <1>3, <1>4, <1>5 DEF Next, Purger

-----------------------------------------------------------------------------
(* The theorems. *)

\* The invariant holds at the start.
LEMMA Initial ==
  ASSUME Init
  PROVE  IInv
<1>1. TypeOK
  BY VaultAssumption DEF Init, TypeOK, Entry, Upsets
<1>2. Idle.at = "idle" /\ ~NotPurged.done  BY DEF Idle, NotPurged
<1>3. Single /\ Turns /\ Named /\ Sound /\ Purged
  BY <1>2 DEF Init, Single, Turns, Named, Sound, Purged
<1>4. Agreed  BY <1>2, FS_EmptySet DEF Init, Agreed
<1>5. Looked /\ Ages
  BY <1>2 DEF Init, Looked, Ages, Storing, Comparing, Evicting
<1> QED  BY <1>1, <1>3, <1>4, <1>5 DEF IInv

\* The invariant is inductive, for any keys, patches and bounds.
THEOREM Invariant == Spec => []IInv
<1>1. Init => IInv  BY Initial
<1>2. ASSUME IInv, [Next]_vars  PROVE IInv'
  <2>1. TypeOK /\ Single /\ Agreed /\ Turns /\ Looked /\ Ages /\ Named /\ Sound /\ Purged
    BY <1>2 DEF IInv
  <2>2. TypeOK' /\ Single' /\ Agreed'
    BY <1>2, <2>1, TypeInductive, SingleInductive, AgreedInductive
  <2>3. Turns' /\ Looked' /\ Ages'
    BY <1>2, <2>1, TurnsInductive, LookedInductive, AgesInductive
  <2>4. Named' /\ Sound' /\ Purged'
    BY <1>2, <2>1, NamedInductive, SoundInductive, PurgedInductive
  <2> QED  BY <2>2, <2>3, <2>4 DEF IInv
<1> QED  BY <1>1, <1>2, PTL DEF Spec

\* The variables have their types.
THEOREM TypeCorrect == Spec => []TypeOK
<1>1. IInv => TypeOK  BY DEF IInv
<1> QED  BY <1>1, Invariant, PTL

\* An agreement is never reported for another patch, and while nothing went wrong a
\* disagreement means that the patches differ.
THEOREM ChecksAreReal == Spec => []EvidenceIsReal
<1>1. IInv => EvidenceIsReal
  <2> SUFFICES ASSUME IInv  PROVE EvidenceIsReal  OBVIOUS
  <2>1. \A c \in checks : c.agreed => c.stored = c.made  BY DEF IInv, Agreed
  <2>2. Never(Upsets) => upset = {}  BY DEF Never, IInv, TypeOK
  <2>3. upset = {} => \A c \in checks : ~c.agreed => c.stored # c.made  BY DEF IInv, Sound
  <2> QED  BY <2>1, <2>2, <2>3 DEF EvidenceIsReal
<1> QED  BY <1>1, Invariant, PTL

\* At rest, and undisturbed, the files are those of the entries, each whole.
THEOREM TableAndFilesAgree == Spec => []Consistent
<1>1. IInv => Consistent
  <2> SUFFICES ASSUME IInv, worker = Idle, purger = Idle, Never(Upsets)
               PROVE  files = {[patch |-> e.patch, whole |-> TRUE] : e \in entries}
    BY DEF Consistent
  <2>1. upset = {}  BY DEF Never, IInv, TypeOK
  <2>2. worker.at = "idle" /\ purger.at = "idle"  BY DEF Idle
  <2>3. \A e \in entries : [patch |-> e.patch, whole |-> TRUE] \in files
    BY <2>1 DEF IInv, Sound, Whole
  <2>4. ASSUME NEW f \in files
        PROVE  \E e \in entries : f = [patch |-> e.patch, whole |-> TRUE]
    <3>1. PICK e \in entries : e.patch = f.patch
      BY <2>1, <2>2 DEF IInv, Named, UsesPatch
    <3>2. f.whole  BY <2>1, <2>2 DEF IInv, Sound
    <3>3. f \in [patch : Patches, whole : BOOLEAN]  BY DEF IInv, TypeOK
    <3>4. f = [patch |-> f.patch, whole |-> f.whole] /\ f.whole = TRUE  BY <3>2, <3>3
    <3>5. f = [patch |-> e.patch, whole |-> TRUE]  BY <3>1, <3>4
    <3> QED  BY <3>5
  <2> QED  BY <2>3, <2>4
<1> QED  BY <1>1, Invariant, PTL

\* A purge that ran to its end kept the cap, and what it removed was not used after
\* anything it kept.
THEOREM PurgesAreLRU == Spec => []PurgeIsLRU
<1>1. IInv => PurgeIsLRU
  <2> SUFFICES ASSUME IInv  PROVE PurgeIsLRU  OBVIOUS
  <2>1. Never({"overlap"}) => "overlap" \notin upset  BY DEF Never
  <2>2. Never({"kill"}) => "kill" \notin upset  BY DEF Never
  <2> QED  BY <2>1, <2>2 DEF PurgeIsLRU, IInv, Purged
<1> QED  BY <1>1, Invariant, PTL

-----------------------------------------------------------------------------
(* The clamp's interval arithmetic. *)

\* The lines that intervals cover.
Covers(ivs) == UNION {r[1]..r[2] : r \in ivs}

\* Lines are finitely many integers.
LEMMA LinesFinite == IsFiniteSet(Lines) /\ IsFiniteSet(Interval) /\ Lines \in SUBSET Int /\ Lines \in SUBSET Nat
<1>1. MaxLine \in Nat  BY ClampAssumption
<1>2. IsFiniteSet(Lines)  BY <1>1, FS_Interval DEF Lines
<1>3. IsFiniteSet(Interval)  BY <1>2, FS_Product DEF Interval
<1> QED  BY <1>1, <1>2, <1>3 DEF Lines

\* A finite set of integers has a least and a greatest element.
LEMMA LeastAndMost ==
  ASSUME NEW S \in SUBSET Int, IsFiniteSet(S), S # {}
  PROVE  /\ LeastOf(S) \in S /\ \A y \in S : LeastOf(S) <= y
         /\ MostOf(S) \in S /\ \A y \in S : MostOf(S) >= y
<1>1. \E x \in S : \A y \in S : x >= y  BY LargestExists
<1>2. \E x \in S : \A y \in S : x <= y  BY SmallestExists
<1> QED  BY <1>1, <1>2 DEF LeastOf, MostOf

\* So have two of them.
LEMMA LeastOfTwo ==
  ASSUME NEW i \in Int, NEW j \in Int
  PROVE  /\ LeastOf({i, j}) = IF i <= j THEN i ELSE j
         /\ MostOf({i, j}) = IF i >= j THEN i ELSE j
<1> DEFINE S == {i, j}
<1>1. IsFiniteSet(S)
  <2>1. IsFiniteSet({i}) /\ IsFiniteSet({j})  BY FS_Singleton
  <2>2. S = {i} \cup {j}  OBVIOUS
  <2> HIDE DEF S
  <2> QED  BY <2>1, <2>2, FS_Union
<1>2. S \in SUBSET Int /\ S # {} /\ i \in S /\ j \in S /\ \A x \in S : x = i \/ x = j  OBVIOUS
<1> HIDE DEF S
<1>3. /\ LeastOf(S) \in S /\ LeastOf(S) <= i /\ LeastOf(S) <= j
      /\ MostOf(S) \in S /\ MostOf(S) >= i /\ MostOf(S) >= j
  BY <1>1, <1>2, LeastAndMost
<1>4. LeastOf(S) \in Int /\ MostOf(S) \in Int  BY <1>2, <1>3
<1>5. LeastOf(S) = (IF i <= j THEN i ELSE j) /\ MostOf(S) = (IF i >= j THEN i ELSE j)
  BY <1>2, <1>3, <1>4
<1> QED  BY <1>5 DEF S

\* The last of some intervals is one of them, and no other comes after it.
LEMMA LatestIs ==
  ASSUME NEW s \in SUBSET Interval, s # {}
  PROVE  Latest(s) \in s /\ \A j \in s : j[1] <= Latest(s)[1]
<1>1. IsFiniteSet(s) /\ \A i \in s : i = <<i[1], i[2]>> /\ i[1] \in Int /\ i[2] \in Int
  <2>1. IsFiniteSet(s)  BY LinesFinite, FS_Subset
  <2>2. \A i \in s : i = <<i[1], i[2]>> /\ i[1] \in Lines /\ i[2] \in Lines  BY DEF Interval
  <2> QED  BY <2>1, <2>2, LinesFinite
<1> DEFINE F == {i[1] : i \in s}
<1>2. IsFiniteSet(F)
  <2> DEFINE f == [i \in s |-> i[1]]
  <2>1. DOMAIN f = s /\ F = {f[i] : i \in s}  OBVIOUS
  <2> HIDE DEF f, F
  <2> QED  BY <1>1, <2>1, ImageFinite
<1>3. F \in SUBSET Int /\ F # {}  BY <1>1
<1> HIDE DEF F
<1>4. PICK x \in F : \A y \in F : x >= y  BY <1>2, <1>3, LargestExists
<1> DEFINE t == {i \in s : i[1] = x}
           G == {i[2] : i \in t}
<1>5. IsFiniteSet(G)
  <2>1. IsFiniteSet(t)
    <3>1. t \subseteq s  OBVIOUS
    <3> HIDE DEF t
    <3> QED  BY <1>1, <3>1, FS_Subset
  <2> DEFINE f == [i \in t |-> i[2]]
  <2>2. DOMAIN f = t /\ G = {f[i] : i \in t}  OBVIOUS
  <2> HIDE DEF f, G, t
  <2> QED  BY <2>1, <2>2, ImageFinite
<1>6. G \in SUBSET Int /\ G # {}  BY <1>1 DEF F
<1> HIDE DEF G
<1>7. PICK z \in G : \A y \in G : z >= y  BY <1>5, <1>6, LargestExists
<1>8. PICK i \in s : i[1] = x /\ i[2] = z  BY DEF G
<1>9. ASSUME NEW j \in s \ {i} PROVE Earlier(j, i)
  <2>1. j[1] \in F /\ j[1] \in Int /\ x \in Int  BY <1>1, <1>3 DEF F
  <2>2. j[1] <= x  BY <1>4, <2>1
  <2>3. CASE j[1] < x  BY <1>8, <2>3 DEF Earlier
  <2>4. CASE j[1] = x
    <3>1. j[2] \in G  BY <2>4 DEF G
    <3>2. j[2] <= z /\ j[2] \in Int /\ z \in Int  BY <1>1, <1>6, <1>7, <3>1
    <3>3. j[2] # z  BY <1>1, <1>8, <1>9, <2>4
    <3> QED  BY <1>8, <2>4, <3>2, <3>3 DEF Earlier
  <2> QED  BY <2>1, <2>2, <2>3, <2>4
<1>10. Latest(s) \in s /\ \A j \in s \ {Latest(s)} : Earlier(j, Latest(s))
  BY <1>9 DEF Latest
<1> DEFINE l == Latest(s)
<1> HIDE DEF l
<1>11. l \in s /\ \A j \in s \ {l} : Earlier(j, l)  BY <1>10 DEF l
<1>12. ASSUME NEW j \in s PROVE j[1] <= l[1]
  <2>1. j[1] \in Int /\ l[1] \in Int  BY <1>1, <1>11
  <2>2. CASE j = l  BY <2>1, <2>2
  <2>3. CASE j # l  BY <1>11, <2>1, <2>3 DEF Earlier
  <2> QED  BY <2>2, <2>3
<1> QED  BY <1>11, <1>12 DEF l

\* What a list of merged intervals stands for: they cover the same lines, leave a gap
\* between each other, and begin where one of the intervals begins.
Stands(acc, ivs) ==
  /\ acc \in Seq(Interval)
  /\ \A x \in Lines : (\E r \in ivs : r[1] <= x /\ x <= r[2])
                        <=> (\E k \in 1..Len(acc) : acc[k][1] <= x /\ x <= acc[k][2])
  /\ \A j, k \in 1..Len(acc) : j < k => acc[j][2] + 1 < acc[k][1]
  /\ \A k \in 1..Len(acc) : \E r \in ivs : acc[k][1] = r[1]

\* A merged list stays a list of intervals.
LEMMA JoinType ==
  ASSUME NEW acc \in Seq(Interval), NEW iv \in Interval
  PROVE  /\ Join(acc, iv) \in Seq(Interval)
         /\ CASE acc # <<>> /\ iv[1] <= acc[Len(acc)][2] + 1 ->
                   /\ Len(acc) > 0 /\ Len(Join(acc, iv)) = Len(acc)
                   /\ \A k \in 1..(Len(acc) - 1) : Join(acc, iv)[k] = acc[k]
                   /\ Join(acc, iv)[Len(acc)][1] = acc[Len(acc)][1]
                   /\ Join(acc, iv)[Len(acc)][2]
                        = IF acc[Len(acc)][2] >= iv[2] THEN acc[Len(acc)][2] ELSE iv[2]
              [] OTHER ->
                   /\ Len(Join(acc, iv)) = Len(acc) + 1
                   /\ \A k \in 1..Len(acc) : Join(acc, iv)[k] = acc[k]
                   /\ Join(acc, iv)[Len(acc) + 1] = iv
<1> DEFINE n == Len(acc)
<1>0. n \in Nat /\ iv[1] \in Lines /\ iv[2] \in Lines /\ iv = <<iv[1], iv[2]>>
  BY DEF Interval
<1>1. CASE acc # <<>> /\ iv[1] <= acc[n][2] + 1
  <2> DEFINE m == MostOf({acc[n][2], iv[2]})
  <2>1. n > 0 /\ n \in 1..n /\ acc[n] \in Interval  BY <1>1, EmptySeq
  <2>2. acc[n][1] \in Lines /\ acc[n][2] \in Lines  BY <2>1 DEF Interval
  <2>3. m = IF acc[n][2] >= iv[2] THEN acc[n][2] ELSE iv[2]
    <3>1. acc[n][2] \in Int /\ iv[2] \in Int  BY <1>0, <2>2, LinesFinite
    <3> HIDE DEF n
    <3> QED  BY <3>1, LeastOfTwo
  <2>4. m \in Lines  BY <1>0, <2>2, <2>3
  <2>5. Join(acc, iv) = [acc EXCEPT ![n] = <<acc[n][1], m>>]  BY <1>1 DEF Join, Extended
  <2> HIDE DEF m
  <2>6. <<acc[n][1], m>> \in Interval  BY <2>2, <2>4 DEF Interval
  <2>7. Join(acc, iv) \in Seq(Interval) /\ Len(Join(acc, iv)) = n  BY <2>1, <2>5, <2>6
  <2>8. Join(acc, iv)[n] = <<acc[n][1], m>>  BY <2>1, <2>5
  <2>9. \A k \in 1..(n - 1) : Join(acc, iv)[k] = acc[k]  BY <2>1, <2>5
  <2> QED  BY <1>1, <2>1, <2>3, <2>7, <2>8, <2>9
<1>2. CASE ~(acc # <<>> /\ iv[1] <= acc[n][2] + 1)
  <2>1. Join(acc, iv) = Append(acc, iv)  BY <1>2 DEF Join
  <2>2. /\ Join(acc, iv) \in Seq(Interval) /\ Len(Join(acc, iv)) = n + 1
        /\ (\A k \in 1..n : Join(acc, iv)[k] = acc[k]) /\ Join(acc, iv)[n + 1] = iv
    BY <2>1, AppendProperties
  <2> QED  BY <1>2, <2>2
<1> QED  BY <1>1, <1>2

\* Joining the next of the intervals in their order.
LEMMA JoinStands ==
  ASSUME NEW s \in SUBSET Interval, NEW iv \in s, \A j \in s : j[1] <= iv[1],
         NEW acc, Stands(acc, s \ {iv})
  PROVE  Stands(Join(acc, iv), s)
<1> DEFINE n == Len(acc)
           J == Join(acc, iv)
<1>0. /\ iv \in Interval /\ acc \in Seq(Interval) /\ n \in Nat
      /\ \A r \in s : r[1] \in Lines /\ r[2] \in Lines
      /\ \A k \in 1..n : acc[k][1] \in Lines /\ acc[k][2] \in Lines
  BY DEF Stands, Interval
<1>1. /\ \A x \in Lines : (\E r \in s \ {iv} : r[1] <= x /\ x <= r[2])
                            <=> (\E k \in 1..n : acc[k][1] <= x /\ x <= acc[k][2])
      /\ \A j, k \in 1..n : j < k => acc[j][2] + 1 < acc[k][1]
      /\ \A k \in 1..n : \E r \in s \ {iv} : acc[k][1] = r[1]
  BY DEF Stands
<1>2. \A k \in 1..n : acc[k][1] <= iv[1]  BY <1>1
<1>3. \A x \in Lines : (\E r \in s : r[1] <= x /\ x <= r[2])
                         <=> (iv[1] <= x /\ x <= iv[2]) \/ \E k \in 1..n : acc[k][1] <= x /\ x <= acc[k][2]
  BY <1>1
<1>4. J \in Seq(Interval)  BY <1>0, JoinType
<1>5. CASE acc # <<>> /\ iv[1] <= acc[n][2] + 1
  <2>1. /\ n > 0 /\ Len(J) = n
        /\ \A k \in 1..(n - 1) : J[k] = acc[k]
        /\ J[n][1] = acc[n][1]
        /\ J[n][2] = IF acc[n][2] >= iv[2] THEN acc[n][2] ELSE iv[2]
    BY <1>0, <1>5, JoinType
  <2> HIDE DEF J
  <2>2. n \in 1..n /\ \A k \in 1..n : k \in 1..(n - 1) \/ k = n  BY <1>0, <2>1
  <2>3. acc[n][1] \in Int /\ acc[n][2] \in Int /\ iv[1] \in Int /\ iv[2] \in Int /\ acc[n][1] <= iv[1]
    BY <1>0, <1>2, <2>2, LinesFinite
  <2>4. ASSUME NEW x \in Lines
        PROVE  J[n][1] <= x /\ x <= J[n][2]
                 <=> (iv[1] <= x /\ x <= iv[2]) \/ (acc[n][1] <= x /\ x <= acc[n][2])
    <3>1. x \in Int  BY LinesFinite
    <3> QED  BY <1>5, <2>1, <2>3, <3>1
  <2>5. \A x \in Lines : (\E k \in 1..n : J[k][1] <= x /\ x <= J[k][2])
          <=> (iv[1] <= x /\ x <= iv[2]) \/ \E k \in 1..n : acc[k][1] <= x /\ x <= acc[k][2]
    <3> SUFFICES ASSUME NEW x \in Lines
                 PROVE  (\E k \in 1..n : J[k][1] <= x /\ x <= J[k][2])
                   <=> (iv[1] <= x /\ x <= iv[2]) \/ \E k \in 1..n : acc[k][1] <= x /\ x <= acc[k][2]
      OBVIOUS
    <3>1. (\E k \in 1..n : J[k][1] <= x /\ x <= J[k][2])
            <=> (J[n][1] <= x /\ x <= J[n][2]) \/ \E k \in 1..(n - 1) : acc[k][1] <= x /\ x <= acc[k][2]
      <4>1. \A k \in 1..(n - 1) : k \in 1..n  BY <1>0
      <4> HIDE DEF n
      <4> QED  BY <2>1, <2>2, <4>1
    <3>2. (\E k \in 1..n : acc[k][1] <= x /\ x <= acc[k][2])
            <=> (acc[n][1] <= x /\ x <= acc[n][2]) \/ \E k \in 1..(n - 1) : acc[k][1] <= x /\ x <= acc[k][2]
      <4>1. \A k \in 1..(n - 1) : k \in 1..n  BY <1>0
      <4> HIDE DEF n
      <4> QED  BY <2>2, <4>1
    <3> QED  BY <2>4, <3>1, <3>2
  <2>6. ASSUME NEW j \in 1..n, NEW k \in 1..n, j < k PROVE J[j][2] + 1 < J[k][1]
    <3>1. j \in 1..(n - 1)  BY <1>0, <2>6
    <3>2. J[k][1] = acc[k][1]  BY <2>1, <2>2
    <3> QED  BY <1>1, <2>1, <2>6, <3>1, <3>2
  <2>7. ASSUME NEW k \in 1..n PROVE \E r \in s : J[k][1] = r[1]
    <3>1. J[k][1] = acc[k][1]  BY <2>1, <2>2
    <3> QED  BY <1>1, <3>1
  <2>8. Stands(J, s)
    <3> HIDE DEF n
    <3> QED  BY <1>3, <1>4, <2>1, <2>5, <2>6, <2>7 DEF Stands
  <2> QED  BY <2>8 DEF J
<1>6. CASE ~(acc # <<>> /\ iv[1] <= acc[n][2] + 1)
  <2>1. /\ Len(J) = n + 1
        /\ \A k \in 1..n : J[k] = acc[k]
        /\ J[n + 1] = iv
    BY <1>0, <1>6, JoinType
  <2> HIDE DEF J
  <2>2. \A k \in 1..(n + 1) : k \in 1..n \/ k = n + 1  BY <1>0
  <2>3. \A k \in 1..n : k \in 1..(n + 1)  BY <1>0
  <2>4. n + 1 \in 1..(n + 1)  BY <1>0
  <2>5. \A x \in Lines : (\E k \in 1..(n + 1) : J[k][1] <= x /\ x <= J[k][2])
          <=> (iv[1] <= x /\ x <= iv[2]) \/ \E k \in 1..n : acc[k][1] <= x /\ x <= acc[k][2]
    <3> HIDE DEF n
    <3> QED  BY <2>1, <2>2, <2>3, <2>4
  <2>6. ASSUME NEW j \in 1..(n + 1), NEW k \in 1..(n + 1), j < k PROVE J[j][2] + 1 < J[k][1]
    <3>1. j \in 1..n  BY <1>0, <2>6
    <3>2. CASE k \in 1..n  BY <1>1, <2>1, <2>6, <3>1, <3>2
    <3>3. CASE k = n + 1
      <4>1. n \in 1..n /\ acc # <<>>  BY <1>0, <3>1
      <4>2. acc[n][2] + 1 < iv[1]
        <5>1. acc[n][2] \in Int /\ iv[1] \in Int  BY <1>0, <4>1, LinesFinite
        <5> QED  BY <1>6, <4>1, <5>1
      <4>3. acc[j][2] + 1 < iv[1]
        <5>1. CASE j = n  BY <4>2, <5>1
        <5>2. CASE j # n
          <6>1. acc[j][2] + 1 < acc[n][1] /\ acc[n][1] <= iv[1]  BY <1>0, <1>1, <1>2, <3>1, <4>1, <5>2
          <6>2. acc[j][2] \in Int /\ acc[n][1] \in Int /\ iv[1] \in Int  BY <1>0, <3>1, <4>1, LinesFinite
          <6> QED  BY <6>1, <6>2
        <5> QED  BY <5>1, <5>2
      <4> QED  BY <2>1, <3>1, <3>3, <4>3
    <3> QED  BY <2>2, <3>2, <3>3
  <2>7. ASSUME NEW k \in 1..(n + 1) PROVE \E r \in s : J[k][1] = r[1]
    <3>1. CASE k \in 1..n  BY <1>1, <2>1, <3>1
    <3>2. CASE k = n + 1  BY <2>1, <3>2
    <3> QED  BY <2>2, <3>1, <3>2
  <2>8. Stands(J, s)
    <3> HIDE DEF n
    <3> QED  BY <1>3, <1>4, <2>1, <2>5, <2>6, <2>7 DEF Stands
  <2> QED  BY <2>8 DEF J
<1> QED  BY <1>5, <1>6

\* _merge_intervals, of any set of intervals.
LEMMA MergedStands ==
  ASSUME NEW S \in SUBSET Interval
  PROVE  Stands(Merged(S), S)
<1> DEFINE V == Seq(Interval)
           it == CHOOSE g : g = [s \in SUBSET S |-> IF s = {} THEN <<>>
                   ELSE Join(g[s \ {Latest(s)}], Latest(s))]
           F == [p \in S \X V |-> Join(p[2], p[1])]
           pick == [s \in (SUBSET S) \ {{}} |-> Latest(s)]
<1>0. IsFiniteSet(S)  BY LinesFinite, FS_Subset
<1>1. F \in [S \X V -> V] /\ \A i \in S, acc \in V : F[<<i, acc>>] = Join(acc, i)
  <2>1. \A i \in S, acc \in V : Join(acc, i) \in V  BY JoinType
  <2> HIDE DEF V
  <2> QED  BY <2>1
<1>2. \A s \in SUBSET S : s # {} =>
        pick[s] = Latest(s) /\ pick[s] \in s /\ \A j \in s : j[1] <= pick[s][1]
  BY LatestIs
<1>3. pick \in Picks(S)
  <2>1. \A s \in (SUBSET S) \ {{}} : Latest(s) \in s /\ Latest(s) \in S  BY LatestIs
  <2> QED  BY <2>1 DEF Picks
<1>4. <<>> \in V  OBVIOUS
<1> HIDE DEF V, F, pick
<1>5. PICK g \in Iterations(S, V, <<>>, pick, F) : TRUE  BY <1>0, <1>1, <1>3, <1>4, FoldExists
<1>6. g = [s \in SUBSET S |-> IF s = {} THEN <<>> ELSE Join(g[s \ {Latest(s)}], Latest(s))]
  <2>1. g \in [SUBSET S -> V] /\ g = [s \in SUBSET S |-> IF s = {} THEN <<>> ELSE F[<<pick[s], g[s \ {pick[s]}]>>]]
    BY <1>5 DEF Iterations
  <2>2. \A s \in SUBSET S : s # {} => F[<<pick[s], g[s \ {pick[s]}]>>] = Join(g[s \ {Latest(s)}], Latest(s))
    BY <1>1, <1>2, <2>1
  <2> QED  BY <2>1, <2>2
<1>7. it = [s \in SUBSET S |-> IF s = {} THEN <<>> ELSE Join(it[s \ {Latest(s)}], Latest(s))]
  BY <1>6
<1>8. Merged(S) = it[S]  BY DEF Merged, MapThenFoldSet
<1> HIDE DEF it
<1> DEFINE P == {s \in SUBSET S : Stands(it[s], s)}
<1>9. {} \in P
  <2>1. it[{}] = <<>>  BY <1>7
  <2>2. Len(<<>>) = 0 /\ 1..0 = {}  OBVIOUS
  <2>3. Stands(<<>>, {})  BY <2>2 DEF Stands
  <2> QED  BY <2>1, <2>3
<1>10. ASSUME NEW s \in SUBSET S, s # {}, s \ {pick[s]} \in P PROVE s \in P
  <2>1. Stands(it[s \ {pick[s]}], s \ {pick[s]})  BY <1>10
  <2>2. it[s] = Join(it[s \ {pick[s]}], pick[s])  BY <1>2, <1>7, <1>10
  <2>3. s \in SUBSET Interval /\ pick[s] \in s /\ \A j \in s : j[1] <= pick[s][1]  BY <1>2, <1>10
  <2>4. Stands(it[s], s)  BY <2>1, <2>2, <2>3, JoinStands
  <2> QED  BY <2>4
<1>11. P \in Hereditary(S, pick)
  <2>1. P \in SUBSET (SUBSET S)  OBVIOUS
  <2> HIDE DEF P
  <2> QED  BY <1>9, <1>10, <2>1 DEF Hereditary
<1>12. S \in P
  <2> HIDE DEF P
  <2> QED  BY <1>0, <1>3, <1>11, InductSet
<1> QED  BY <1>8, <1>12

\* _fully_covered says of any set of intervals whether each line of a bound is in one.
THEOREM CoverExact ==
  ASSUME NEW S \in SUBSET Interval, NEW s \in Lines, NEW e \in Lines, s <= e
  PROVE  FullyCovered(<<s, e>>, S) <=> s..e \subseteq Covers(S)
<1> DEFINE M == Merged(S)
<1> HIDE DEF M
<1>1. /\ M \in Seq(Interval)
      /\ \A x \in Lines : (\E r \in S : r[1] <= x /\ x <= r[2])
                            <=> (\E k \in 1..Len(M) : M[k][1] <= x /\ x <= M[k][2])
      /\ \A j, k \in 1..Len(M) : j < k => M[j][2] + 1 < M[k][1]
  BY MergedStands DEF Stands, M
<1>2. \A r \in S : r[1] \in Int /\ r[2] \in Int  BY LinesFinite DEF Interval
<1>3. Len(M) \in Nat /\ \A k \in 1..Len(M) : M[k][1] \in Int /\ M[k][2] \in Int
  <2>1. Len(M) \in Nat /\ \A k \in 1..Len(M) : M[k] \in Interval  BY <1>1
  <2>2. \A i \in Interval : i[1] \in Int /\ i[2] \in Int  BY LinesFinite DEF Interval
  <2> QED  BY <2>1, <2>2
<1>4. s \in Int /\ e \in Int /\ \A x \in s..e : x \in Lines /\ x \in Int  BY ClampAssumption DEF Lines
<1>5. \A x \in Int : x \in Covers(S) <=> \E r \in S : r[1] <= x /\ x <= r[2]
  BY <1>2 DEF Covers
<1>6. FullyCovered(<<s, e>>, S) <=> \E k \in 1..Len(M) : M[k][1] <= s /\ M[k][2] >= e
  <2>1. DOMAIN M = 1..Len(M)  BY <1>1
  <2> QED  BY <2>1 DEF FullyCovered, Range, M
<1>7. ASSUME NEW k \in 1..Len(M), M[k][1] <= s, M[k][2] >= e PROVE s..e \subseteq Covers(S)
  <2>1. \A x \in s..e : M[k][1] <= x /\ x <= M[k][2]  BY <1>3, <1>4, <1>7
  <2> QED  BY <1>1, <1>4, <1>5, <2>1
<1>8. ASSUME s..e \subseteq Covers(S) PROVE \E k \in 1..Len(M) : M[k][1] <= s /\ M[k][2] >= e
  <2>1. \A x \in s..e : \E k \in 1..Len(M) : M[k][1] <= x /\ x <= M[k][2]
    BY <1>1, <1>4, <1>5, <1>8
  <2>2. s \in s..e  BY <1>4
  <2>3. PICK k \in 1..Len(M) : M[k][1] <= s /\ s <= M[k][2]  BY <2>1, <2>2
  <2>4. CASE M[k][2] >= e  BY <2>3, <2>4
  <2>5. CASE ~(M[k][2] >= e)
    <3> DEFINE x == M[k][2] + 1
    <3>1. x \in s..e /\ x \in Int  BY <1>3, <1>4, <2>3, <2>5
    <3>2. PICK j \in 1..Len(M) : M[j][1] <= x /\ x <= M[j][2]  BY <2>1, <3>1
    <3>3. M[k][2] \in Int /\ M[k][1] \in Int /\ M[j][1] \in Int /\ M[j][2] \in Int  BY <1>3
    <3>4. CASE j = k  BY <3>2, <3>3, <3>4
    <3>5. CASE j > k
      <4>1. M[k][2] + 1 < M[j][1]  BY <1>1, <3>5
      <4> QED  BY <3>2, <3>3, <4>1
    <3>6. CASE j < k
      <4>1. M[j][2] + 1 < M[k][1]  BY <1>1, <3>6
      <4> QED  BY <1>4, <2>3, <3>2, <3>3, <4>1
    <3> QED  BY <1>3, <3>4, <3>5, <3>6
  <2> QED  BY <2>4, <2>5
<1> QED  BY <1>6, <1>7, <1>8

\* From the first relevant line to the last is within the file.
LEMMA BoundsType ==
  ASSUME NEW a \in Agents, length \in Lines, spans[a] \in SpanSets, spans[a] # {}
  PROVE  Bounds(a) \in Interval /\ Bounds(a)[2] <= length
<1> DEFINE F == {s[1] : s \in spans[a]}
           G == {s[2] : s \in spans[a]}
<1>0. MaxLine \in Nat /\ Margin \in Nat /\ length \in 1..MaxLine  BY ClampAssumption DEF Lines
<1>1. spans[a] \subseteq Interval  BY ClampAssumption
<1>2. IsFiniteSet(spans[a])  BY <1>1, LinesFinite, FS_Subset
<1>3. F \in SUBSET Lines /\ F # {} /\ G \in SUBSET Lines /\ G # {}  BY <1>1 DEF Interval
<1>4. IsFiniteSet(F) /\ IsFiniteSet(G)
  <2> HIDE DEF F, G
  <2> QED  BY <1>3, LinesFinite, FS_Subset
<1> DEFINE f == LeastOf(F)
           g == MostOf(G)
<1>5. f \in 1..MaxLine /\ g \in 1..MaxLine
  <2>1. F \in SUBSET Int /\ G \in SUBSET Int  BY <1>3, LinesFinite
  <2> HIDE DEF F, G
  <2>2. f \in F /\ g \in G  BY <1>3, <1>4, <2>1, LeastAndMost
  <2> QED  BY <1>3, <2>2 DEF Lines
<1>6. Bounds(a) = <<MostOf({1, f - Margin}), LeastOf({length, g + Margin})>>  BY DEF Bounds
<1> HIDE DEF F, G, f, g
<1>7. f - Margin \in Int /\ g + Margin \in Int /\ 1 \in Int /\ length \in Int  BY <1>0, <1>5
<1>8. /\ MostOf({1, f - Margin}) = IF 1 >= f - Margin THEN 1 ELSE f - Margin
      /\ LeastOf({length, g + Margin}) = IF length <= g + Margin THEN length ELSE g + Margin
  BY <1>7, LeastOfTwo
<1>9. /\ MostOf({1, f - Margin}) \in 1..MaxLine
      /\ LeastOf({length, g + Margin}) \in 1..MaxLine
      /\ LeastOf({length, g + Margin}) <= length
  BY <1>0, <1>5, <1>8
<1> QED  BY <1>6, <1>9 DEF Interval, Lines

\* The clamp's state keeps its types: what it bounds lies in the file, and so does what
\* it remembers as read.
THEOREM ClampTypes == ClampSpec => []ClampTypeOK
<1>1. ClampInit => ClampTypeOK
  <2> SUFFICES ASSUME ClampInit PROVE ClampTypeOK  OBVIOUS
  <2>1. MaxLine \in Nat /\ MaxEdits \in Nat /\ MaxBuilds \in Nat  BY ClampAssumption
  <2>2. length \in Lines /\ shortest \in 1..length /\ edits \in 0..MaxEdits /\ builds \in 0..MaxBuilds
    BY <2>1 DEF ClampInit, Lines
  <2>3. call \in [Agents -> [Slots -> CallType]]  BY DEF ClampInit, CallType
  <2> QED  BY <2>2, <2>3 DEF ClampInit, ClampTypeOK
<1>2. ClampTypeOK /\ [ClampNext]_clampVars => ClampTypeOK'
  <2> SUFFICES ASSUME ClampTypeOK, [ClampNext]_clampVars PROVE ClampTypeOK'  OBVIOUS
  <2>0. /\ length \in Lines /\ shortest \in 1..length /\ edits \in 0..MaxEdits /\ builds \in 0..MaxBuilds
        /\ spans \in [Agents -> SpanSets \cup {{}}]
        /\ reads \in [Agents -> SUBSET Interval]
        /\ call \in [Agents -> [Slots -> CallType]]
        /\ got \in [Agents -> SUBSET Lines] /\ refused \in [Agents -> SUBSET Lines]
    BY DEF ClampTypeOK
  <2>a. MaxLine \in Nat /\ MaxEdits \in Nat /\ MaxBuilds \in Nat  BY ClampAssumption
  <2>b. ASSUME NEW a \in Agents, NEW i \in Slots, NEW c \in CallType, call' = [call EXCEPT ![a][i] = c]
        PROVE  call' \in [Agents -> [Slots -> CallType]]
    BY <2>0, <2>b
  <2>c. NoCall \in CallType /\ [at |-> "asked"] \in CallType /\ [at |-> "full"] \in CallType
    BY DEF CallType
  <2>d. ASSUME NEW a \in Agents, NEW i \in Slots, call[a][i].at \in {"deny", "record", "rewrite"}
        PROVE  call[a][i] \in [at : {"deny", "record", "rewrite"}, range : Interval, of : SpanSets, length : Lines]
    <3>1. call[a][i] \in CallType  BY <2>0
    <3> QED  BY <2>d, <3>1 DEF CallType, NoCall
  <2>1. ASSUME NEW a \in Agents, Build(a) PROVE ClampTypeOK'
    <3>1. builds' \in 0..MaxBuilds  BY <2>0, <2>1, <2>a DEF Build
    <3>2. spans' \in [Agents -> SpanSets \cup {{}}]  BY <2>0, <2>1 DEF Build
    <3> QED  BY <2>0, <2>1, <3>1, <3>2 DEF Build, ClampTypeOK, history
  <2>2. ASSUME NEW a \in Agents, NEW i \in Slots, Ask(a, i) \/ PassThrough(a, i) \/ Denied(a, i)
        PROVE ClampTypeOK'
    <3>1. PICK c \in CallType : call' = [call EXCEPT ![a][i] = c]
      BY <2>2, <2>c DEF Ask, PassThrough, Denied
    <3>2. call' \in [Agents -> [Slots -> CallType]]  BY <2>b, <3>1
    <3>3. UNCHANGED <<length, spans, reads, builds, edits, history>>
      BY <2>2 DEF Ask, PassThrough, Denied
    <3> QED  BY <2>0, <3>2, <3>3 DEF ClampTypeOK, history
  <2>3. ASSUME NEW a \in Agents, NEW i \in Slots, Decide(a, i) PROVE ClampTypeOK'
    <3>1. spans[a] \in SpanSets /\ spans[a] # {}  BY <2>0, <2>3 DEF Decide
    <3>2. Bounds(a) \in Interval  BY <2>0, <3>1, BoundsType
    <3> DEFINE c == [at |-> IF FullyCovered(Bounds(a), reads[a]) THEN "deny" ELSE "record",
                     range |-> Bounds(a), of |-> spans[a], length |-> length]
    <3>3. c \in CallType  BY <2>0, <3>1, <3>2 DEF CallType
    <3>4. call' = [call EXCEPT ![a][i] = c]  BY <2>3 DEF Decide
    <3>5. call' \in [Agents -> [Slots -> CallType]]
      <4> HIDE DEF c
      <4> QED  BY <2>b, <3>3, <3>4
    <3> QED  BY <2>0, <2>3, <3>5 DEF Decide, ClampTypeOK, history
  <2>4. ASSUME NEW a \in Agents, NEW i \in Slots, Record(a, i) PROVE ClampTypeOK'
    <3> DEFINE c == [call[a][i] EXCEPT !.at = "rewrite"]
    <3>1. call[a][i] \in [at : {"deny", "record", "rewrite"}, range : Interval, of : SpanSets, length : Lines]
      BY <2>4, <2>d DEF Record
    <3>2. c \in CallType  BY <3>1 DEF CallType
    <3>3. call' = [call EXCEPT ![a][i] = c]  BY <2>0, <2>4 DEF Record
    <3>4. call' \in [Agents -> [Slots -> CallType]]
      <4> HIDE DEF c
      <4> QED  BY <2>b, <3>2, <3>3
    <3>5. reads' \in [Agents -> SUBSET Interval]
      <4>1. call[a][i].range \in Interval  BY <3>1
      <4> QED  BY <2>0, <2>4, <4>1 DEF Record
    <3> QED  BY <2>0, <2>4, <3>4, <3>5 DEF Record, ClampTypeOK, history
  <2>5. ASSUME NEW a \in Agents, NEW i \in Slots, Run(a, i) \/ Refuse(a, i) PROVE ClampTypeOK'
    <3>1. Shown(a, i) \subseteq Lines  BY <2>0, <2>a DEF Shown, Lines
    <3>2. call' \in [Agents -> [Slots -> CallType]]
      <4>1. call' = [call EXCEPT ![a][i] = NoCall]  BY <2>5 DEF Run, Refuse
      <4> QED  BY <2>b, <2>c, <4>1
    <3>3. got' \in [Agents -> SUBSET Lines] /\ refused' \in [Agents -> SUBSET Lines]
      BY <2>0, <2>5, <3>1 DEF Run, Refuse
    <3>4. UNCHANGED <<length, spans, reads, builds, edits, shortest>>  BY <2>5 DEF Run, Refuse
    <3> QED  BY <2>0, <3>2, <3>3, <3>4 DEF ClampTypeOK
  <2>6. ASSUME NEW n \in Lines, EditFile(n) PROVE ClampTypeOK'
    <3>1. shortest' = IF shortest <= n THEN shortest ELSE n
      <4>1. shortest \in Int /\ n \in Int  BY <2>0, <2>a DEF Lines
      <4> QED  BY <2>6, <4>1, LeastOfTwo DEF EditFile
    <3>2. length' \in Lines /\ shortest' \in 1..length' /\ edits' \in 0..MaxEdits
      BY <2>0, <2>6, <2>a, <3>1 DEF EditFile, Lines
    <3> QED  BY <2>0, <2>6, <3>2 DEF EditFile, ClampTypeOK
  <2>7. CASE UNCHANGED clampVars  BY <2>0, <2>7 DEF clampVars, history, ClampTypeOK
  <2> QED  BY <2>1, <2>2, <2>3, <2>4, <2>5, <2>6, <2>7 DEF ClampNext
<1> QED  BY <1>1, <1>2, PTL DEF ClampSpec

\* However many reads of whatever lines were recorded, and merged in their order, the
\* clamp holds a bound for read exactly when each of its lines was.
THEOREM CoverAlways == ClampSpec => []CoverIsLines
<1>1. ClampTypeOK => CoverIsLines
  <2> SUFFICES ASSUME ClampTypeOK, NEW a \in Agents, NEW s \in Lines, NEW e \in Lines, s <= e
               PROVE  FullyCovered(<<s, e>>, reads[a])
                        <=> s..e \subseteq UNION {r[1]..r[2] : r \in reads[a]}
    BY DEF CoverIsLines
  <2>1. reads[a] \in SUBSET Interval  BY DEF ClampTypeOK
  <2> QED  BY <2>1, CoverExact DEF Covers
<1> QED  BY <1>1, ClampTypes, PTL

-----------------------------------------------------------------------------
(* What a denial rests on *)

\* The lines that reached the agent, are on their way or were refused to it.
Seen(a) == got[a] \cup InFlight(a) \cup refused[a]

\* What is remembered as read was seen, as far as the file always had it: the fact that
\* each denial rests on.
ReadsSeen ==
  \A a \in Agents : \A r \in reads[a] : r[1]..r[2] \cap 1..shortest \subseteq Seen(a)

\* The code of the read in flight that Record and Run move.
LEMMA InFlightIs ==
  ASSUME NEW a \in Agents, NEW x
  PROVE  x \in InFlight(a) <=>
           \E j \in Slots : /\ call[a][j].at = "rewrite" /\ x \in 1..length
                            /\ x \in call[a][j].range[1]..call[a][j].range[2]
<1>1. \A j \in Slots : call[a][j].at = "rewrite" =>
        (x \in Shown(a, j) <=> x \in call[a][j].range[1]..call[a][j].range[2] /\ x \in 1..length)
  BY DEF Shown
<1>2. x \in InFlight(a) <=> \E j \in Slots : call[a][j].at = "rewrite" /\ x \in Shown(a, j)
  BY DEF InFlight
<1> QED  BY <1>1, <1>2

\* A line an agent has seen stays seen, whatever the others do, as long as the file
\* keeps it.
LEMMA StaysSeen ==
  ASSUME ClampTypeOK, [ClampNext]_clampVars, NEW a \in Agents, NEW x \in Lines, x \in Seen(a)
  PROVE  x <= shortest' => x \in Seen(a)'
<1>0. /\ length \in Nat /\ shortest \in 1..length /\ x \in Nat /\ x >= 1
      /\ \A n \in Lines : n \in Nat
      /\ call \in [Agents -> [Slots -> CallType]]
      /\ got \in [Agents -> SUBSET Lines] /\ refused \in [Agents -> SUBSET Lines]
  BY ClampAssumption DEF ClampTypeOK, Lines
<1>a. shortest \in Nat  BY <1>0
<1>1. CASE UNCHANGED <<length, got, refused, shortest>>
           /\ \A j \in Slots : call[a][j].at = "rewrite" => call'[a][j] = call[a][j]
  <2>1. CASE x \in got[a] \cup refused[a]  BY <1>1, <1>a, <2>1 DEF Seen
  <2>2. CASE x \in InFlight(a)
    <3>1. PICK j \in Slots : /\ call[a][j].at = "rewrite" /\ x \in 1..length
                             /\ x \in call[a][j].range[1]..call[a][j].range[2]
      BY <2>2, InFlightIs
    <3>2. x \in InFlight(a)'  BY <1>1, <3>1 DEF InFlight, Shown
    <3> QED  BY <1>1, <1>a, <3>2 DEF Seen
  <2> QED  BY <2>1, <2>2 DEF Seen
<1>2. ASSUME NEW b \in Agents, NEW i \in Slots, Run(b, i) \/ Refuse(b, i)
      PROVE  x <= shortest' => x \in Seen(a)'
  <2>1. /\ shortest' = shortest /\ length' = length
        /\ call' = [call EXCEPT ![b][i] = NoCall]
        /\ got[a] \cup refused[a] \subseteq got'[a] \cup refused'[a]
        /\ a = b => Shown(a, i) \subseteq got'[a] \cup refused'[a]
    BY <1>0, <1>2 DEF Run, Refuse
  <2>2. CASE x \in got[a] \cup refused[a]  BY <1>a, <2>1, <2>2 DEF Seen
  <2>3. CASE x \in InFlight(a)
    <3>1. PICK j \in Slots : call[a][j].at = "rewrite" /\ x \in Shown(a, j)
      BY <2>3 DEF InFlight
    <3>2. CASE a = b /\ j = i  BY <1>a, <2>1, <3>1, <3>2 DEF Seen
    <3>3. CASE ~(a = b /\ j = i)
      <4>1. call'[a][j] = call[a][j]  BY <1>0, <2>1, <3>3
      <4>2. x \in InFlight(a)'  BY <2>1, <3>1, <4>1 DEF InFlight, Shown
      <4> QED  BY <1>a, <2>1, <4>2 DEF Seen
    <3> QED  BY <3>2, <3>3
  <2> QED  BY <2>2, <2>3 DEF Seen
<1>3. ASSUME NEW n \in Lines, EditFile(n)
      PROVE  x <= shortest' => x \in Seen(a)'
  <2>1. n \in Nat /\ shortest' = (IF shortest <= n THEN shortest ELSE n) /\ length' = n
    <3>1. n \in Int /\ shortest \in Int  BY <1>0, <1>a
    <3> QED  BY <1>0, <1>3, <3>1, LeastOfTwo DEF EditFile
  <2>2. shortest' <= shortest /\ shortest' <= n  BY <1>a, <2>1
  <2>3. call' = call /\ got' = got /\ refused' = refused  BY <1>3 DEF EditFile
  <2>4. CASE x \in got[a] \cup refused[a]  BY <2>2, <2>3, <2>4 DEF Seen
  <2>5. CASE x \in InFlight(a)
    <3>1. PICK j \in Slots : /\ call[a][j].at = "rewrite" /\ x \in 1..length
                             /\ x \in call[a][j].range[1]..call[a][j].range[2]
      BY <2>5, InFlightIs
    <3>2. x <= shortest' => x \in 1..length'  BY <1>0, <2>1, <2>2
    <3>3. x <= shortest' => x \in InFlight(a)'  BY <2>3, <3>1, <3>2 DEF InFlight, Shown
    <3> QED  BY <2>2, <3>3 DEF Seen
  <2> QED  BY <2>4, <2>5 DEF Seen
<1>4. ASSUME NEW b \in Agents, Build(b)
      PROVE  x <= shortest' => x \in Seen(a)'
  BY <1>1, <1>4 DEF Build, history
<1>5. ASSUME NEW b \in Agents, NEW i \in Slots,
             Ask(b, i) \/ PassThrough(b, i) \/ Decide(b, i) \/ Record(b, i) \/ Denied(b, i)
      PROVE  x <= shortest' => x \in Seen(a)'
  <2>1. UNCHANGED <<length, got, refused, shortest>>
    BY <1>5 DEF Ask, PassThrough, Decide, Record, Denied, history
  <2>2. call[b][i].at # "rewrite"  BY <1>5 DEF Ask, PassThrough, Decide, Record, Denied, NoCall
  <2>3. \A j \in Slots : ~(b = a /\ j = i) => call'[a][j] = call[a][j]
    BY <1>0, <1>5 DEF Ask, PassThrough, Decide, Record, Denied
  <2>4. \A j \in Slots : call[a][j].at = "rewrite" => call'[a][j] = call[a][j]  BY <2>2, <2>3
  <2> QED  BY <1>1, <2>1, <2>4
<1>6. CASE UNCHANGED clampVars  BY <1>1, <1>6 DEF clampVars, history
<1> QED  BY <1>2, <1>3, <1>4, <1>5, <1>6 DEF ClampNext

\* A read is denied only for lines that were shown to the agent, are being shown to it
\* by a parallel read, or were refused to it by someone else.
THEOREM DeniedWereDelivered == ClampSpec => []DenyOnlyDelivered
<1> DEFINE Inv == ReadsSeen /\ DenyOnlyDelivered
<1>1. ClampInit => Inv
  BY DEF ClampInit, ReadsSeen, DenyOnlyDelivered, NoCall
<1>2. ClampTypeOK /\ Inv /\ [ClampNext]_clampVars => Inv'
  <2> SUFFICES ASSUME ClampTypeOK, ReadsSeen, DenyOnlyDelivered, [ClampNext]_clampVars
               PROVE  ReadsSeen' /\ DenyOnlyDelivered'
    OBVIOUS
  <2>0. /\ length \in Lines /\ shortest \in 1..length /\ spans \in [Agents -> SpanSets \cup {{}}]
        /\ reads \in [Agents -> SUBSET Interval]
        /\ call \in [Agents -> [Slots -> CallType]]
        /\ MaxLine \in Nat
    BY ClampAssumption DEF ClampTypeOK
  <2>a. \A x \in 1..shortest : x \in Lines /\ x \in Nat  BY <2>0 DEF Lines
  <2>b. shortest \in Nat /\ shortest' \in Int /\ shortest' <= shortest
    <3>1. shortest \in Nat  BY <2>0 DEF Lines
    <3>2. CASE shortest' = shortest  BY <3>1, <3>2
    <3>3. ASSUME NEW n \in Lines, EditFile(n) PROVE shortest' \in Int /\ shortest' <= shortest
      <4>1. n \in Int /\ shortest \in Int  BY <3>1, LinesFinite
      <4>2. shortest' = IF shortest <= n THEN shortest ELSE n  BY <3>3, <4>1, LeastOfTwo DEF EditFile
      <4> QED  BY <4>1, <4>2
    <3>4. (\E n \in Lines : EditFile(n)) \/ shortest' = shortest
      BY DEF ClampNext, clampVars, history, Build, Ask, PassThrough, Decide, Record, Denied, Run, Refuse
    <3> QED  BY <3>1, <3>2, <3>3, <3>4
  \* the frame: what was seen as far as the file always had it, still is
  <2>1. ASSUME NEW a \in Agents, NEW X, X \cap 1..shortest \subseteq Seen(a)
        PROVE  X \cap 1..shortest' \subseteq Seen(a)'
    <3>1. ASSUME NEW x \in X \cap 1..shortest' PROVE x \in Seen(a)'
      <4>1. x \in 1..shortest /\ x <= shortest'  BY <2>b, <3>1
      <4>2. x \in Lines /\ x \in Seen(a)  BY <2>1, <2>a, <4>1
      <4> QED  BY <4>1, <4>2, StaysSeen
    <3> QED  BY <3>1
  <2>2. ASSUME NEW a \in Agents, NEW r \in reads'[a] PROVE r[1]..r[2] \cap 1..shortest' \subseteq Seen(a)'
    <3>1. CASE r \in reads[a]
      <4>1. r[1]..r[2] \cap 1..shortest \subseteq Seen(a)  BY <3>1 DEF ReadsSeen
      <4> QED  BY <2>1, <4>1
    <3>2. CASE r \notin reads[a]
      <4>1. PICK i \in Slots : Record(a, i) /\ r = call[a][i].range
        <5>1. reads' # reads  BY <2>2, <3>2
        <5>2. PICK b \in Agents, i \in Slots : Record(b, i)
          BY <5>1 DEF ClampNext, clampVars, history, Build, Ask, PassThrough, Decide, Denied, Run, Refuse,
                      EditFile
        <5>3. b = a /\ r = call[a][i].range  BY <2>0, <2>2, <3>2, <5>2 DEF Record
        <5> QED  BY <5>2, <5>3
      <4>2. call[a][i].at = "record" /\ length' = length /\ shortest' = shortest
        BY <4>1 DEF Record, history
      <4>3. call'[a][i].at = "rewrite" /\ call'[a][i].range = r
        <5>1. call[a][i] \in CallType  BY <2>0
        <5>2. call[a][i] \in [at : {"deny", "record", "rewrite"}, range : Interval, of : SpanSets, length : Lines]
          BY <4>2, <5>1 DEF CallType, NoCall
        <5> QED  BY <2>0, <4>1, <5>2 DEF Record
      <4>4. 1..shortest' \subseteq 1..length'  BY <2>0, <4>2 DEF Lines
      <4>5. r[1]..r[2] \cap 1..shortest' \subseteq InFlight(a)'
        BY <4>3, <4>4 DEF InFlight, Shown
      <4> QED  BY <4>5 DEF Seen
    <3> QED  BY <3>1, <3>2
  <2>3. ASSUME NEW a \in Agents, NEW i \in Slots, call'[a][i].at = "deny"
        PROVE  call'[a][i].range[1]..call'[a][i].range[2] \cap 1..shortest' \subseteq Seen(a)'
    <3>1. CASE call'[a][i] = call[a][i]
      <4>1. call[a][i].range[1]..call[a][i].range[2] \cap 1..shortest \subseteq Seen(a)
        BY <2>3, <3>1 DEF DenyOnlyDelivered, Seen
      <4> QED  BY <2>1, <3>1, <4>1
    <3>2. CASE call'[a][i] # call[a][i]
      <4>1. Decide(a, i) /\ FullyCovered(Bounds(a), reads[a])
        <5>1. call' # call  BY <3>2
        <5>2. PICK b \in Agents, j \in Slots :
                Ask(b, j) \/ PassThrough(b, j) \/ Decide(b, j) \/ Record(b, j) \/ Denied(b, j)
                  \/ Run(b, j) \/ Refuse(b, j)
          BY <5>1 DEF ClampNext, clampVars, history, Build, EditFile
        <5>3. b = a /\ j = i
          BY <2>0, <3>2, <5>2 DEF Ask, PassThrough, Decide, Record, Denied, Run, Refuse
        <5>4. ~Ask(a, i) /\ ~PassThrough(a, i) /\ ~Denied(a, i) /\ ~Run(a, i) /\ ~Refuse(a, i)
          BY <2>0, <2>3 DEF Ask, PassThrough, Denied, Run, Refuse, NoCall
        <5>5. ~Record(a, i)
          <6>1. ASSUME Record(a, i) PROVE FALSE
            <7>1. call[a][i].at = "record" /\ call[a][i] \in CallType  BY <2>0, <6>1 DEF Record
            <7>2. call[a][i] \in [at : {"deny", "record", "rewrite"}, range : Interval, of : SpanSets, length : Lines]
              BY <7>1 DEF CallType, NoCall
            <7>3. call'[a][i].at = "rewrite"  BY <2>0, <6>1, <7>2 DEF Record
            <7> QED  BY <2>3, <7>3
          <6> QED  BY <6>1
        <5>6. Decide(a, i)  BY <5>2, <5>3, <5>4, <5>5
        <5>7. call'[a][i].at = IF FullyCovered(Bounds(a), reads[a]) THEN "deny" ELSE "record"
          BY <2>0, <5>6 DEF Decide
        <5> QED  BY <2>3, <5>6, <5>7
      <4>2. call'[a][i].range = Bounds(a) /\ spans[a] \in SpanSets /\ spans[a] # {}
        BY <2>0, <4>1 DEF Decide
      <4> DEFINE s == Bounds(a)[1]
                 e == Bounds(a)[2]
      <4>3. Bounds(a) = <<s, e>> /\ s \in Lines /\ e \in Lines
        <5>1. Bounds(a) \in Interval  BY <2>0, <4>2, BoundsType
        <5> QED  BY <5>1 DEF Interval
      <4>4. s..e \cap 1..shortest \subseteq Seen(a)
        <5> HIDE DEF s, e
        <5>0. s \in Int /\ e \in Int  BY <4>3, LinesFinite
        <5>1. CASE s <= e
          <6>1. FullyCovered(<<s, e>>, reads[a])  BY <4>1, <4>3
          <6>2. reads[a] \in SUBSET Interval  BY <2>0
          <6>3. s..e \subseteq Covers(reads[a])  BY <4>3, <5>1, <6>1, <6>2, CoverExact
          <6> QED  BY <6>3 DEF Covers, ReadsSeen
        <5>2. CASE ~(s <= e)  BY <5>0, <5>2
        <5> QED  BY <5>1, <5>2
      <4>5. s..e \cap 1..shortest' \subseteq Seen(a)'
        <5> HIDE DEF s, e
        <5> QED  BY <2>1, <4>4
      <4> QED  BY <4>2, <4>5
    <3> QED  BY <3>1, <3>2
  <2>4. ReadsSeen'  BY <2>2 DEF ReadsSeen
  <2>5. DenyOnlyDelivered'  BY <2>3 DEF DenyOnlyDelivered, Seen
  <2> QED  BY <2>4, <2>5
<1> QED  BY <1>1, <1>2, ClampTypes, PTL DEF ClampSpec

-----------------------------------------------------------------------------
(* Compressed output: what its counts add up to. *)

\* What a compressed output is made of.
Outs == [line : Nat, elided : [Subjects -> Nat]]

\* The sum of the first counts is that of a fold over all of them.
LEMMA CountedFolds ==
  ASSUME NEW out \in Seq(Outs), NEW of \in Subjects, NEW f \in [1..Len(out) -> Nat],
         \A p \in 1..Len(out) : f[p] = out[p].elided[of],
         NEW g \in Iterations(1..Len(out), Nat, 0, AnyOf(1..Len(out)), Adding(1..Len(out), f)),
         NEW n \in 0..Len(out)
  PROVE  Counted(out, n, of) = g[1..n]
<1> DEFINE S == 1..Len(out)
           T == 1..n
           it == CHOOSE h : h = [s \in SUBSET T |-> IF s = {} THEN 0
                   ELSE out[CHOOSE x \in s : TRUE].elided[of] + h[s \ {CHOOSE x \in s : TRUE}]]
           F == [p \in T \X Nat |-> p[2] + f[p[1]]]
           pick == AnyOf(T)
<1>0. Len(out) \in Nat /\ n \in Nat /\ T \in SUBSET S  OBVIOUS
<1>a. IsFiniteSet(S) /\ IsFiniteSet(T)  BY <1>0, FS_Interval
<1>b. \A x \in T : f[x] = out[x].elided[of] /\ f[x] \in Nat  BY <1>0
<1>1. F \in [T \X Nat -> Nat] /\ \A t \in T, m \in Nat : F[<<t, m>>] = m + f[t]
  <2> HIDE DEF T
  <2> QED  BY <1>b
<1>2. pick \in Picks(T) /\ AnyOf(S) \in Picks(S)  BY AnyPicks
<1>3. \A s \in SUBSET T : s # {} => pick[s] = (CHOOSE x \in s : TRUE) /\ pick[s] \in s
  BY DEF AnyOf
<1>c. \A s \in (SUBSET T) \ {{}} : pick[s] = AnyOf(S)[s]
  BY <1>0 DEF AnyOf
<1>d. \A x \in T, v \in Nat : F[<<x, v>>] = Adding(S, f)[<<x, v>>]
  <2>1. \A x \in S, v \in Nat : Adding(S, f)[<<x, v>>] = v + f[x]  BY DEF Adding
  <2> HIDE DEF F, S, T
  <2> QED  BY <1>0, <1>1, <2>1
<1> HIDE DEF F, pick, S, T
<1>5. PICK h \in Iterations(T, Nat, 0, pick, F) : TRUE  BY <1>a, <1>1, <1>2, FoldExists
<1>6. h = [s \in SUBSET T |-> IF s = {} THEN 0
             ELSE out[CHOOSE x \in s : TRUE].elided[of] + h[s \ {CHOOSE x \in s : TRUE}]]
  <2>1. h \in [SUBSET T -> Nat] /\ h = [s \in SUBSET T |-> IF s = {} THEN 0 ELSE F[<<pick[s], h[s \ {pick[s]}]>>]]
    BY <1>5 DEF Iterations
  <2>2. ASSUME NEW s \in SUBSET T, s # {}
        PROVE  F[<<pick[s], h[s \ {pick[s]}]>>]
          = out[CHOOSE x \in s : TRUE].elided[of] + h[s \ {CHOOSE x \in s : TRUE}]
    <3>1. pick[s] \in T /\ h[s \ {pick[s]}] \in Nat  BY <1>3, <2>1, <2>2
    <3>2. F[<<pick[s], h[s \ {pick[s]}]>>] = h[s \ {pick[s]}] + f[pick[s]]  BY <1>1, <3>1
    <3>3. F[<<pick[s], h[s \ {pick[s]}]>>] = out[pick[s]].elided[of] + h[s \ {pick[s]}]
      BY <1>b, <3>1, <3>2
    <3> QED  BY <1>3, <2>2, <3>3
  <2> QED  BY <2>1, <2>2
<1>7. it = [s \in SUBSET T |-> IF s = {} THEN 0
             ELSE out[CHOOSE x \in s : TRUE].elided[of] + it[s \ {CHOOSE x \in s : TRUE}]]
  BY <1>6, ZenonT(30)
<1>8. Counted(out, n, of) = it[T]
  BY DEF Counted, MapThenSumSet, MapThenFoldSet, T
<1> HIDE DEF it
<1>9. Unfolds(it, T, Nat, 0, pick, F)
  <2>1. it = [s \in SUBSET T |-> it[s]]  BY <1>7
  <2>2. it[{}] = 0  BY <1>7
  <2>3. ASSUME NEW s \in (SUBSET T) \ {{}}, it[s \ {pick[s]}] \in Nat
        PROVE  it[s] = F[<<pick[s], it[s \ {pick[s]}]>>]
    <3>1. it[s] = out[pick[s]].elided[of] + it[s \ {pick[s]}]  BY <1>3, <1>7, ZenonT(30)
    <3>2. pick[s] \in T  BY <1>3
    <3>3. it[s] = it[s \ {pick[s]}] + f[pick[s]]  BY <1>b, <2>3, <3>1, <3>2
    <3> QED  BY <1>1, <2>3, <3>2, <3>3
  <2> QED  BY <2>1, <2>2, <2>3 DEF Unfolds
<1>10. it \in Iterations(T, Nat, 0, pick, F)  BY <1>a, <1>1, <1>2, <1>9, FoldUnfolds
<1>11. g \in Iterations(S, Nat, 0, AnyOf(S), Adding(S, f))  BY DEF S
<1>12. it[T] = g[T]
  <2> DEFINE G == Adding(S, f)
             whole == AnyOf(S)
  <2>1. /\ whole \in Picks(S) /\ g \in Iterations(S, Nat, 0, whole, G)
        /\ \A s \in (SUBSET T) \ {{}} : pick[s] = whole[s]
        /\ \A x \in T, v \in Nat : F[<<x, v>>] = G[<<x, v>>]
    BY <1>2, <1>c, <1>d, <1>11
  <2> HIDE DEF G, whole
  <2> QED  BY <1>0, <1>a, <1>2, <1>10, <2>1, FoldRestricts, SMTT(30)
<1> QED  BY <1>8, <1>12 DEF T

\* The sums over the parts of a set, which split at any element.
Sums(S, f) ==
  {g \in Iterations(S, Nat, 0, AnyOf(S), Adding(S, f)) :
     \A u \in SUBSET S : \A y \in u : g[u] = g[u \ {y}] + f[y]}

\* There are such sums.
LEMMA SumsExist ==
  ASSUME NEW S, IsFiniteSet(S), NEW f \in [S -> Nat]
  PROVE  \E g : g \in Sums(S, f)
<1> DEFINE pick == AnyOf(S)
           F == Adding(S, f)
<1>1. pick \in Picks(S)  BY AnyPicks
<1>2. F \in [S \X Nat -> Nat]  BY DEF Adding
<1> HIDE DEF pick
<1>3. PICK g \in Iterations(S, Nat, 0, pick, F) : TRUE
  <2> HIDE DEF F
  <2> QED  BY <1>1, <1>2, FoldExists
<1>4. ASSUME NEW u \in SUBSET S, NEW y, y \in u PROVE g[u] = g[u \ {y}] + f[y]
  BY <1>1, <1>3, <1>4, SumSplits
<1> QED  BY <1>3, <1>4 DEF pick, Sums

\* The counts add up one by one.
LEMMA CountedSteps ==
  ASSUME NEW out \in Seq(Outs), NEW of \in Subjects
  PROVE  /\ Counted(out, 0, of) = 0
         /\ \A k \in 0..Len(out) : Counted(out, k, of) \in Nat
         /\ \A k \in 1..Len(out) : Counted(out, k, of) = Counted(out, k - 1, of) + out[k].elided[of]
<1> DEFINE S == 1..Len(out)
           f == [p \in S |-> out[p].elided[of]]
<1>1. Len(out) \in Nat /\ IsFiniteSet(S) /\ f \in [S -> Nat] /\ AnyOf(S) \in Picks(S)
  <2>1. \A p \in S : out[p] \in Outs  OBVIOUS
  <2>2. \A p \in S : out[p].elided[of] \in Nat  BY <2>1 DEF Outs
  <2>3. Len(out) \in Nat  OBVIOUS
  <2>4. IsFiniteSet(S)  BY <2>3, FS_Interval
  <2> QED  BY <2>2, <2>3, <2>4, AnyPicks
<1>2. \A p \in S : f[p] = out[p].elided[of]  OBVIOUS
<1> HIDE DEF f
<1>3. PICK g : g \in Sums(S, f)
  <2>1. IsFiniteSet(S) /\ f \in [S -> Nat]  BY <1>1
  <2> HIDE DEF S
  <2> QED  BY <2>1, SumsExist
<1>4. /\ g \in Iterations(S, Nat, 0, AnyOf(S), Adding(S, f))
      /\ \A u \in SUBSET S : \A y \in u : g[u] = g[u \ {y}] + f[y]
  <2> HIDE DEF S
  <2> QED  BY <1>3 DEF Sums
<1>5. \A k \in 0..Len(out) : Counted(out, k, of) = g[1..k]  BY <1>1, <1>2, <1>4, CountedFolds
<1>6. g \in [SUBSET S -> Nat] /\ g[{}] = 0  BY <1>4 DEF Iterations
<1>7. \A k \in 0..Len(out) : 1..k \in SUBSET S  BY <1>1
<1>8. ASSUME NEW k \in 1..Len(out)
      PROVE  Counted(out, k, of) = Counted(out, k - 1, of) + out[k].elided[of]
  <2>1. k \in 0..Len(out) /\ k - 1 \in 0..Len(out) /\ k \in 1..k /\ k \in S
        /\ (1..k) \ {k} = 1..(k - 1)
    BY <1>1
  <2>2. 1..k \in SUBSET S  BY <1>7, <2>1
  <2> HIDE DEF S
  <2>3. g[1..k] = g[(1..k) \ {k}] + f[k]
    <3>1. 1..k \in SUBSET S /\ k \in 1..k  BY <2>1, <2>2
    <3> QED  BY <1>4, <3>1
  <2> QED  BY <1>2, <1>5, <2>1, <2>3
<1>9. Counted(out, 0, of) = 0
  <2>1. 1..0 = {} /\ 0 \in 0..Len(out)  BY <1>1
  <2> HIDE DEF S
  <2> QED  BY <1>5, <1>6, <2>1
<1>10. \A k \in 0..Len(out) : Counted(out, k, of) \in Nat
  <2> HIDE DEF S
  <2> QED  BY <1>5, <1>6, <1>7
<1> QED  BY <1>8, <1>9, <1>10

\* A further entry adds its own counts and leaves the sums before it.
LEMMA CountedAppends ==
  ASSUME NEW out \in Seq(Outs), NEW e \in Outs, NEW of \in Subjects
  PROVE  /\ Counted(Append(out, e), Len(out) + 1, of) = Counted(out, Len(out), of) + e.elided[of]
         /\ \A k \in 0..Len(out) : Counted(Append(out, e), k, of) = Counted(out, k, of)
<1> DEFINE n == Len(out)
           more == Append(out, e)
           N == {k \in Nat : k <= n => Counted(more, k, of) = Counted(out, k, of)}
<1>1. /\ n \in Nat /\ more \in Seq(Outs) /\ Len(more) = n + 1 /\ more[n + 1] = e
      /\ \A k \in 1..n : more[k] = out[k]
  OBVIOUS
<1> HIDE DEF n, more
<1>2. 0 \in N  BY <1>1, CountedSteps
<1>3. ASSUME NEW k \in N PROVE k + 1 \in N
  <2> SUFFICES ASSUME k + 1 <= n PROVE Counted(more, k + 1, of) = Counted(out, k + 1, of)  OBVIOUS
  <2>1. k \in Nat /\ k <= n /\ k + 1 \in 1..n /\ k + 1 \in 1..(n + 1) /\ (k + 1) - 1 = k  BY <1>1
  <2>2. Counted(more, k, of) = Counted(out, k, of)  BY <2>1
  <2>3. Counted(more, k + 1, of) = Counted(more, k, of) + more[k + 1].elided[of]
    BY <1>1, <2>1, CountedSteps
  <2>4. Counted(out, k + 1, of) = Counted(out, k, of) + out[k + 1].elided[of]
    BY <1>1, <2>1, CountedSteps DEF n
  <2> QED  BY <1>1, <2>1, <2>2, <2>3, <2>4
<1>4. N = Nat
  <2>1. N \in SUBSET Nat  OBVIOUS
  <2> HIDE DEF N
  <2> QED  BY <1>2, <1>3, <2>1, Induct
<1>5. \A k \in 0..n : Counted(more, k, of) = Counted(out, k, of)
  <2>1. \A k \in 0..n : k \in Nat /\ k <= n  BY <1>1
  <2>2. \A k \in 0..n : k \in N  BY <1>4, <2>1
  <2> QED  BY <2>1, <2>2
<1>6. Counted(more, n + 1, of) = Counted(out, n, of) + e.elided[of]
  <2>1. n + 1 \in 1..Len(more) /\ (n + 1) - 1 = n /\ n \in 0..n  BY <1>1
  <2>2. Counted(more, n + 1, of) = Counted(more, n, of) + more[n + 1].elided[of]
    BY <1>1, <2>1, CountedSteps
  <2> QED  BY <1>1, <1>5, <2>1, <2>2
<1> QED  BY <1>5, <1>6 DEF n, more

-----------------------------------------------------------------------------
(* What the loop of a compressor keeps *)

\* The state of the loop.
Accs ==
  [out : Seq(Outs), pending : [Subjects -> Nat], total : Nat, in : BOOLEAN, seen : [Hit -> Nat]]

\* The numbers of the lines in the output; of the first lines, those that are not in
\* it; and of those, a subject's.
KeptLines(out) == {out[p].line : p \in Places(out)}
Gone(out, n) == (1..n) \ KeptLines(out)
About(s, D, of) == {i \in D : SubjectOf(s, i) = of}

\* Lines are in their order, what is gone tells nothing, and the counts never run ahead
\* of what is gone: with what is pending they say all of it.
Faithful(s, acc, n) ==
  /\ acc \in Accs
  /\ \A p \in Places(acc.out) : acc.out[p].line \in 1..n
  /\ \A p, q \in Places(acc.out) : p < q => acc.out[p].line < acc.out[q].line
  /\ \A i \in Gone(acc.out, n) : s[i] \cap Telling = {}
  /\ acc.total # 0 => Gone(acc.out, n) # {}
  /\ \A of \in Subjects :
       Counted(acc.out, Len(acc.out), of) + acc.pending[of]
         = Cardinality(About(s, Gone(acc.out, n), of))
  /\ \A of \in Subjects : \A p \in Places(acc.out) :
       Counted(acc.out, p, of) <= Cardinality({i \in About(s, Gone(acc.out, n), of) : i < acc.out[p].line})

\* What a further entry makes of the places.
LEMMA PlacesAppend ==
  ASSUME NEW out \in Seq(Outs), NEW e \in Outs
  PROVE  /\ Append(out, e) \in Seq(Outs) /\ Len(Append(out, e)) = Len(out) + 1
         /\ Append(out, e)[Len(out) + 1] = e
         /\ \A p \in 1..Len(out) : Append(out, e)[p] = out[p]
         /\ Places(out) \subseteq 1..Len(out)
         /\ e.line = 0 => Places(Append(out, e)) = Places(out)
         /\ e.line > 0 => Places(Append(out, e)) = Places(out) \cup {Len(out) + 1}
<1> DEFINE n == Len(out)
           more == Append(out, e)
<1>1. /\ n \in Nat /\ more \in Seq(Outs) /\ Len(more) = n + 1 /\ more[n + 1] = e
      /\ \A p \in 1..n : more[p] = out[p]
      /\ DOMAIN more = 1..(n + 1) /\ DOMAIN out = 1..n
  OBVIOUS
<1>2. e.line \in Nat /\ \A p \in 1..n : out[p].line \in Nat
  <2>1. \A p \in 1..n : out[p] \in Outs  OBVIOUS
  <2> QED  BY <2>1 DEF Outs
<1> HIDE DEF n, more
<1>3. 1..(n + 1) = (1..n) \cup {n + 1} /\ n + 1 \notin 1..n  BY <1>1
<1>4. Places(out) = {p \in 1..n : out[p].line > 0}  BY <1>1 DEF Places
<1>5. Places(more) = {p \in (1..n) \cup {n + 1} : more[p].line > 0}  BY <1>1, <1>3 DEF Places
<1>6. e.line = 0 => Places(more) = Places(out)  BY <1>1, <1>2, <1>3, <1>4, <1>5
<1>7. e.line > 0 => Places(more) = Places(out) \cup {n + 1}  BY <1>1, <1>2, <1>3, <1>4, <1>5
<1> QED  BY <1>1, <1>4, <1>6, <1>7 DEF n, more

\* Its lines are finitely many, and so are a subject's.
LEMMA AboutFinite ==
  ASSUME NEW s, NEW out, NEW n \in Nat, NEW of
  PROVE  IsFiniteSet(Gone(out, n)) /\ IsFiniteSet(About(s, Gone(out, n), of))
         /\ Cardinality(About(s, Gone(out, n), of)) \in Nat
<1>1. IsFiniteSet(1..n)  BY FS_Interval
<1>2. Gone(out, n) \subseteq 1..n  BY DEF Gone
<1>3. About(s, Gone(out, n), of) \subseteq Gone(out, n)  BY DEF About
<1> QED  BY <1>1, <1>2, <1>3, FS_Subset, FS_CardinalityType

\* Counts that are written leave everything else as it was.
LEMMA FlushFaithful ==
  ASSUME NEW s, NEW n \in Nat, NEW acc, Faithful(s, acc, n)
  PROVE  /\ Faithful(s, Flush(acc), n)
         /\ Flush(acc).pending = Nothing
         /\ KeptLines(Flush(acc).out) = KeptLines(acc.out)
<1>1. CASE acc.pending = Nothing
  <2>1. Flush(acc) = acc  BY <1>1 DEF Flush
  <2> QED  BY <1>1, <2>1
<1>2. CASE acc.pending # Nothing
  <2> DEFINE out == acc.out
             e == Elided(acc.pending)
             more == Append(out, e)
             new == Flush(acc)
  <2>1. /\ acc \in Accs /\ out \in Seq(Outs) /\ acc.pending \in [Subjects -> Nat]
        /\ e \in Outs /\ e.line = 0 /\ e.elided = acc.pending
    BY DEF Faithful, Accs, Outs, Elided
  <2>2. Nothing \in [Subjects -> Nat]  BY DEF Nothing
  <2>3. /\ new.out = more /\ new.pending = Nothing /\ new.total = acc.total
        /\ new = [out |-> more, pending |-> Nothing, total |-> acc.total, in |-> acc.in, seen |-> acc.seen]
    BY <1>2, <2>1 DEF Flush, Accs
  <2> HIDE DEF e, new
  <2>4. /\ more \in Seq(Outs) /\ Len(more) = Len(out) + 1 /\ Len(out) \in Nat
        /\ Places(more) = Places(out) /\ Places(out) \subseteq 1..Len(out)
        /\ \A p \in Places(out) : more[p] = out[p]
    BY <2>1, PlacesAppend
  <2>5. new \in Accs  BY <2>1, <2>2, <2>3, <2>4 DEF Accs
  <2>6. KeptLines(more) = KeptLines(out)  BY <2>4 DEF KeptLines
  <2>7. Gone(more, n) = Gone(out, n)  BY <2>6 DEF Gone
  <2>8. ASSUME NEW of \in Subjects
        PROVE  /\ Counted(more, Len(more), of) = Counted(out, Len(out), of) + acc.pending[of]
               /\ \A p \in Places(out) : Counted(more, p, of) = Counted(out, p, of)
               /\ Counted(out, Len(out), of) \in Nat /\ acc.pending[of] \in Nat
    <3>1. Len(out) \in 0..Len(out) /\ \A p \in Places(out) : p \in 0..Len(out)  BY <2>4
    <3>2. acc.pending[of] \in Nat  BY <2>1
    <3>3. Counted(out, Len(out), of) \in Nat  BY <2>1, <3>1, CountedSteps
    <3> HIDE DEF out
    <3> QED  BY <2>1, <2>4, <3>1, <3>2, <3>3, CountedAppends
  <2> HIDE DEF more
  <2>9. \A of \in Subjects :
          Counted(more, Len(more), of) + Nothing[of] = Cardinality(About(s, Gone(more, n), of))
    <3> SUFFICES ASSUME NEW of \in Subjects
                 PROVE  Counted(more, Len(more), of) + Nothing[of] = Cardinality(About(s, Gone(more, n), of))
      OBVIOUS
    <3>1. Nothing[of] = 0  BY DEF Nothing
    <3>2. Counted(out, Len(out), of) + acc.pending[of] = Cardinality(About(s, Gone(out, n), of))
      BY DEF Faithful
    <3>3. Cardinality(About(s, Gone(out, n), of)) \in Nat  BY AboutFinite
    <3> HIDE DEF out
    <3> QED  BY <2>7, <2>8, <3>1, <3>2, <3>3
  <2>10. \A of \in Subjects : \A p \in Places(more) :
           Counted(more, p, of) <= Cardinality({i \in About(s, Gone(more, n), of) : i < more[p].line})
    BY <2>4, <2>7, <2>8 DEF Faithful
  <2>11. /\ \A p \in Places(more) : more[p].line \in 1..n
         /\ \A p, q \in Places(more) : p < q => more[p].line < more[q].line
         /\ \A i \in Gone(more, n) : s[i] \cap Telling = {}
         /\ acc.total # 0 => Gone(more, n) # {}
    BY <2>4, <2>7 DEF Faithful
  <2>12. Faithful(s, new, n)
    <3> HIDE DEF out
    <3> QED  BY <2>3, <2>5, <2>9, <2>10, <2>11 DEF Faithful
  <2> QED  BY <2>3, <2>6, <2>12 DEF new
<1> QED  BY <1>1, <1>2

\* The next line is kept.
LEMMA KeepFaithful ==
  ASSUME NEW s, NEW n \in Nat, NEW acc, Faithful(s, acc, n)
  PROVE  /\ Faithful(s, Keep(acc, n + 1), n + 1)
         /\ KeptLines(Keep(acc, n + 1).out) = KeptLines(acc.out) \cup {n + 1}
<1> DEFINE out == acc.out
           e == Kept(n + 1)
           more == Append(out, e)
           new == Keep(acc, n + 1)
<1>1. /\ acc \in Accs /\ out \in Seq(Outs) /\ acc.pending \in [Subjects -> Nat]
      /\ e \in Outs /\ e.line = n + 1 /\ e.elided = Nothing
  BY DEF Faithful, Accs, Outs, Kept, Nothing
<1>2. /\ new.out = more /\ new.pending = acc.pending /\ new.total = acc.total
      /\ new = [out |-> more, pending |-> acc.pending, total |-> acc.total, in |-> acc.in, seen |-> acc.seen]
  <2>1. new = [acc EXCEPT !.out = Append(@, e)]  BY DEF Keep
  <2>2. acc \in Accs  BY <1>1
  <2> HIDE DEF e, new
  <2> QED  BY <2>1, <2>2 DEF Accs
<1> HIDE DEF e, new
<1>3. /\ more \in Seq(Outs) /\ Len(more) = Len(out) + 1 /\ Len(out) \in Nat
      /\ Places(more) = Places(out) \cup {Len(out) + 1} /\ Places(out) \subseteq 1..Len(out)
      /\ \A p \in Places(out) : more[p] = out[p]
      /\ more[Len(out) + 1] = e
  BY <1>1, PlacesAppend
<1>4. new \in Accs  BY <1>1, <1>2, <1>3 DEF Accs
<1>5. \A p \in Places(out) : out[p].line \in 1..n  BY DEF Faithful
<1>6. KeptLines(more) = KeptLines(out) \cup {n + 1}
  <2> HIDE DEF out, more
  <2> QED  BY <1>1, <1>3 DEF KeptLines
<1>7. Gone(more, n + 1) = Gone(out, n)
  <2>1. 1..(n + 1) = (1..n) \cup {n + 1} /\ n + 1 \notin 1..n  OBVIOUS
  <2>2. KeptLines(out) \subseteq 1..n  BY <1>5 DEF KeptLines
  <2> HIDE DEF out, more
  <2> QED  BY <1>6, <2>1, <2>2 DEF Gone
<1>8. ASSUME NEW of \in Subjects
      PROVE  /\ Counted(more, Len(more), of) = Counted(out, Len(out), of)
             /\ \A p \in Places(out) : Counted(more, p, of) = Counted(out, p, of)
             /\ Counted(out, Len(out), of) \in Nat /\ acc.pending[of] \in Nat
  <2>1. Len(out) \in 0..Len(out) /\ \A p \in Places(out) : p \in 0..Len(out)  BY <1>3
  <2>2. acc.pending[of] \in Nat /\ e.elided[of] = 0  BY <1>1 DEF Nothing
  <2>3. Counted(out, Len(out), of) \in Nat  BY <1>1, <2>1, CountedSteps
  <2>4. /\ Counted(more, Len(out) + 1, of) = Counted(out, Len(out), of) + e.elided[of]
        /\ \A k \in 0..Len(out) : Counted(more, k, of) = Counted(out, k, of)
    BY <1>1, CountedAppends
  <2> HIDE DEF out, more
  <2> QED  BY <1>3, <2>1, <2>2, <2>3, <2>4
<1>9. \A of \in Subjects :
        Counted(out, Len(out), of) + acc.pending[of] = Cardinality(About(s, Gone(out, n), of))
  BY DEF Faithful
<1> HIDE DEF more
<1>10. \A of \in Subjects :
         Counted(more, Len(more), of) + acc.pending[of] = Cardinality(About(s, Gone(more, n + 1), of))
  BY <1>7, <1>8, <1>9
<1>11. \A p, q \in Places(more) : p < q => more[p].line < more[q].line
  <2>1. \A p, q \in Places(out) : p < q => out[p].line < out[q].line  BY DEF Faithful
  <2> HIDE DEF out
  <2>2. \A p \in Places(out) : out[p].line \in 1..n /\ more[p] = out[p] /\ p < Len(out) + 1
    BY <1>3, <1>5
  <2> QED  BY <1>1, <1>3, <2>1, <2>2
<1>12. \A of \in Subjects : \A p \in Places(more) :
         Counted(more, p, of) <= Cardinality({i \in About(s, Gone(more, n + 1), of) : i < more[p].line})
  <2> SUFFICES ASSUME NEW of \in Subjects, NEW p \in Places(more)
               PROVE  Counted(more, p, of)
                        <= Cardinality({i \in About(s, Gone(more, n + 1), of) : i < more[p].line})
    OBVIOUS
  <2>1. CASE p \in Places(out)
    <3>1. Counted(out, p, of) <= Cardinality({i \in About(s, Gone(out, n), of) : i < out[p].line})
      BY <2>1 DEF Faithful
    <3> QED  BY <1>3, <1>7, <1>8, <2>1, <3>1
  <2>2. CASE p = Len(out) + 1
    <3>1. {i \in About(s, Gone(out, n), of) : i < n + 1} = About(s, Gone(out, n), of)
      BY DEF About, Gone
    <3>2. Counted(out, Len(out), of) <= Cardinality(About(s, Gone(out, n), of))
      <4>1. Cardinality(About(s, Gone(out, n), of)) \in Nat  BY AboutFinite
      <4> QED  BY <1>8, <1>9, <4>1
    <3>3. Counted(more, p, of) = Counted(out, Len(out), of) /\ more[p].line = n + 1
      BY <1>1, <1>3, <1>8, <2>2
    <3> QED  BY <1>7, <3>1, <3>2, <3>3
  <2> QED  BY <1>3, <2>1, <2>2
<1>13. /\ \A p \in Places(more) : more[p].line \in 1..(n + 1)
       /\ \A i \in Gone(more, n + 1) : s[i] \cap Telling = {}
       /\ acc.total # 0 => Gone(more, n + 1) # {}
  <2>1. /\ \A i \in Gone(out, n) : s[i] \cap Telling = {}
        /\ acc.total # 0 => Gone(out, n) # {}
    BY DEF Faithful
  <2>2. \A p \in Places(more) : more[p].line \in 1..(n + 1)
    <3> HIDE DEF out
    <3>1. n + 1 \in 1..(n + 1) /\ \A k \in 1..n : k \in 1..(n + 1)  OBVIOUS
    <3> QED  BY <1>1, <1>3, <1>5, <3>1
  <2> QED  BY <1>7, <2>1, <2>2
<1>14. Faithful(s, new, n + 1)
  <2> HIDE DEF out
  <2> QED  BY <1>2, <1>4, <1>10, <1>11, <1>12, <1>13 DEF Faithful
<1> QED  BY <1>2, <1>6, <1>14 DEF new

\* The next line is dropped and counted.
LEMMA DropFaithful ==
  ASSUME NEW s, NEW n \in Nat, NEW acc, Faithful(s, acc, n),
         NEW o \in Subjects, SubjectOf(s, n + 1) = o, s[n + 1] \cap Telling = {}
  PROVE  Faithful(s, Drop(acc, o), n + 1) /\ Drop(acc, o).out = acc.out
<1> DEFINE out == acc.out
           new == Drop(acc, o)
           G == Gone(out, n)
           next == n + 1
<1>1. /\ acc \in Accs /\ out \in Seq(Outs) /\ acc.pending \in [Subjects -> Nat] /\ acc.total \in Nat
  BY DEF Faithful, Accs
<1>2. /\ new.out = out /\ new.pending = [acc.pending EXCEPT ![o] = @ + 1] /\ new.total = acc.total + 1
      /\ new.in = acc.in /\ new.seen = acc.seen /\ new \in Accs
  <2>1. acc \in Accs  BY <1>1
  <2>2. [acc.pending EXCEPT ![o] = @ + 1] \in [Subjects -> Nat]  BY <1>1
  <2>3. new = [acc EXCEPT !.pending = [acc.pending EXCEPT ![o] = @ + 1], !.total = @ + 1]
    BY <2>1 DEF Drop, Accs
  <2>4. acc.total + 1 \in Nat  BY <1>1
  <2> HIDE DEF new
  <2> QED  BY <2>1, <2>2, <2>3, <2>4 DEF Accs
<1> HIDE DEF new
<1>3. \A p \in Places(out) : out[p].line \in 1..n  BY DEF Faithful
<1>4. Gone(out, next) = G \cup {next} /\ next \notin G
  <2>1. 1..next = (1..n) \cup {next} /\ next \notin 1..n  OBVIOUS
  <2> HIDE DEF out, next
  <2> QED  BY <1>3, <2>1 DEF Gone, KeptLines
<1>5. ASSUME NEW of \in Subjects
      PROVE  About(s, Gone(out, next), of) = About(s, G, of) \cup (IF of = o THEN {next} ELSE {})
  <2> HIDE DEF G
  <2> QED  BY <1>4 DEF About
<1>6. ASSUME NEW of \in Subjects
      PROVE  Cardinality(About(s, Gone(out, next), of))
               = Cardinality(About(s, G, of)) + (IF of = o THEN 1 ELSE 0)
  <2>1. IsFiniteSet(About(s, G, of)) /\ Cardinality(About(s, G, of)) \in Nat  BY AboutFinite
  <2>2. next \notin About(s, G, of)  BY <1>4 DEF About
  <2> HIDE DEF G, next
  <2>3. CASE of = o
    <3>1. About(s, Gone(out, next), of) = About(s, G, of) \cup {next}  BY <1>5, <2>3
    <3>2. Cardinality(About(s, G, of) \cup {next}) = Cardinality(About(s, G, of)) + 1
      BY <2>1, <2>2, FS_AddElement
    <3> QED  BY <2>3, <3>1, <3>2
  <2>4. CASE of # o
    <3>1. About(s, Gone(out, next), of) = About(s, G, of)  BY <1>5, <2>4
    <3> QED  BY <2>1, <2>4, <3>1
  <2> QED  BY <2>3, <2>4
<1>7. ASSUME NEW of \in Subjects
      PROVE  Counted(out, Len(out), of) + new.pending[of]
               = Cardinality(About(s, Gone(out, next), of))
  <2>1. Counted(out, Len(out), of) + acc.pending[of] = Cardinality(About(s, G, of))  BY DEF Faithful
  <2>2. acc.pending[of] \in Nat  BY <1>1
  <2>3. new.pending[of] = acc.pending[of] + (IF of = o THEN 1 ELSE 0)  BY <1>1, <1>2
  <2>4. Counted(out, Len(out), of) \in Nat
    <3>1. Len(out) \in 0..Len(out)  BY <1>1
    <3> QED  BY <1>1, <3>1, CountedSteps
  <2> DEFINE c == Counted(out, Len(out), of)
             k == Cardinality(About(s, G, of))
             j == IF of = o THEN 1 ELSE 0
  <2>5. j \in Nat  OBVIOUS
  <2>6. k \in Nat  BY AboutFinite
  <2>7. Cardinality(About(s, Gone(out, next), of)) = k + j  BY <1>6
  <2>8. c \in Nat /\ c + acc.pending[of] = k /\ new.pending[of] = acc.pending[of] + j
    BY <2>1, <2>3, <2>4
  <2> HIDE DEF c, k, j
  <2>9. c + new.pending[of] = k + j  BY <2>2, <2>5, <2>6, <2>8
  <2> QED  BY <2>7, <2>9 DEF c
<1>8. ASSUME NEW of \in Subjects, NEW p \in Places(out)
      PROVE  Counted(out, p, of)
               <= Cardinality({i \in About(s, Gone(out, next), of) : i < out[p].line})
  <2>1. Counted(out, p, of) <= Cardinality({i \in About(s, G, of) : i < out[p].line})
    BY DEF Faithful
  <2>2. {i \in About(s, Gone(out, next), of) : i < out[p].line} = {i \in About(s, G, of) : i < out[p].line}
    <3>1. ~(next < out[p].line)  BY <1>3
    <3> HIDE DEF next, G
    <3> QED  BY <1>5, <3>1
  <2> QED  BY <2>1, <2>2
<1>9. /\ \A p, q \in Places(out) : p < q => out[p].line < out[q].line
      /\ \A i \in G : s[i] \cap Telling = {}
  BY DEF Faithful
<1>10. \A p \in Places(out) : out[p].line \in 1..next
  <2>1. \A k \in 1..n : k \in 1..next  OBVIOUS
  <2> QED  BY <1>3, <2>1
<1>11. \A i \in Gone(out, next) : s[i] \cap Telling = {}
  <2> HIDE DEF G
  <2> QED  BY <1>4, <1>9
<1>12. Gone(out, next) # {}  BY <1>4
<1> HIDE DEF out, next
<1>13. Faithful(s, new, next)  BY <1>2, <1>7, <1>8, <1>9, <1>10, <1>11, <1>12 DEF Faithful
<1> QED  BY <1>2, <1>13 DEF new, out, next

\* What only the loop itself looks at can change.
LEMMA SameFaithful ==
  ASSUME NEW s, NEW n \in Nat, NEW acc, Faithful(s, acc, n), NEW new \in Accs,
         new.out = acc.out, new.pending = acc.pending, new.total = acc.total
  PROVE  Faithful(s, new, n)
BY DEF Faithful

-----------------------------------------------------------------------------
(* The compressors *)

\* Which compressor it is, and what it knows.
LEMMA SelectedOf ==
  /\ Selected \in {"grep", "git", "tests", "build", "none"}
  /\ Selected = "grep" <=> tool = "Grep"
  /\ Selected = "grep"  => Telling = {}
  /\ Selected = "git"   => Telling = {"header", "hunk", "stat"}
  /\ Selected = "tests" => Telling = {"summary", "failure"}
  /\ Selected = "build" => Telling = {"signal"}
BY DEF Selected, Known, Telling

\* What the steps of a loop make is a state of it.
LEMMA StepTypes ==
  ASSUME NEW acc \in Accs, NEW i \in Nat
  PROVE  /\ Flush(acc) \in Accs /\ Keep(acc, i) \in Accs
         /\ \A o \in Subjects : Drop(acc, o) \in Accs
         /\ \A b \in BOOLEAN : [acc EXCEPT !.in = b] \in Accs
         /\ \A f \in Hit : [acc EXCEPT !.seen[f] = @ + 1] \in Accs
<1>1. acc.out \in Seq(Outs) /\ acc.pending \in [Subjects -> Nat] /\ acc.seen \in [Hit -> Nat]
      /\ acc.total \in Nat /\ acc.in \in BOOLEAN
  BY DEF Accs
<1>2. Nothing \in [Subjects -> Nat]  BY DEF Nothing
<1>3. Kept(i) \in Outs /\ Elided(acc.pending) \in Outs  BY <1>1, <1>2 DEF Kept, Elided, Outs
<1>4. \A e \in Outs : Append(acc.out, e) \in Seq(Outs)  BY <1>1
<1>5. \A out \in Seq(Outs), p \in [Subjects -> Nat], t \in Nat, b \in BOOLEAN, n \in [Hit -> Nat] :
        [out |-> out, pending |-> p, total |-> t, in |-> b, seen |-> n] \in Accs
  BY DEF Accs
<1>6. acc = [out |-> acc.out, pending |-> acc.pending, total |-> acc.total, in |-> acc.in, seen |-> acc.seen]
  BY DEF Accs
<1>7. Flush(acc) \in Accs
  <2>1. CASE acc.pending = Nothing  BY <2>1 DEF Flush
  <2>2. CASE acc.pending # Nothing
    <3>1. Flush(acc) = [acc EXCEPT !.out = Append(acc.out, Elided(acc.pending)), !.pending = Nothing]
      BY <2>2 DEF Flush
    <3>2. Append(acc.out, Elided(acc.pending)) \in Seq(Outs)  BY <1>3, <1>4
    <3> QED  BY <1>2, <3>1, <3>2 DEF Accs
  <2> QED  BY <2>1, <2>2
<1>8. Keep(acc, i) \in Accs
  <2>1. Keep(acc, i) = [acc EXCEPT !.out = Append(acc.out, Kept(i))]  BY DEF Keep
  <2>2. Append(acc.out, Kept(i)) \in Seq(Outs)  BY <1>3, <1>4
  <2> QED  BY <2>1, <2>2 DEF Accs
<1>9. ASSUME NEW o \in Subjects PROVE Drop(acc, o) \in Accs
  <2>1. [acc.pending EXCEPT ![o] = @ + 1] \in [Subjects -> Nat] /\ acc.total + 1 \in Nat  BY <1>1
  <2>2. Drop(acc, o) = [acc EXCEPT !.pending = [acc.pending EXCEPT ![o] = @ + 1], !.total = acc.total + 1]
    BY DEF Drop, Accs
  <2> QED  BY <2>1, <2>2 DEF Accs
<1>10. ASSUME NEW f \in Hit PROVE [acc EXCEPT !.seen[f] = @ + 1] \in Accs
  <2>1. [acc.seen EXCEPT ![f] = @ + 1] \in [Hit -> Nat]  BY <1>1
  <2>2. [acc EXCEPT !.seen[f] = @ + 1] = [acc EXCEPT !.seen = [acc.seen EXCEPT ![f] = @ + 1]]
    BY DEF Accs
  <2> QED  BY <2>1, <2>2 DEF Accs
<1>11. \A b \in BOOLEAN : [acc EXCEPT !.in = b] \in Accs  BY DEF Accs
<1> QED  BY <1>7, <1>8, <1>9, <1>10, <1>11

\* A line of grep's output that is a match is one of a file.
LEMMA GrepMatch ==
  ASSUME Selected = "grep", NEW s, NEW i, s[i] \cap Hit # {}
  PROVE  /\ (CHOOSE g \in s[i] \cap Hit : TRUE) \in Hit
         /\ SubjectOf(s, i) = (CHOOSE g \in s[i] \cap Hit : TRUE)
         /\ s[i] \cap Telling = {}
<1>1. (CHOOSE g \in s[i] \cap Hit : TRUE) \in s[i] \cap Hit  OBVIOUS
<1>2. Telling = {}  BY SelectedOf
<1> QED  BY <1>1, <1>2 DEF SubjectOf

\* A line of any other output is not about a file.
LEMMA NoMatch ==
  ASSUME Selected # "grep", NEW s, NEW i, s[i] \in Prints[Selected]
  PROVE  SubjectOf(s, i) = Every
<1>1. Selected \in DOMAIN Prints  BY SelectedOf, PrintsAssumption
<1>2. s[i] \cap Hit = {}  BY <1>1, PrintsAssumption
<1> QED  BY <1>2 DEF SubjectOf

\* The loop goes from a state to a state.
LEMMA LineTypes ==
  ASSUME NEW s, NEW keep, NEW acc \in Accs, NEW i \in Nat, s[i] \in Prints[Selected]
  PROVE  Line(s, keep, acc, i) \in Accs
<1>0. Every \in Subjects /\ Hit \subseteq Subjects  BY DEF Subjects
<1>1. CASE Selected = "grep"
  <2>1. Line(s, keep, acc, i) = GrepLine(s, acc, i)  BY <1>1 DEF Line
  <2>2. CASE s[i] \cap Hit = {}
    <3>1. GrepLine(s, acc, i) = Keep(Flush(acc), i)  BY <2>2 DEF GrepLine
    <3>2. Flush(acc) \in Accs  BY StepTypes
    <3> QED  BY <2>1, <3>1, <3>2, StepTypes
  <2>3. CASE s[i] \cap Hit # {}
    <3> DEFINE f == CHOOSE g \in s[i] \cap Hit : TRUE
               a == [acc EXCEPT !.seen[f] = @ + 1]
    <3>1. f \in Hit  BY <1>1, <2>3, GrepMatch
    <3>2. a \in Accs
      <4> HIDE DEF f
      <4> QED  BY <3>1, StepTypes
    <3>3. GrepLine(s, acc, i) = IF a.seen[f] <= MaxPerFile THEN Keep(a, i) ELSE Drop(a, f)
      BY <2>3 DEF GrepLine
    <3> HIDE DEF a, f
    <3>4. Keep(a, i) \in Accs /\ Drop(a, f) \in Accs  BY <1>0, <3>1, <3>2, StepTypes
    <3> QED  BY <2>1, <3>3, <3>4
  <2> QED  BY <2>2, <2>3
<1>2. CASE Selected = "git"
  <2>1. Line(s, keep, acc, i) = GitLine(s, acc, i)  BY <1>2 DEF Line
  <2>2. Flush(acc) \in Accs  BY StepTypes
  <2>3. Keep(Flush(acc), i) \in Accs  BY <2>2, StepTypes
  <2>4. [Keep(Flush(acc), i) EXCEPT !.in = "hunk" \in s[i]] \in Accs
    <3>1. ("hunk" \in s[i]) \in BOOLEAN  OBVIOUS
    <3> QED  BY <2>3, <3>1, StepTypes
  <2>5. Drop(acc, Every) \in Accs /\ Keep(acc, i) \in Accs  BY <1>0, StepTypes
  <2> QED  BY <2>1, <2>4, <2>5 DEF GitLine
<1>3. CASE Selected \notin {"grep", "git"}
  <2>1. Line(s, keep, acc, i) = LogLine(keep, acc, i)  BY <1>3 DEF Line
  <2>2. Flush(acc) \in Accs  BY StepTypes
  <2>3. Keep(Flush(acc), i) \in Accs /\ Drop(acc, Every) \in Accs  BY <1>0, <2>2, StepTypes
  <2> QED  BY <2>1, <2>3 DEF LogLine
<1> QED  BY <1>1, <1>2, <1>3

\* What is not kept of a log tells nothing.
Mute(s, keep) == \A i \in DOMAIN s : i \notin keep => s[i] \cap Telling = {}

\* A loop that was faithful to the lines so far is so with the next one.
LEMMA LineFaithful ==
  ASSUME NEW s, NEW keep, NEW n \in Nat, NEW acc, Faithful(s, acc, n),
         n + 1 \in DOMAIN s, s[n + 1] \in Prints[Selected],
         Selected \in {"grep", "git"} \/ Mute(s, keep)
  PROVE  Faithful(s, Line(s, keep, acc, n + 1), n + 1)
<1>0. Every \in Subjects /\ Hit \subseteq Subjects /\ acc \in Accs  BY DEF Subjects, Faithful
<1>a. Faithful(s, Flush(acc), n)  BY FlushFaithful
<1>b. Faithful(s, Keep(Flush(acc), n + 1), n + 1) /\ Faithful(s, Keep(acc, n + 1), n + 1)
  BY <1>a, KeepFaithful
<1>1. CASE Selected = "grep"
  <2>1. Line(s, keep, acc, n + 1) = GrepLine(s, acc, n + 1)  BY <1>1 DEF Line
  <2>2. CASE s[n + 1] \cap Hit = {}
    <3>1. GrepLine(s, acc, n + 1) = Keep(Flush(acc), n + 1)  BY <2>2 DEF GrepLine
    <3> QED  BY <1>b, <2>1, <3>1
  <2>3. CASE s[n + 1] \cap Hit # {}
    <3> DEFINE f == CHOOSE g \in s[n + 1] \cap Hit : TRUE
               a == [acc EXCEPT !.seen[f] = @ + 1]
    <3>1. f \in Hit /\ SubjectOf(s, n + 1) = f /\ s[n + 1] \cap Telling = {}
      BY <1>1, <2>3, GrepMatch
    <3>2. a \in Accs
      <4> HIDE DEF f
      <4> QED  BY <1>0, <3>1, StepTypes
    <3>3. GrepLine(s, acc, n + 1)
            = IF a.seen[f] <= MaxPerFile THEN Keep(a, n + 1) ELSE Drop(a, f)
      BY <2>3 DEF GrepLine
    <3>4. a.out = acc.out /\ a.pending = acc.pending /\ a.total = acc.total
      BY <1>0 DEF Accs
    <3> HIDE DEF a, f
    <3>5. Faithful(s, a, n)  BY <3>2, <3>4, SameFaithful
    <3>6. Faithful(s, Keep(a, n + 1), n + 1)  BY <3>5, KeepFaithful
    <3>7. Faithful(s, Drop(a, f), n + 1)  BY <1>0, <3>1, <3>5, DropFaithful
    <3> QED  BY <2>1, <3>3, <3>6, <3>7
  <2> QED  BY <2>2, <2>3
<1>2. CASE Selected = "git"
  <2>1. Line(s, keep, acc, n + 1) = GitLine(s, acc, n + 1)  BY <1>2 DEF Line
  <2>2. SubjectOf(s, n + 1) = Every  BY <1>2, NoMatch
  <2>3. CASE s[n + 1] \cap {"header", "hunk"} # {}
    <3> DEFINE k == Keep(Flush(acc), n + 1)
               new == [k EXCEPT !.in = "hunk" \in s[n + 1]]
    <3>1. GitLine(s, acc, n + 1) = new  BY <2>3 DEF GitLine
    <3>2. Faithful(s, k, n + 1)  BY <1>b
    <3> HIDE DEF k
    <3>3. k \in Accs  BY <3>2 DEF Faithful
    <3>4. new \in Accs
      <4>1. ("hunk" \in s[n + 1]) \in BOOLEAN  OBVIOUS
      <4> QED  BY <3>3, <4>1, StepTypes
    <3>5. new.out = k.out /\ new.pending = k.pending /\ new.total = k.total
      BY <3>3 DEF Accs
    <3> HIDE DEF new
    <3>6. Faithful(s, new, n + 1)
      <4>1. n + 1 \in Nat  OBVIOUS
      <4> QED  BY <3>2, <3>4, <3>5, <4>1, SameFaithful
    <3> QED  BY <2>1, <3>1, <3>6
  <2>4. CASE s[n + 1] \cap {"header", "hunk"} = {} /\ acc.in /\ "stat" \notin s[n + 1]
    <3>1. Telling = {"header", "hunk", "stat"}  BY <1>2, SelectedOf
    <3>2. s[n + 1] \cap Telling = {}  BY <2>4, <3>1
    <3>3. GitLine(s, acc, n + 1) = Drop(acc, Every)  BY <2>4 DEF GitLine
    <3> QED  BY <1>0, <2>1, <2>2, <3>2, <3>3, DropFaithful
  <2>5. CASE s[n + 1] \cap {"header", "hunk"} = {} /\ ~(acc.in /\ "stat" \notin s[n + 1])
    <3>1. GitLine(s, acc, n + 1) = Keep(acc, n + 1)  BY <2>5 DEF GitLine
    <3> QED  BY <1>b, <2>1, <3>1
  <2> QED  BY <2>3, <2>4, <2>5
<1>3. CASE Selected \notin {"grep", "git"}
  <2>1. Line(s, keep, acc, n + 1) = LogLine(keep, acc, n + 1)  BY <1>3 DEF Line
  <2>2. SubjectOf(s, n + 1) = Every  BY <1>3, NoMatch
  <2>3. CASE n + 1 \in keep
    <3>1. LogLine(keep, acc, n + 1) = Keep(Flush(acc), n + 1)  BY <2>3 DEF LogLine
    <3> QED  BY <1>b, <2>1, <3>1
  <2>4. CASE n + 1 \notin keep
    <3>1. LogLine(keep, acc, n + 1) = Drop(acc, Every)  BY <2>4 DEF LogLine
    <3>2. s[n + 1] \cap Telling = {}  BY <1>3, <2>4 DEF Mute
    <3> QED  BY <1>0, <2>1, <2>2, <3>1, <3>2, DropFaithful
  <2> QED  BY <2>3, <2>4
<1> QED  BY <1>1, <1>2, <1>3

\* Of a log only what is worth it is kept.
LEMMA LogKeepsOnly ==
  ASSUME NEW s, NEW keep, NEW n \in Nat, NEW acc, Faithful(s, acc, n),
         Selected \notin {"grep", "git"}, KeptLines(acc.out) \subseteq keep,
         SubjectOf(s, n + 1) = Every, n + 1 \in keep \/ s[n + 1] \cap Telling = {}
  PROVE  KeptLines(Line(s, keep, acc, n + 1).out) \subseteq keep
<1>0. Every \in Subjects  BY DEF Subjects
<1>1. Line(s, keep, acc, n + 1) = LogLine(keep, acc, n + 1)  BY DEF Line
<1>2. CASE n + 1 \in keep
  <2>1. LogLine(keep, acc, n + 1) = Keep(Flush(acc), n + 1)  BY <1>2 DEF LogLine
  <2>2. Faithful(s, Flush(acc), n) /\ KeptLines(Flush(acc).out) = KeptLines(acc.out)
    BY FlushFaithful
  <2>3. KeptLines(Keep(Flush(acc), n + 1).out) = KeptLines(Flush(acc).out) \cup {n + 1}
    BY <2>2, KeepFaithful
  <2> QED  BY <1>1, <1>2, <2>1, <2>2, <2>3
<1>3. CASE n + 1 \notin keep
  <2>1. LogLine(keep, acc, n + 1) = Drop(acc, Every)  BY <1>3 DEF LogLine
  <2>2. Drop(acc, Every).out = acc.out  BY <1>0, <1>3, DropFaithful
  <2> QED  BY <1>1, <2>1, <2>2
<1> QED  BY <1>2, <1>3

\* The loop goes through the lines in their order.
LEMMA ScanIterates ==
  ASSUME NEW s \in Seq(Prints[Selected]), NEW keep
  PROVE  \E g \in [0..Len(s) -> Accs] :
           /\ g[0] = Start /\ Scanned(s, keep) = g[Len(s)]
           /\ \A i \in 1..Len(s) : g[i] = Line(s, keep, g[i - 1], i)
<1> DEFINE n == Len(s)
           I == 1..n
           ns == [i \in DOMAIN s |-> i]
           it == CHOOSE g : g = [t \in SUBSET DOMAIN ns |-> IF t = {} THEN Start
                   ELSE Line(s, keep, g[t \ {CHOOSE x \in t : \A y \in t : x >= y}],
                             ns[CHOOSE x \in t : \A y \in t : x >= y])]
           F == [p \in I \X Accs |-> Line(s, keep, p[2], p[1])]
           pick == LargestOf(I)
<1>1. DOMAIN s = I /\ n \in Nat /\ DOMAIN ns = I /\ \A i \in I : ns[i] = i /\ i \in Nat  OBVIOUS
<1>2. \A i \in I : s[i] \in Prints[Selected]  OBVIOUS
<1>3. IsFiniteSet(I) /\ I \in SUBSET Int
  <2>1. IsFiniteSet(1..n)  BY <1>1, FS_Interval
  <2>2. \A i \in 1..n : i \in Int  OBVIOUS
  <2> QED  BY <2>1, <2>2
<1>4. F \in [I \X Accs -> Accs] /\ \A i \in I, v \in Accs : F[<<i, v>>] = Line(s, keep, v, i)
  <2>1. \A p \in I \X Accs : Line(s, keep, p[2], p[1]) \in Accs
    <3>1. \A p \in I \X Accs : p[1] \in I /\ p[2] \in Accs  OBVIOUS
    <3> HIDE DEF I
    <3> QED  BY <1>1, <1>2, <3>1, LineTypes
  <2> HIDE DEF I
  <2> QED  BY <2>1
<1>5. pick \in Picks(I)  BY <1>3, LargestPicks
<1>6. \A t \in SUBSET I : t # {} =>
        pick[t] = (CHOOSE x \in t : \A y \in t : x >= y) /\ pick[t] \in t
  BY <1>5 DEF LargestOf, Picks
<1>7. Start \in Accs
  <2>1. <<>> \in Seq(Outs) /\ Nothing \in [Subjects -> Nat]  BY DEF Nothing
  <2> QED  BY <2>1 DEF Start, Accs
<1> HIDE DEF F, pick, I
<1>8. PICK g \in Iterations(I, Accs, Start, pick, F) : TRUE  BY <1>3, <1>4, <1>5, <1>7, FoldExists
<1>9. g = [t \in SUBSET I |-> IF t = {} THEN Start
             ELSE Line(s, keep, g[t \ {CHOOSE x \in t : \A y \in t : x >= y}],
                       ns[CHOOSE x \in t : \A y \in t : x >= y])]
  <2>1. g \in [SUBSET I -> Accs] /\ g = [t \in SUBSET I |-> IF t = {} THEN Start ELSE F[<<pick[t], g[t \ {pick[t]}]>>]]
    BY <1>8 DEF Iterations
  <2> HIDE DEF ns
  <2>2. \A t \in SUBSET I : t # {} => F[<<pick[t], g[t \ {pick[t]}]>>]
          = Line(s, keep, g[t \ {CHOOSE x \in t : \A y \in t : x >= y}],
                 ns[CHOOSE x \in t : \A y \in t : x >= y])
    <3> SUFFICES ASSUME NEW t \in SUBSET I, t # {}
                 PROVE  F[<<pick[t], g[t \ {pick[t]}]>>]
                          = Line(s, keep, g[t \ {pick[t]}], ns[pick[t]])
      BY <1>6
    <3>1. pick[t] \in I /\ g[t \ {pick[t]}] \in Accs  BY <1>6, <2>1
    <3>2. ns[pick[t]] = pick[t]  BY <1>1, <3>1
    <3> QED  BY <1>4, <3>1, <3>2
  <2> QED  BY <2>1, <2>2
<1>10. it = [t \in SUBSET I |-> IF t = {} THEN Start
             ELSE Line(s, keep, it[t \ {CHOOSE x \in t : \A y \in t : x >= y}],
                       ns[CHOOSE x \in t : \A y \in t : x >= y])]
  <2>1. DOMAIN ns = I  BY <1>1
  <2> HIDE DEF ns
  <2>2. \E h : h = [t \in SUBSET DOMAIN ns |-> IF t = {} THEN Start
             ELSE Line(s, keep, h[t \ {CHOOSE x \in t : \A y \in t : x >= y}],
                       ns[CHOOSE x \in t : \A y \in t : x >= y])]
    BY <1>9, <2>1
  <2>3. it = [t \in SUBSET DOMAIN ns |-> IF t = {} THEN Start
             ELSE Line(s, keep, it[t \ {CHOOSE x \in t : \A y \in t : x >= y}],
                       ns[CHOOSE x \in t : \A y \in t : x >= y])]
    BY <2>2
  <2> HIDE DEF it
  <2> QED  BY <2>1, <2>3
<1>11. Scanned(s, keep) = it[I]
  <2>1. Scanned(s, keep) = it[DOMAIN ns]
    BY DEF Scanned, FoldLeft, MapThenFoldSet, Max
  <2> QED  BY <1>1, <2>1
<1> HIDE DEF it
<1>12. Unfolds(it, I, Accs, Start, pick, F)
  <2>1. it = [t \in SUBSET I |-> it[t]]  BY <1>10
  <2>2. it[{}] = Start  BY <1>10
  <2>3. ASSUME NEW t \in (SUBSET I) \ {{}}, it[t \ {pick[t]}] \in Accs
        PROVE  it[t] = F[<<pick[t], it[t \ {pick[t]}]>>]
    <3> HIDE DEF ns
    <3>1. it[t] = Line(s, keep, it[t \ {pick[t]}], ns[pick[t]])  BY <1>6, <1>10
    <3>2. pick[t] \in I  BY <1>6
    <3>3. ns[pick[t]] = pick[t]  BY <1>1, <3>2
    <3> QED  BY <1>4, <2>3, <3>1, <3>2, <3>3
  <2> QED  BY <2>1, <2>2, <2>3 DEF Unfolds
<1>13. it \in Iterations(I, Accs, Start, pick, F)
  BY <1>3, <1>4, <1>5, <1>7, <1>12, FoldUnfolds
<1>14. /\ it[{}] = Start
       /\ \A k \in 1..n : it[1..k] = F[<<k, it[1..(k - 1)]>>]
  <2>1. it \in Iterations(1..n, Accs, Start, LargestOf(1..n), F)  BY <1>13 DEF I, pick
  <2> QED  BY <1>1, <2>1, FoldPrefixes
<1>15. \A t \in SUBSET I : it[t] \in Accs  BY <1>13 DEF Iterations
<1> DEFINE h == [k \in 0..n |-> it[1..k]]
<1>16. \A k \in 0..n : 1..k \in SUBSET I  BY <1>1 DEF I
<1>17. h \in [0..n -> Accs]  BY <1>15, <1>16
<1>18. 1..0 = {} /\ 0 \in 0..n /\ n \in 0..n  BY <1>1
<1>19. h[0] = Start /\ h[n] = it[I]  BY <1>14, <1>18 DEF I
<1>20. ASSUME NEW k \in 1..n PROVE h[k] = Line(s, keep, h[k - 1], k)
  <2>1. k \in 0..n /\ k - 1 \in 0..n /\ k \in I  BY <1>1 DEF I
  <2>2. it[1..k] = F[<<k, it[1..(k - 1)]>>]  BY <1>14
  <2>3. it[1..(k - 1)] \in Accs  BY <1>15, <1>16, <2>1
  <2> QED  BY <1>4, <2>1, <2>2, <2>3
<1> HIDE DEF h
<1> QED  BY <1>11, <1>17, <1>19, <1>20

\* What is not worth it in a log tells nothing.
LEMMA WorthTells ==
  ASSUME NEW s \in Seq(Prints[Selected]), Selected \in {"tests", "build"}
  PROVE  Mute(s, Worth(s)) /\ Worth(s) \subseteq 1..Len(s)
<1>1. DOMAIN s = 1..Len(s) /\ \A i \in DOMAIN s : s[i] \in Prints[Selected]  OBVIOUS
<1>2. Worth(s) \subseteq DOMAIN s
  BY DEF Worth, Telltale, Matching, Block
<1>3. CASE Selected = "build"
  <2>1. Telling = {"signal"}  BY <1>3, SelectedOf
  <2>2. \A i \in DOMAIN s : "signal" \in s[i] => i \in Worth(s)
    BY <1>3 DEF Worth, Telltale, Matching
  <2> QED  BY <1>1, <1>2, <2>1, <2>2 DEF Mute
<1>4. CASE Selected = "tests"
  <2>1. Telling = {"summary", "failure"}  BY <1>4, SelectedOf
  <2>2. \A i \in DOMAIN s : "summary" \in s[i] => i \in Worth(s)
    BY <1>4 DEF Worth, Telltale, Matching
  <2>3. ASSUME NEW i \in DOMAIN s, "failure" \in s[i] PROVE i \in Worth(s)
    <3>1. i \in Block(s, i)
      <4>1. BlockLines \in Nat \ {0} /\ i \in Nat  BY <1>1, CompressAssumption
      <4>2. i \in i..(i + BlockLines - 1) /\ (i + 1)..i = {}  BY <4>1
      <4> QED  BY <2>3, <4>2 DEF Block
    <3>2. i \in Matching(s, "failure")  BY <2>3 DEF Matching
    <3> QED  BY <1>4, <3>1, <3>2 DEF Worth, Telltale
  <2>5. ASSUME NEW i \in DOMAIN s, i \notin Worth(s) PROVE s[i] \cap Telling = {}
    BY <2>1, <2>2, <2>3, <2>5
  <2> QED  BY <1>1, <1>2, <2>5 DEF Mute
<1> QED  BY <1>3, <1>4

\* Before the first line nothing is gone.
LEMMA StartFaithful == ASSUME NEW s PROVE Faithful(s, Start, 0) /\ KeptLines(Start.out) = {}
<1>1. /\ <<>> \in Seq(Outs) /\ Len(<<>>) = 0 /\ DOMAIN <<>> = {} /\ 1..0 = {}
      /\ Nothing \in [Subjects -> Nat]
  BY DEF Nothing
<1>2. Start.out = <<>> /\ Start.pending = Nothing /\ Start.total = 0 /\ Start \in Accs
  BY <1>1 DEF Start, Accs
<1>3. Places(<<>>) = {} /\ KeptLines(<<>>) = {} /\ Gone(<<>>, 0) = {}
  BY <1>1 DEF Places, KeptLines, Gone
<1>4. ASSUME NEW of \in Subjects
      PROVE  Counted(<<>>, Len(<<>>), of) + Nothing[of] = Cardinality(About(s, Gone(<<>>, 0), of))
  <2>1. PICK e : e = <<>>  OBVIOUS
  <2>2. About(s, Gone(e, 0), of) = {}  BY <1>3, <2>1 DEF About
  <2>3. Cardinality({}) = 0  BY FS_EmptySet
  <2>4. e \in Seq(Outs) /\ Len(e) = 0  BY <2>1
  <2>5. Counted(e, 0, of) = 0  BY <2>4, CountedSteps
  <2>6. Nothing[of] = 0  BY DEF Nothing
  <2>7. Counted(e, Len(e), of) + Nothing[of] = Cardinality(About(s, Gone(e, 0), of))
    BY <2>2, <2>3, <2>4, <2>5, <2>6
  <2> QED  BY <2>1, <2>7
<1> QED  BY <1>2, <1>3, <1>4 DEF Faithful

\* The whole loop is faithful to the output.
LEMMA ScannedFaithful ==
  ASSUME NEW s \in Seq(Prints[Selected]), NEW keep,
         Selected \in {"grep", "git"} \/ Mute(s, keep)
  PROVE  /\ Faithful(s, Scanned(s, keep), Len(s))
         /\ Selected \notin {"grep", "git"} => KeptLines(Scanned(s, keep).out) \subseteq keep
<1> DEFINE n == Len(s)
           log == Selected \notin {"grep", "git"}
<1>1. n \in Nat /\ DOMAIN s = 1..n /\ \A i \in 1..n : s[i] \in Prints[Selected]  OBVIOUS
<1>2. PICK g \in [0..n -> Accs] :
        /\ g[0] = Start /\ Scanned(s, keep) = g[n]
        /\ \A i \in 1..n : g[i] = Line(s, keep, g[i - 1], i)
  BY ScanIterates
<1> DEFINE N == {k \in Nat : k <= n => Faithful(s, g[k], k) /\ (log => KeptLines(g[k].out) \subseteq keep)}
<1>3. 0 \in N  BY <1>2, StartFaithful
<1> HIDE DEF n
<1>4. ASSUME NEW k \in N PROVE k + 1 \in N
  <2> SUFFICES ASSUME k + 1 <= n
               PROVE  Faithful(s, g[k + 1], k + 1) /\ (log => KeptLines(g[k + 1].out) \subseteq keep)
    OBVIOUS
  <2>1. k \in Nat /\ k <= n /\ k + 1 \in 1..n /\ (k + 1) - 1 = k  BY <1>1
  <2>2. Faithful(s, g[k], k) /\ (log => KeptLines(g[k].out) \subseteq keep)  BY <2>1
  <2>3. g[k + 1] = Line(s, keep, g[k], k + 1)  BY <1>2, <2>1
  <2>4. k + 1 \in DOMAIN s /\ s[k + 1] \in Prints[Selected]  BY <1>1, <2>1
  <2>5. Faithful(s, g[k + 1], k + 1)  BY <2>1, <2>2, <2>3, <2>4, LineFaithful
  <2>6. ASSUME log PROVE KeptLines(g[k + 1].out) \subseteq keep
    <3>1. SubjectOf(s, k + 1) = Every  BY <2>4, <2>6, NoMatch
    <3>2. k + 1 \in keep \/ s[k + 1] \cap Telling = {}  BY <2>4, <2>6 DEF Mute
    <3> QED  BY <2>1, <2>2, <2>3, <2>6, <3>1, <3>2, LogKeepsOnly
  <2> QED  BY <2>5, <2>6
<1>5. N = Nat
  <2>1. N \in SUBSET Nat  OBVIOUS
  <2> HIDE DEF N
  <2> QED  BY <1>3, <1>4, <2>1, Induct
<1>6. n \in N  BY <1>1, <1>5
<1>7. n <= n  BY <1>1
<1> QED  BY <1>2, <1>6, <1>7 DEF n

\* decide, of any output, lines of other tools among it: a replacement keeps in its order
\* every line the chosen compressor knows to matter, and its counts say of each file and
\* altogether how much is gone, at least a line, and never before it is.
THEOREM CompressedTells ==
  ASSUME NEW s \in Seq(Prints[Selected]), Compressed(s) # Declined
  PROVE  Tells(s, Compressed(s))
<1> DEFINE n == Len(s)
           keep == Worth(s)
           acc == Scanned(s, keep)
           new == Flush(acc)
           out == new.out
<1>1. n \in Nat /\ DOMAIN s = 1..n  OBVIOUS
<1>2. Compressed(s) = out /\ ~Declines(s, keep)  BY DEF Compressed
<1>3. Selected \in {"grep", "git"} \/ Mute(s, keep)
  BY <1>2, WorthTells, SelectedOf DEF Declines
<1>4. Faithful(s, acc, n) /\ (Selected \notin {"grep", "git"} => KeptLines(acc.out) \subseteq keep)
  BY <1>3, ScannedFaithful
<1>5. Gone(acc.out, n) # {}
  <2>1. CASE Selected \in {"grep", "git"}
    <3>1. acc.total # 0  BY <1>2, <2>1 DEF Declines
    <3> HIDE DEF acc
    <3> QED  BY <1>4, <3>1 DEF Faithful
  <2>2. CASE Selected \notin {"grep", "git"}
    <3>1. Selected \in {"tests", "build"} /\ ~(Len(s) < MinLines) /\ ~(10 * Cardinality(keep) > 8 * Len(s))
      BY <1>2, <2>2, SelectedOf DEF Declines
    <3>2. keep \subseteq 1..n  BY <3>1, WorthTells
    <3>3. IsFiniteSet(1..n) /\ Cardinality(1..n) = n
      <4>1. Cardinality(1..n) = IF 1 > n THEN 0 ELSE n - 1 + 1  BY <1>1, FS_Interval
      <4> HIDE DEF n
      <4> QED  BY <1>1, <4>1, FS_Interval
    <3>4. keep # 1..n
      <4> SUFFICES ASSUME Cardinality(keep) = n PROVE FALSE  BY <3>3
      <4>1. MinLines \in Nat \ {0}  BY CompressAssumption
      <4> HIDE DEF keep
      <4>2. n >= MinLines /\ ~(10 * n > 8 * n)  BY <1>1, <3>1, <4>1
      <4> HIDE DEF n
      <4> QED  BY <1>1, <4>1, <4>2
    <3>5. PICK i \in 1..n : i \notin keep
      <4> HIDE DEF keep, n
      <4> QED  BY <3>2, <3>4
    <3>6. i \notin KeptLines(acc.out)
      <4> HIDE DEF keep, acc
      <4> QED  BY <1>4, <2>2, <3>5
    <3> HIDE DEF acc
    <3> QED  BY <3>5, <3>6 DEF Gone
  <2> QED  BY <2>1, <2>2
<1> HIDE DEF acc
<1>6. Faithful(s, new, n) /\ new.pending = Nothing /\ KeptLines(out) = KeptLines(acc.out)
  BY <1>1, <1>4, FlushFaithful
<1> HIDE DEF new
<1>7. Missing(s, out) = Gone(out, n) /\ Gone(out, n) # {}
  BY <1>1, <1>5, <1>6 DEF Missing, Gone, KeptLines
<1>8. /\ out \in Seq(Outs) /\ Len(out) \in Nat
  BY <1>6 DEF Faithful, Accs
<1>9. ASSUME NEW of \in Subjects
      PROVE  LET gone == {i \in Missing(s, out) : SubjectOf(s, i) = of} IN
             /\ Counted(out, Len(out), of) = Cardinality(gone)
             /\ \A p \in Places(out) : Counted(out, p, of) <= Cardinality({i \in gone : i < out[p].line})
  <2>1. {i \in Missing(s, out) : SubjectOf(s, i) = of} = About(s, Gone(out, n), of)  BY <1>7 DEF About
  <2>2. /\ Counted(out, Len(out), of) + new.pending[of] = Cardinality(About(s, Gone(out, n), of))
        /\ \A p \in Places(out) :
             Counted(out, p, of) <= Cardinality({i \in About(s, Gone(out, n), of) : i < out[p].line})
    BY <1>6 DEF Faithful
  <2>3. new.pending[of] = 0  BY <1>6 DEF Nothing
  <2>4. Counted(out, Len(out), of) \in Nat
    <3>1. Len(out) \in 0..Len(out)  BY <1>8
    <3> QED  BY <1>8, <3>1, CountedSteps
  <2>5. Counted(out, Len(out), of) = Cardinality(About(s, Gone(out, n), of))  BY <2>2, <2>3, <2>4
  <2> QED  BY <2>1, <2>2, <2>5
<1>10. /\ \A p, q \in Places(out) : p < q => out[p].line < out[q].line
       /\ \A i \in Missing(s, out) : s[i] \cap Telling = {}
  BY <1>6, <1>7 DEF Faithful
<1> HIDE DEF out
<1>11. Tells(s, out)  BY <1>7, <1>9, <1>10 DEF Tells
<1> QED  BY <1>2, <1>11

\* What the agent is shown is made of the text, and the text of lines of the tool.
OutputInv ==
  /\ text \in Seq(Prints[Selected])
  /\ NothingSilentlyLost

\* Whatever a tool prints, nothing that the chosen compressor knows to matter is removed
\* from it, and nothing else silently.
THEOREM NothingIsLost == OutputSpec => []NothingSilentlyLost
<1>1. OutputInit => OutputInv
  BY DEF OutputInit, OutputInv, NothingSilentlyLost
<1>2. OutputInv /\ [OutputNext]_outputVars => OutputInv'
  <2> SUFFICES ASSUME OutputInv, [OutputNext]_outputVars PROVE OutputInv'  OBVIOUS
  <2>1. ASSUME NEW line \in Prints[Selected], PrintLine(line) PROVE OutputInv'
    <3>1. Append(text, line) \in Seq(Prints[Selected])  BY DEF OutputInv
    <3>2. text' \in Seq(Prints[Selected])' BY <2>1, <3>1 DEF PrintLine, Selected
    <3>3. NothingSilentlyLost'  BY <2>1 DEF PrintLine, NothingSilentlyLost
    <3> QED  BY <3>2, <3>3 DEF OutputInv
  <2>2. ASSUME UNCHANGED <<tool, command, text>>, answer'.at # "replaced" PROVE OutputInv'
    <3>1. text' \in Seq(Prints[Selected])'  BY <2>2 DEF OutputInv, Selected
    <3> QED  BY <2>2, <3>1 DEF OutputInv, NothingSilentlyLost
  <2>3. CASE Leave
    <3>1. answer' = [at |-> "shown"]  BY <2>3 DEF Leave, Untouched
    <3>2. answer'.at # "replaced"  BY <3>1
    <3> QED  BY <2>2, <2>3, <3>2 DEF Leave
  <2>4. ASSUME NEW write \in {"raises", "fails", "written"}, Replace(write) PROVE OutputInv'
    <3>1. UNCHANGED <<tool, command, text>> /\ Compressed(text) # Declined  BY <2>4 DEF Replace
    <3>2. CASE write = "raises"
      <4>1. answer' = [at |-> "shown"]  BY <2>4, <3>2 DEF Replace, Untouched
      <4>2. answer'.at # "replaced"  BY <4>1
      <4> QED  BY <2>2, <3>1, <4>2
    <3>3. CASE write \in {"fails", "written"}
      <4>1. /\ answer'.lines = Compressed(text)
            /\ answer'.pointer => spool' = text
        <5>1. CASE write = "fails"
          <6>1. answer' = [at |-> "replaced", lines |-> Compressed(text), pointer |-> FALSE]
            BY <2>4, <5>1 DEF Replace
          <6> QED  BY <6>1
        <5>2. CASE write = "written"
          <6>1. /\ answer' = [at |-> "replaced", lines |-> Compressed(text), pointer |-> TRUE]
                /\ spool' = text
            BY <2>4, <5>2 DEF Replace
          <6> QED  BY <6>1
        <5> QED  BY <3>3, <5>1, <5>2
      <4>2. text \in Seq(Prints[Selected])  BY DEF OutputInv
      <4>3. Tells(text, Compressed(text))  BY <3>1, <4>2, CompressedTells
      <4>4. Tells(text, answer.lines)'
        <5>1. Telling' = Telling  BY <3>1 DEF Telling, Selected
        <5>2. text' = text /\ answer'.lines = Compressed(text)  BY <3>1, <4>1
        <5> QED  BY <4>3, <5>1, <5>2 DEF Tells
      <4>5. text' \in Seq(Prints[Selected])'  BY <3>1, <4>2 DEF Selected
      <4> QED  BY <3>1, <4>1, <4>4, <4>5 DEF OutputInv, NothingSilentlyLost
    <3> QED  BY <3>2, <3>3
  <2>5. CASE UNCHANGED outputVars
    <3>1. UNCHANGED <<tool, command, text, spool, answer>>  BY <2>5 DEF outputVars
    <3>2. text' \in Seq(Prints[Selected])'  BY <3>1 DEF OutputInv, Selected
    <3>3. ASSUME answer.at = "replaced" PROVE Tells(text, answer.lines)'
      <4>1. Tells(text, answer.lines)  BY <3>3 DEF OutputInv, NothingSilentlyLost
      <4>2. Telling' = Telling  BY <3>1 DEF Telling, Selected
      <4>3. text' = text /\ answer' = answer  BY <3>1
      <4> QED  BY <4>1, <4>2, <4>3 DEF Tells
    <3> QED  BY <3>1, <3>2, <3>3 DEF OutputInv, NothingSilentlyLost
  <2> QED  BY <2>1, <2>3, <2>4, <2>5 DEF OutputNext
<1>3. OutputInv => NothingSilentlyLost  BY DEF OutputInv
<1> QED  BY <1>1, <1>2, <1>3, PTL DEF OutputSpec
=============================================================================
