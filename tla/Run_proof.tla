------------------------------ MODULE Run_proof ------------------------------
(***************************************************************************)
(* What a run may rely on.  Its daemon: while no hook overlaps an end, the *)
(* refcount file counts the live sessions and each of them has the one     *)
(* daemon, for any number of sessions (Lifecycle).  Its plan: implemented  *)
(* only as it was decided and only when the user said so, for any          *)
(* specialists and requests and any number of dead sessions (Phases).  Its *)
(* reviewers: what they are told was checked holds of the commit they look *)
(* at, for any worktrees and rounds (Sieve); no round closes unread, and   *)
(* what Fold makes of their findings has all of them, for any findings     *)
(* (Review).  The four share no state: each has an inductive invariant of  *)
(* its own.                                                                *)
(***************************************************************************)
EXTENDS Lifecycle, Sieve, Phases, Review, Folding, FiniteSetTheorems, SequenceTheorems, TLAPS

-----------------------------------------------------------------------------
(* Sessions and their daemon: the inductive invariant. *)

\* A boot past its flock holds boot.lock, and a session that is off never boots.
Locks ==
  \A s \in Sessions :
    /\ pc[s] \in BootPcs \ {"lock"} <=> lock = s
    /\ pc[s] \in BootPcs => s \notin Disabled
    /\ s \in Disabled /\ pc[s] \in EndPcs => "disabled" \in upset

\* Without an overlap an end runs alone, and a hook writes what it has just read.
Apart ==
  "overlap" \notin upset => \A s \in Sessions :
    /\ pc[s] \in EndPcs => \A r \in Sessions : pc[r] \in BootPcs \cup EndPcs => r = s
    /\ pc[s] \in {"bootwrite", "endwrite"} => seen[s] = refcount

\* The sessions the count is about: live, or with an end that has not written yet.
Holds == {s \in Sessions \ Disabled : pc[s] \in {"live", "endread", "endwrite"}}

\* The file counts them: never too few but for an overlap, a start that failed or a
\* session that is off, and exactly but for a compaction or a crash.
Counts ==
  /\ "overlap" \notin upset /\ "failure" \notin upset /\ "disabled" \notin upset =>
       /\ refcount >= Cardinality(Holds)
       /\ \A s \in Sessions : pc[s] = "shutdown" => Holds = {}
  /\ upset \subseteq {"timeout", "off"} => refcount = Cardinality(Holds)

\* The sessions that rely on a daemon: live, or with a boot that has seen to one.
Needs == {s \in Sessions \ Disabled : pc[s] \in {"live", "wait", "bootread", "bootwrite"}}

\* Nobody boots, and nobody relies on it, while a daemon closes; while somebody does
\* there is one; and a boot that has not given up waits for the only one.
Served ==
  /\ "overlap" \notin upset /\ "off" \notin upset /\ server = "closing" => \A s \in Sessions : pc[s] \notin BootPcs
  /\ "overlap" \notin upset /\ "failure" \notin upset /\ "off" \notin upset /\ "disabled" \notin upset =>
       /\ server = "closing" => Needs = {}
       /\ Needs # {} => server = "serving" \/ starting > 0
  /\ "overlap" \notin upset /\ "timeout" \notin upset /\ "off" \notin upset =>
       \/ starting = 0
       \/ starting = 1 /\ server = "none" /\ \E s \in Sessions : pc[s] = "wait"

IInv == TypeOK /\ Locks /\ Apart /\ Counts /\ Served

-----------------------------------------------------------------------------
(* Types, and what every step keeps. *)

\* A disorder that has happened is not forgotten.
LEMMA UpsetStays ==
  ASSUME [Next]_vars
  PROVE  upset \subseteq upset'
BY DEF Next, vars, SessionStart, SessionRestart, SessionEnd, BootStep, EndStep, Crash, Daemon, StopDaemon,
       Lock, HealthUp, HealthDown, SpawnFails, Wait, BootRead, BootWrite, EndRead, EndWrite,
       RequestShutdown, Bind, Close

\* A step of a hook moves one session from one place to another.
LEMMA Moves ==
  ASSUME TypeOK, [Next]_vars
  PROVE  \/ pc' = pc
         \/ \E s \in Sessions, q \in {"new", "live", "ended", "gone"} \cup BootPcs \cup EndPcs :
              pc' = [pc EXCEPT ![s] = q]
<1>p. BootPcs = {"lock", "health", "wait", "bootread", "bootwrite"} /\ EndPcs = {"endread", "endwrite", "shutdown"}
  BY DEF BootPcs, EndPcs
<1>1. ASSUME NEW s \in Sessions,
             SessionStart(s) \/ SessionRestart(s) \/ SessionEnd(s) \/ BootStep(s) \/ EndStep(s) \/ Crash(s)
      PROVE  \E q \in {"new", "live", "ended", "gone"} \cup BootPcs \cup EndPcs : pc' = [pc EXCEPT ![s] = q]
  BY <1>1, <1>p DEF SessionStart, SessionRestart, SessionEnd, BootStep, EndStep, Crash,
       Lock, HealthUp, HealthDown, SpawnFails, Wait, BootRead, BootWrite, EndRead, EndWrite, RequestShutdown
<1>2. CASE Daemon \/ StopDaemon \/ UNCHANGED vars
  BY <1>2 DEF Daemon, Bind, Close, StopDaemon, vars
<1> QED  BY <1>1, <1>2 DEF Next

\* The variables keep their types.
LEMMA TypeInductive ==
  ASSUME TypeOK, [Next]_vars
  PROVE  TypeOK'
<1>p. pc' \in [Sessions -> {"new", "live", "ended", "gone"} \cup BootPcs \cup EndPcs]
  BY Moves DEF TypeOK
<1>u. upset' \subseteq Upsets
  <2>1. upset \subseteq Upsets /\ \A hooks : Overlap(hooks) \subseteq Upsets
    BY DEF TypeOK, Overlap, Upsets
  <2>2. ASSUME NEW s \in Sessions, SessionStart(s) \/ SessionRestart(s) \/ SessionEnd(s) \/ Crash(s)
        PROVE  upset' \subseteq Upsets
    BY <2>1, <2>2, ZenonT(30) DEF Upsets, SessionStart, SessionRestart, SessionEnd, Crash
  <2>3. ASSUME NEW s \in Sessions, BootStep(s) \/ EndStep(s)  PROVE upset' \subseteq Upsets
    BY <2>1, <2>3 DEF Upsets, BootStep, EndStep, Lock, HealthUp, HealthDown, SpawnFails, Wait, BootRead,
         BootWrite, EndRead, EndWrite, RequestShutdown
  <2>4. CASE Daemon \/ StopDaemon \/ UNCHANGED vars
    BY <2>1, <2>4 DEF Upsets, Daemon, Bind, Close, StopDaemon, vars
  <2> QED  BY <2>2, <2>3, <2>4 DEF Next
<1>1. ASSUME NEW s \in Sessions, SessionStart(s) \/ SessionRestart(s) \/ SessionEnd(s) \/ Crash(s)
      PROVE  TypeOK'
  BY <1>1, <1>p, <1>u DEF TypeOK, SessionStart, SessionRestart, SessionEnd, Crash
<1>2. ASSUME NEW s \in Sessions, Lock(s) \/ HealthUp(s) \/ HealthDown(s) \/ SpawnFails(s) \/ Wait(s)
      PROVE  TypeOK'
  <2>1. UNCHANGED <<seen, refcount, server, reboots>>
    BY <1>2 DEF Lock, HealthUp, HealthDown, SpawnFails, Wait
  <2>2. lock' \in {lock, s, NoSession} /\ starting' \in {starting, starting + 1}
    BY <1>2 DEF Lock, HealthUp, HealthDown, SpawnFails, Wait
  <2>3. starting' \in Nat /\ lock' \in Sessions \cup {NoSession}  BY <2>2 DEF TypeOK
  <2> QED  BY <2>1, <2>3, <1>p, <1>u DEF TypeOK
<1>3. ASSUME NEW s \in Sessions, BootRead(s) \/ BootWrite(s)  PROVE TypeOK'
  BY <1>3, <1>p, <1>u DEF TypeOK, BootRead, BootWrite
<1>4. ASSUME NEW s \in Sessions, EndStep(s)  PROVE TypeOK'
  <2>1. seen[s] \in Nat  BY DEF TypeOK
  <2>2. Remaining(s) \in Nat  BY <2>1 DEF Remaining
  <2>3. CASE EndRead(s)  BY <2>3, <1>p, <1>u DEF TypeOK, EndRead
  <2>4. CASE EndWrite(s)  BY <2>4, <2>2, <1>p, <1>u DEF TypeOK, EndWrite
  <2>5. CASE RequestShutdown(s)  BY <2>5, <1>p, <1>u DEF TypeOK, RequestShutdown
  <2> QED  BY <1>4, <2>3, <2>4, <2>5 DEF EndStep
<1>5. CASE Daemon \/ StopDaemon \/ UNCHANGED vars
  BY <1>5, <1>p, <1>u DEF TypeOK, Daemon, Bind, Close, StopDaemon, vars
<1> QED  BY <1>1, <1>2, <1>3, <1>4, <1>5 DEF Next, BootStep

-----------------------------------------------------------------------------
(* The lock, and hooks that run apart. *)

\* A boot past its flock holds the lock, after every step.
LEMMA LocksInductive ==
  ASSUME TypeOK, Locks, [Next]_vars
  PROVE  Locks'
<1>p. BootPcs = {"lock", "health", "wait", "bootread", "bootwrite"} /\ EndPcs = {"endread", "endwrite", "shutdown"}
  BY DEF BootPcs, EndPcs
<1>n. NoSession \notin Sessions  BY LifecycleAssumption
<1>u. "disabled" \in upset => "disabled" \in upset'  BY UpsetStays
<1>1. ASSUME NEW s \in Sessions, SessionStart(s) \/ SessionRestart(s) \/ Crash(s)
      PROVE  Locks'
  BY <1>1, <1>p, <1>n, <1>u DEF Locks, TypeOK, SessionStart, SessionRestart, Crash
<1>2. ASSUME NEW s \in Sessions, SessionEnd(s)  PROVE Locks'
  <2>1. s \in Disabled => "disabled" \in upset'  BY <1>2 DEF SessionEnd
  <2>2. pc[s] = "live" /\ pc' = [pc EXCEPT ![s] = "endread"] /\ lock' = lock  BY <1>2 DEF SessionEnd
  <2> QED  BY <2>1, <2>2, <1>p, <1>n, <1>u DEF Locks, TypeOK
<1>3. ASSUME NEW s \in Sessions, Lock(s)  PROVE Locks'
  BY <1>3, <1>p, <1>n, <1>u DEF Locks, TypeOK, Lock
<1>4. ASSUME NEW s \in Sessions, HealthUp(s) \/ HealthDown(s) \/ Wait(s) \/ BootRead(s)  PROVE Locks'
  BY <1>4, <1>p, <1>n, <1>u DEF Locks, TypeOK, HealthUp, HealthDown, Wait, BootRead
<1>5. ASSUME NEW s \in Sessions, SpawnFails(s) \/ BootWrite(s)  PROVE Locks'
  BY <1>5, <1>p, <1>n, <1>u DEF Locks, TypeOK, SpawnFails, BootWrite
<1>6. ASSUME NEW s \in Sessions, EndStep(s)  PROVE Locks'
  BY <1>6, <1>p, <1>n, <1>u DEF Locks, TypeOK, EndStep, EndRead, EndWrite, RequestShutdown
<1>7. CASE Daemon \/ StopDaemon \/ UNCHANGED vars
  BY <1>7, <1>p, <1>u DEF Locks, Daemon, Bind, Close, StopDaemon, vars
<1> QED  BY <1>1, <1>2, <1>3, <1>4, <1>5, <1>6, <1>7 DEF Next, BootStep

\* Without an overlap hooks run apart, after every step.
LEMMA ApartInductive ==
  ASSUME TypeOK, Locks, Apart, [Next]_vars
  PROVE  Apart'
<1>p. BootPcs = {"lock", "health", "wait", "bootread", "bootwrite"} /\ EndPcs = {"endread", "endwrite", "shutdown"}
  BY DEF BootPcs, EndPcs
<1>n. NoSession \notin Sessions  BY LifecycleAssumption
<1> SUFFICES ASSUME "overlap" \notin upset'
             PROVE  \A s \in Sessions :
                      /\ pc'[s] \in EndPcs => \A r \in Sessions : pc'[r] \in BootPcs \cup EndPcs => r = s
                      /\ pc'[s] \in {"bootwrite", "endwrite"} => seen'[s] = refcount'
  BY DEF Apart
<1> DEFINE Goal == \A s \in Sessions :
                     /\ pc'[s] \in EndPcs => \A r \in Sessions : pc'[r] \in BootPcs \cup EndPcs => r = s
                     /\ pc'[s] \in {"bootwrite", "endwrite"} => seen'[s] = refcount'
<1>u. "overlap" \notin upset  BY UpsetStays
<1>1. ASSUME NEW s \in Sessions, SessionStart(s) \/ SessionRestart(s)  PROVE Goal
  <2>1. Ending = {}  BY <1>1 DEF SessionStart, SessionRestart, Overlap
  <2> QED  BY <1>1, <1>u, <1>p, <2>1 DEF Apart, TypeOK, Ending, SessionStart, SessionRestart
<1>2. ASSUME NEW s \in Sessions, SessionEnd(s)  PROVE Goal
  <2>1. Ending \cup Booting = {}  BY <1>2 DEF SessionEnd, Overlap
  <2> QED  BY <1>2, <1>u, <1>p, <2>1 DEF Apart, TypeOK, Ending, Booting, SessionEnd
<1>3. ASSUME NEW s \in Sessions, Crash(s)  PROVE Goal
  BY <1>3, <1>u, <1>p DEF Apart, TypeOK, Crash
<1>4. ASSUME NEW s \in Sessions, Lock(s) \/ HealthUp(s) \/ HealthDown(s) \/ SpawnFails(s) \/ Wait(s)  PROVE Goal
  <2>1. /\ \E q \in {"live", "health", "wait", "bootread"} : pc' = [pc EXCEPT ![s] = q]
        /\ pc[s] \in BootPcs /\ seen' = seen /\ refcount' = refcount
    BY <1>4, <1>p DEF Lock, HealthUp, HealthDown, SpawnFails, Wait
  <2> QED  BY <2>1, <1>u, <1>p DEF Apart, TypeOK
<1>5. ASSUME NEW s \in Sessions, BootRead(s)  PROVE Goal
  BY <1>5, <1>u, <1>p DEF Apart, TypeOK, BootRead
<1>6. ASSUME NEW s \in Sessions, BootWrite(s)  PROVE Goal
  <2>1. lock = s  BY <1>6, <1>p DEF Locks, BootWrite
  <2>2. \A r \in Sessions : pc[r] = "bootwrite" => r = s  BY <2>1, <1>p DEF Locks
  <2> QED  BY <1>6, <1>u, <1>p, <2>2 DEF Apart, TypeOK, BootWrite
<1>7. ASSUME NEW s \in Sessions, EndStep(s)  PROVE Goal
  BY <1>7, <1>u, <1>p DEF Apart, TypeOK, EndStep, EndRead, EndWrite, RequestShutdown
<1>8. CASE Daemon \/ StopDaemon \/ UNCHANGED vars
  BY <1>8, <1>u DEF Apart, Daemon, Bind, Close, StopDaemon, vars
<1> QED  BY <1>1, <1>2, <1>3, <1>4, <1>5, <1>6, <1>7, <1>8 DEF Next, BootStep

-----------------------------------------------------------------------------
(* The refcount. *)

\* What a step does to the sessions that hold the count, and to the count.
LEMMA CountStep ==
  ASSUME TypeOK, Locks, Apart, [Next]_vars
  PROVE  \/ /\ Holds' = Holds /\ refcount' = refcount
            /\ \A r \in Sessions : pc'[r] = "shutdown" => pc[r] = "shutdown"
         \/ /\ "compaction" \in upset' \/ "crash" \in upset'
            /\ Holds' \subseteq Holds /\ refcount' = refcount
            /\ \A r \in Sessions : pc'[r] = "shutdown" => pc[r] = "shutdown"
         \/ "failure" \in upset' \/ "disabled" \in upset' \/ "overlap" \in upset'
         \/ \E s \in Sessions : /\ s \notin Holds /\ Holds' = Holds \cup {s} /\ refcount' = refcount + 1
                                /\ \A r \in Sessions : pc'[r] # "shutdown"
         \/ \E s \in Holds : /\ Holds' = Holds \ {s} /\ refcount' = (IF refcount = 0 THEN 0 ELSE refcount - 1)
                             /\ \A r \in Sessions : pc'[r] = "shutdown" => refcount' = 0
<1>p. BootPcs = {"lock", "health", "wait", "bootread", "bootwrite"} /\ EndPcs = {"endread", "endwrite", "shutdown"}
  BY DEF BootPcs, EndPcs
<1>u. upset \subseteq upset'  BY UpsetStays
<1>1. ASSUME NEW s \in Sessions, SessionStart(s)
      PROVE  /\ Holds' = Holds /\ refcount' = refcount
             /\ \A r \in Sessions : pc'[r] = "shutdown" => pc[r] = "shutdown"
  BY <1>1 DEF SessionStart, Holds, TypeOK
<1>2. ASSUME NEW s \in Sessions, SessionRestart(s) \/ Crash(s)
      PROVE  /\ "compaction" \in upset' \/ "crash" \in upset'
             /\ Holds' \subseteq Holds /\ refcount' = refcount
             /\ \A r \in Sessions : pc'[r] = "shutdown" => pc[r] = "shutdown"
  <2>1. "compaction" \in upset' \/ "crash" \in upset'  BY <1>2 DEF SessionRestart, Crash
  <2>2. \E q \in {"lock", "gone"} : pc' = [pc EXCEPT ![s] = q]  BY <1>2 DEF SessionRestart, Crash
  <2>3. refcount' = refcount  BY <1>2 DEF SessionRestart, Crash
  <2> QED  BY <2>1, <2>2, <2>3 DEF Holds, TypeOK
<1>3. ASSUME NEW s \in Sessions, SessionEnd(s)
      PROVE  /\ Holds' = Holds /\ refcount' = refcount
             /\ \A r \in Sessions : pc'[r] = "shutdown" => pc[r] = "shutdown"
  BY <1>3 DEF SessionEnd, Holds, TypeOK
<1>4. ASSUME NEW s \in Sessions, Lock(s) \/ HealthUp(s) \/ HealthDown(s) \/ Wait(s) \/ BootRead(s)
      PROVE  /\ Holds' = Holds /\ refcount' = refcount
             /\ \A r \in Sessions : pc'[r] = "shutdown" => pc[r] = "shutdown"
  <2>1. /\ \E q \in BootPcs : pc' = [pc EXCEPT ![s] = q]
        /\ pc[s] \in BootPcs /\ refcount' = refcount
    BY <1>4, <1>p DEF Lock, HealthUp, HealthDown, Wait, BootRead
  <2> QED  BY <2>1, <1>p DEF Holds, TypeOK
<1>5. ASSUME NEW s \in Sessions, SpawnFails(s)  PROVE "failure" \in upset'
  BY <1>5 DEF SpawnFails
<1>6. ASSUME NEW s \in Sessions, BootWrite(s), "overlap" \notin upset'
      PROVE  /\ s \notin Holds /\ Holds' = Holds \cup {s} /\ refcount' = refcount + 1
             /\ \A r \in Sessions : pc'[r] # "shutdown"
  <2>0. /\ pc[s] = "bootwrite" /\ pc' = [pc EXCEPT ![s] = "live"] /\ refcount' = seen[s] + 1
    BY <1>6 DEF BootWrite
  <2>1. s \notin Disabled  BY <2>0, <1>p DEF Locks
  <2>2. refcount' = refcount + 1  BY <2>0, <1>6, <1>u DEF Apart
  <2>3. s \notin Holds /\ Holds' = Holds \cup {s}  BY <2>0, <2>1 DEF Holds, TypeOK
  <2>4. \A r \in Sessions : pc[r] # "shutdown"
    BY <2>0, <1>6, <1>u, <1>p DEF Apart
  <2> QED  BY <2>0, <2>2, <2>3, <2>4 DEF TypeOK
<1>7. ASSUME NEW s \in Sessions, EndRead(s) \/ RequestShutdown(s)
      PROVE  /\ Holds' = Holds /\ refcount' = refcount
             /\ \A r \in Sessions : pc'[r] = "shutdown" => pc[r] = "shutdown"
  BY <1>7 DEF EndRead, RequestShutdown, Holds, TypeOK
<1>8. ASSUME NEW s \in Sessions, EndWrite(s), "overlap" \notin upset', "disabled" \notin upset'
      PROVE  /\ s \in Holds /\ Holds' = Holds \ {s}
             /\ refcount' = (IF refcount = 0 THEN 0 ELSE refcount - 1)
             /\ \A r \in Sessions : pc'[r] = "shutdown" => refcount' = 0
  <2>0. /\ pc[s] = "endwrite" /\ refcount' = Remaining(s)
        /\ pc' = [pc EXCEPT ![s] = IF Remaining(s) <= 0 THEN "shutdown" ELSE "ended"]
    BY <1>8 DEF EndWrite
  <2>1. s \notin Disabled  BY <2>0, <1>8, <1>u, <1>p DEF Locks
  <2>2. s \in Holds /\ Holds' = Holds \ {s}  BY <2>0, <2>1 DEF Holds, TypeOK
  <2>3. seen[s] = refcount  BY <2>0, <1>8, <1>u DEF Apart
  <2>4. refcount' = (IF refcount = 0 THEN 0 ELSE refcount - 1)  BY <2>0, <2>3 DEF Remaining
  <2>5. refcount \in Nat  BY DEF TypeOK
  <2>6. refcount' \in Nat  BY <2>4, <2>5
  <2>7. pc'[s] = "shutdown" => refcount' = 0
    <3>1. pc'[s] = IF refcount' <= 0 THEN "shutdown" ELSE "ended"  BY <2>0 DEF TypeOK
    <3> QED  BY <3>1, <2>6
  <2>8. \A r \in Sessions : r # s => pc'[r] # "shutdown"
    <3> TAKE r \in Sessions
    <3> HAVE r # s
    <3>1. pc[r] # "shutdown"  BY <2>0, <1>8, <1>u, <1>p DEF Apart
    <3> QED  BY <2>0, <3>1 DEF TypeOK
  <2> QED  BY <2>2, <2>4, <2>7, <2>8
<1>9. CASE Daemon \/ StopDaemon \/ UNCHANGED vars
  BY <1>9 DEF Daemon, Bind, Close, StopDaemon, vars, Holds
<1>10. CASE \E s \in Sessions : BootWrite(s)
  BY <1>10, <1>6
<1>11. CASE \E s \in Sessions : EndWrite(s)
  BY <1>11, <1>8
<1> QED  BY <1>1, <1>2, <1>3, <1>4, <1>5, <1>7, <1>9, <1>10, <1>11 DEF Next, BootStep, EndStep

\* There are finitely many sessions.
LEMMA HoldsFinite == IsFiniteSet(Holds) /\ Cardinality(Holds) \in Nat
<1>1. IsFiniteSet(Sessions)  BY LifecycleAssumption
<1>2. Holds \subseteq Sessions  BY DEF Holds
<1> QED  BY <1>1, <1>2, FS_Subset, FS_CardinalityType

\* The count is right, after every step.
LEMMA CountsInductive ==
  ASSUME TypeOK, Locks, Apart, Counts, [Next]_vars
  PROVE  Counts'
<1>u. upset \subseteq upset'  BY UpsetStays
<1>f. IsFiniteSet(Holds) /\ Cardinality(Holds) \in Nat  BY HoldsFinite
<1>r. refcount \in Nat  BY DEF TypeOK
<1> DEFINE Kept(u) == "overlap" \notin u /\ "failure" \notin u /\ "disabled" \notin u
<1>k. Kept(upset') => Kept(upset)  BY <1>u
<1>e. upset' \subseteq {"timeout", "off"} => upset \subseteq {"timeout", "off"}  BY <1>u
<1>x. upset' \subseteq {"timeout", "off"} => Kept(upset') /\ "compaction" \notin upset' /\ "crash" \notin upset'
  OBVIOUS
<1> SUFFICES ASSUME Kept(upset')
             PROVE  /\ refcount' >= Cardinality(Holds')
                    /\ \A s \in Sessions : pc'[s] = "shutdown" => Holds' = {}
                    /\ upset' \subseteq {"timeout", "off"} => refcount' = Cardinality(Holds')
  BY <1>x DEF Counts
<1>h. /\ refcount >= Cardinality(Holds)
      /\ \A s \in Sessions : pc[s] = "shutdown" => Holds = {}
      /\ upset' \subseteq {"timeout", "off"} => refcount = Cardinality(Holds)
  BY <1>k, <1>e DEF Counts
<1>1. CASE /\ Holds' = Holds /\ refcount' = refcount
           /\ \A r \in Sessions : pc'[r] = "shutdown" => pc[r] = "shutdown"
  BY <1>1, <1>h
<1>2. CASE /\ "compaction" \in upset' \/ "crash" \in upset'
           /\ Holds' \subseteq Holds /\ refcount' = refcount
           /\ \A r \in Sessions : pc'[r] = "shutdown" => pc[r] = "shutdown"
  <2>1. Cardinality(Holds') <= Cardinality(Holds) /\ IsFiniteSet(Holds')  BY <1>2, <1>f, FS_Subset
  <2>2. Cardinality(Holds') \in Nat  BY <2>1, FS_CardinalityType
  <2>3. refcount' >= Cardinality(Holds')  BY <1>2, <1>f, <1>h, <1>r, <2>1, <2>2
  <2>4. \A s \in Sessions : pc'[s] = "shutdown" => Holds' = {}  BY <1>2, <1>h
  <2>5. ~(upset' \subseteq {"timeout", "off"})  BY <1>2, <1>x
  <2> QED  BY <2>3, <2>4, <2>5
<1>3. ASSUME NEW s \in Sessions, s \notin Holds, Holds' = Holds \cup {s}, refcount' = refcount + 1,
             \A r \in Sessions : pc'[r] # "shutdown"
      PROVE  /\ refcount' >= Cardinality(Holds')
             /\ \A r \in Sessions : pc'[r] = "shutdown" => Holds' = {}
             /\ upset' \subseteq {"timeout", "off"} => refcount' = Cardinality(Holds')
  <2>1. Cardinality(Holds') = Cardinality(Holds) + 1  BY <1>3, <1>f, FS_AddElement
  <2>2. refcount' >= Cardinality(Holds')  BY <1>3, <2>1, <1>f, <1>h, <1>r
  <2>3. refcount = Cardinality(Holds) => refcount' = Cardinality(Holds')  BY <1>3, <2>1
  <2> QED  BY <1>3, <1>h, <2>2, <2>3
<1>4. ASSUME NEW s \in Holds, Holds' = Holds \ {s},
             refcount' = (IF refcount = 0 THEN 0 ELSE refcount - 1),
             \A r \in Sessions : pc'[r] = "shutdown" => refcount' = 0
      PROVE  /\ refcount' >= Cardinality(Holds')
             /\ \A r \in Sessions : pc'[r] = "shutdown" => Holds' = {}
             /\ upset' \subseteq {"timeout", "off"} => refcount' = Cardinality(Holds')
  <2>1. Cardinality(Holds') = Cardinality(Holds) - 1 /\ IsFiniteSet(Holds')
    BY <1>4, <1>f, FS_RemoveElement
  <2>2. Cardinality(Holds') \in Nat  BY <2>1, FS_CardinalityType
  <2>3. refcount # 0  BY <2>1, <2>2, <1>f, <1>h, <1>r
  <2>4. refcount' >= Cardinality(Holds')  BY <1>4, <2>1, <2>3, <1>f, <1>h, <1>r
  <2>5. refcount = Cardinality(Holds) => refcount' = Cardinality(Holds')  BY <1>4, <2>1, <2>3
  <2>6. refcount' = 0 => Cardinality(Holds') = 0  BY <2>2, <2>4
  <2>7. Cardinality(Holds') = 0 => Holds' = {}  BY <2>1, FS_EmptySet
  <2> QED  BY <1>4, <1>h, <2>4, <2>5, <2>6, <2>7
<1> QED  BY <1>1, <1>2, <1>3, <1>4, CountStep

-----------------------------------------------------------------------------
(* The daemon. *)

\* When a hook asks for the shutdown, nobody boots, and nobody holds the count.
LEMMA LastOut ==
  ASSUME TypeOK, Apart, Counts, NEW s \in Sessions, pc[s] = "shutdown", "overlap" \notin upset
  PROVE  /\ \A r \in Sessions : pc[r] \notin BootPcs
         /\ "failure" \notin upset /\ "disabled" \notin upset => Needs = {}
<1>p. BootPcs = {"lock", "health", "wait", "bootread", "bootwrite"} /\ EndPcs = {"endread", "endwrite", "shutdown"}
  BY DEF BootPcs, EndPcs
<1>1. \A r \in Sessions : pc[r] \notin BootPcs  BY <1>p DEF Apart
<1>2. "failure" \notin upset /\ "disabled" \notin upset => Holds = {}  BY DEF Counts
<1>3. Needs \subseteq Holds  BY <1>1, <1>p DEF Needs, Holds
<1> QED  BY <1>1, <1>2, <1>3

\* Nobody starts to boot while a daemon closes, after every step.
LEMMA ClosingInductive ==
  ASSUME TypeOK, Apart, Counts, Served, [Next]_vars,
         "overlap" \notin upset', "off" \notin upset', server' = "closing"
  PROVE  \A r \in Sessions : pc'[r] \notin BootPcs
<1>p. BootPcs = {"lock", "health", "wait", "bootread", "bootwrite"}  BY DEF BootPcs
<1>u. upset \subseteq upset'  BY UpsetStays
<1>h. server = "closing" => \A r \in Sessions : pc[r] \notin BootPcs  BY <1>u DEF Served
<1>1. ASSUME NEW s \in Sessions, SessionStart(s) \/ SessionRestart(s)  PROVE FALSE
  BY <1>1 DEF SessionStart, SessionRestart, Overlap
<1>2. ASSUME NEW s \in Sessions, SessionEnd(s) \/ Crash(s) \/ EndRead(s) \/ EndWrite(s)
      PROVE  \A r \in Sessions : pc'[r] \notin BootPcs
  <2>1. server' = server  BY <1>2 DEF SessionEnd, Crash, EndRead, EndWrite
  <2>2. \E q \in {"endread", "gone", "endwrite", "shutdown", "ended"} : pc' = [pc EXCEPT ![s] = q]
    BY <1>2 DEF SessionEnd, Crash, EndRead, EndWrite
  <2> QED  BY <2>1, <2>2, <1>h, <1>p DEF TypeOK
<1>3. ASSUME NEW s \in Sessions, BootStep(s)  PROVE FALSE
  <2>1. server' = server /\ pc[s] \in BootPcs
    BY <1>3, <1>p DEF BootStep, Lock, HealthUp, HealthDown, SpawnFails, Wait, BootRead, BootWrite
  <2> QED  BY <2>1, <1>h
<1>4. ASSUME NEW s \in Sessions, RequestShutdown(s)  PROVE \A r \in Sessions : pc'[r] \notin BootPcs
  <2>1. \A r \in Sessions : pc[r] \notin BootPcs  BY <1>4, <1>u, LastOut DEF RequestShutdown
  <2> QED  BY <1>4, <2>1, <1>p DEF RequestShutdown, TypeOK
<1>5. CASE StopDaemon
  BY <1>5 DEF StopDaemon
<1>6. CASE Daemon \/ UNCHANGED vars
  BY <1>6, <1>h DEF Daemon, Bind, Close, vars
<1> QED  BY <1>1, <1>2, <1>3, <1>4, <1>5, <1>6 DEF Next, EndStep

\* Who relies on a daemon has one, after every step.
LEMMA NeedsInductive ==
  ASSUME TypeOK, Locks, Apart, Counts, Served, [Next]_vars,
         "overlap" \notin upset', "failure" \notin upset', "off" \notin upset', "disabled" \notin upset'
  PROVE  /\ server' = "closing" => Needs' = {}
         /\ Needs' # {} => server' = "serving" \/ starting' > 0
<1> DEFINE Goal == /\ server' = "closing" => Needs' = {}
                   /\ Needs' # {} => server' = "serving" \/ starting' > 0
<1>p. BootPcs = {"lock", "health", "wait", "bootread", "bootwrite"}  BY DEF BootPcs
<1>u. upset \subseteq upset'  BY UpsetStays
<1>n. starting \in Nat  BY DEF TypeOK
<1>h. /\ server = "closing" => Needs = {}
      /\ Needs # {} => server = "serving" \/ starting > 0
      /\ server = "closing" => \A r \in Sessions : pc[r] \notin BootPcs
  BY <1>u DEF Served
<1>1. ASSUME Needs' \subseteq Needs, server' = server, starting' = starting  PROVE Goal
  BY <1>1, <1>h
<1>2. ASSUME NEW s \in Sessions, SessionStart(s) \/ SessionRestart(s) \/ SessionEnd(s) \/ Crash(s)
                                  \/ Lock(s) \/ EndRead(s) \/ EndWrite(s)
      PROVE  Goal
  <2>1. UNCHANGED <<server, starting>>
    BY <1>2 DEF SessionStart, SessionRestart, SessionEnd, Crash, Lock, EndRead, EndWrite
  <2>2. \/ s \in Disabled /\ pc' = [pc EXCEPT ![s] = "live"]
        \/ \E q \in {"lock", "endread", "gone", "health", "endwrite", "shutdown", "ended"} : pc' = [pc EXCEPT ![s] = q]
    BY <1>2 DEF SessionStart, SessionRestart, SessionEnd, Crash, Lock, EndRead, EndWrite
  <2>3. Needs' \subseteq Needs  BY <2>2 DEF Needs, TypeOK
  <2> QED  BY <1>1, <2>1, <2>3
<1>3. ASSUME NEW s \in Sessions, HealthUp(s) \/ Wait(s) \/ BootRead(s) \/ BootWrite(s)
      PROVE  Goal
  <2>1. UNCHANGED <<server, starting>> /\ pc[s] \in BootPcs
    BY <1>3, <1>p DEF HealthUp, Wait, BootRead, BootWrite
  <2>2. server # "closing"  BY <2>1, <1>h
  <2>3. server = "serving" \/ starting > 0
    <3>1. CASE HealthUp(s)
      BY <3>1, <2>2 DEF HealthUp, Healthy, TypeOK
    <3>2. CASE Wait(s) \/ BootRead(s) \/ BootWrite(s)
      <4>1. pc[s] \in {"wait", "bootread", "bootwrite"}  BY <3>2 DEF Wait, BootRead, BootWrite
      <4>2. s \notin Disabled  BY <4>1, <1>p DEF Locks
      <4> QED  BY <4>1, <4>2, <1>h DEF Needs
    <3> QED  BY <1>3, <3>1, <3>2
  <2> QED  BY <2>1, <2>2, <2>3
<1>4. ASSUME NEW s \in Sessions, HealthDown(s)  PROVE Goal
  <2>1. server' = server /\ starting' = starting + 1 /\ pc[s] \in BootPcs
    BY <1>4, <1>p DEF HealthDown
  <2>2. server' # "closing"  BY <2>1, <1>h
  <2>3. starting' > 0  BY <2>1, <1>n
  <2> QED  BY <2>2, <2>3
<1>5. ASSUME NEW s \in Sessions, SpawnFails(s)  PROVE FALSE
  BY <1>5 DEF SpawnFails
<1>6. ASSUME NEW s \in Sessions, RequestShutdown(s)  PROVE Goal
  <2>1. Needs = {}  BY <1>6, <1>u, LastOut DEF RequestShutdown
  <2>2. Needs' \subseteq Needs  BY <1>6 DEF RequestShutdown, Needs, TypeOK
  <2> QED  BY <2>1, <2>2
<1>7. CASE StopDaemon
  BY <1>7 DEF StopDaemon
<1>8. CASE Bind
  <2>1. Needs' = Needs  BY <1>8 DEF Bind, Needs
  <2>2. server' = (IF server = "none" THEN "serving" ELSE server)  BY <1>8 DEF Bind
  <2>3. server \in {"none", "serving", "closing"}  BY DEF TypeOK
  <2> QED  BY <2>1, <2>2, <2>3, <1>h
<1>9. CASE Close
  <2>1. Needs' = Needs /\ server = "closing" /\ server' = "none"  BY <1>9 DEF Close, Needs
  <2> QED  BY <2>1, <1>h
<1>10. CASE UNCHANGED vars
  BY <1>1, <1>10 DEF vars, Needs
<1> QED  BY <1>2, <1>3, <1>4, <1>5, <1>6, <1>7, <1>8, <1>9, <1>10 DEF Next, Daemon, BootStep, EndStep

\* Boots that do not give up start one daemon between them, after every step.
LEMMA StartingInductive ==
  ASSUME TypeOK, Locks, Apart, Counts, Served, [Next]_vars,
         "overlap" \notin upset', "timeout" \notin upset', "off" \notin upset'
  PROVE  \/ starting' = 0
         \/ starting' = 1 /\ server' = "none" /\ \E r \in Sessions : pc'[r] = "wait"
<1> DEFINE Goal == \/ starting' = 0
                   \/ starting' = 1 /\ server' = "none" /\ \E r \in Sessions : pc'[r] = "wait"
<1>p. BootPcs = {"lock", "health", "wait", "bootread", "bootwrite"}  BY DEF BootPcs
<1>u. upset \subseteq upset'  BY UpsetStays
<1>h. /\ starting = 0 \/ (starting = 1 /\ server = "none" /\ \E r \in Sessions : pc[r] = "wait")
      /\ server = "closing" => \A r \in Sessions : pc[r] \notin BootPcs
  BY <1>u DEF Served
<1>1. ASSUME NEW s \in Sessions, SessionStart(s) \/ SessionRestart(s) \/ SessionEnd(s) \/ Crash(s)
                                  \/ Lock(s) \/ HealthUp(s) \/ SpawnFails(s) \/ BootRead(s) \/ BootWrite(s)
                                  \/ EndRead(s) \/ EndWrite(s)
      PROVE  Goal
  <2>1. UNCHANGED <<server, starting>>
    BY <1>1 DEF SessionStart, SessionRestart, SessionEnd, Crash, Lock, HealthUp, SpawnFails, BootRead,
         BootWrite, EndRead, EndWrite
  <2>2. pc[s] # "wait" /\ \E q : pc' = [pc EXCEPT ![s] = q]
    BY <1>1 DEF SessionStart, SessionRestart, SessionEnd, Crash, Lock, HealthUp, SpawnFails, BootRead,
         BootWrite, EndRead, EndWrite
  <2>3. \A r \in Sessions : pc[r] = "wait" => pc'[r] = "wait"  BY <2>2 DEF TypeOK
  <2> QED  BY <2>1, <2>3, <1>h
<1>2. ASSUME NEW s \in Sessions, HealthDown(s)  PROVE Goal
  <2>1. /\ pc[s] = "health" /\ FALSE \in Healthy /\ starting' = starting + 1 /\ server' = server
        /\ pc' = [pc EXCEPT ![s] = "wait"]
    BY <1>2 DEF HealthDown
  <2>2. server # "closing"  BY <2>1, <1>h, <1>p
  <2>3. server = "none"  BY <2>1, <2>2 DEF Healthy, TypeOK
  <2>4. starting = 0
    <3>1. lock = s  BY <2>1, <1>p DEF Locks
    <3>2. \A r \in Sessions : pc[r] = "wait" => r = s  BY <3>1, <1>p DEF Locks
    <3> QED  BY <3>2, <2>1, <1>h
  <2>5. pc'[s] = "wait"  BY <2>1 DEF TypeOK
  <2> QED  BY <2>1, <2>3, <2>4, <2>5
<1>3. ASSUME NEW s \in Sessions, Wait(s)  PROVE Goal
  <2>1. TRUE \in Healthy /\ starting' = starting  BY <1>3 DEF Wait
  <2>2. server # "none"  BY <2>1 DEF Healthy
  <2> QED  BY <2>1, <2>2, <1>h
<1>4. ASSUME NEW s \in Sessions, RequestShutdown(s)  PROVE Goal
  <2>1. \A r \in Sessions : pc[r] \notin BootPcs  BY <1>4, <1>u, LastOut DEF RequestShutdown
  <2>2. starting = 0  BY <2>1, <1>h, <1>p
  <2> QED  BY <1>4, <2>2 DEF RequestShutdown
<1>5. CASE StopDaemon
  BY <1>5 DEF StopDaemon
<1>6. CASE Bind
  BY <1>6, <1>h DEF Bind
<1>7. CASE Close
  <2>1. server = "closing" /\ starting' = starting  BY <1>7 DEF Close
  <2> QED  BY <2>1, <1>h
<1>8. CASE UNCHANGED vars
  BY <1>8, <1>h DEF vars
<1> QED  BY <1>1, <1>2, <1>3, <1>4, <1>5, <1>6, <1>7, <1>8 DEF Next, Daemon, BootStep, EndStep

-----------------------------------------------------------------------------
(* The invariant, and what follows from it. *)

\* At the start there is no session, no count and no daemon.
LEMMA Initial == Init => IInv
<1> SUFFICES ASSUME Init  PROVE IInv
  OBVIOUS
<1>p. BootPcs = {"lock", "health", "wait", "bootread", "bootwrite"} /\ EndPcs = {"endread", "endwrite", "shutdown"}
  BY DEF BootPcs, EndPcs
<1>n. NoSession \notin Sessions  BY LifecycleAssumption
<1>1. TypeOK  BY DEF Init, TypeOK, Upsets
<1>2. Locks /\ Apart  BY <1>p, <1>n DEF Init, Locks, Apart
<1>3. Counts
  <2>1. Holds = {} /\ refcount = 0  BY DEF Init, Holds
  <2>2. \A s \in Sessions : pc[s] # "shutdown"  BY DEF Init
  <2>3. Cardinality({}) = 0  BY FS_EmptySet
  <2> QED  BY <2>1, <2>2, <2>3 DEF Counts
<1>4. Served
  <2>1. Needs = {} /\ server = "none" /\ starting = 0  BY DEF Init, Needs
  <2> QED  BY <2>1 DEF Served
<1> QED  BY <1>1, <1>2, <1>3, <1>4 DEF IInv

\* Every step preserves the invariant.
LEMMA Inductive == IInv /\ [Next]_vars => IInv'
<1> SUFFICES ASSUME IInv, [Next]_vars  PROVE IInv'
  OBVIOUS
<1>1. TypeOK /\ Locks /\ Apart /\ Counts /\ Served  BY DEF IInv
<1>2. Served'  BY <1>1, ClosingInductive, NeedsInductive, StartingInductive DEF Served
<1> QED  BY <1>1, <1>2, TypeInductive, LocksInductive, ApartInductive, CountsInductive DEF IInv

\* The invariant holds in every reachable state.
THEOREM Invariant == Spec => []IInv
BY Initial, Inductive, PTL DEF Spec

\* The variables keep their types.
THEOREM TypeCorrect == Spec => []TypeOK
<1>1. IInv => TypeOK  BY DEF IInv
<1> QED  BY <1>1, Invariant, PTL

\* With every hook at rest the refcount file counts the live sessions (_bump_refcount):
\* exactly without compactions and crashes, never too low without overlapping ends,
\* failed starts and sessions that are off.
THEOREM CountIsRight == Spec => []CountsSessions
<1>1. ASSUME IInv  PROVE CountsSessions
  <2>1. Counts  BY <1>1 DEF IInv
  <2> SUFFICES ASSUME Booting = {}, Ending = {}
               PROVE  /\ Never(Upsets \ {"timeout", "off"}) => refcount = Cardinality(Live \ Disabled)
                      /\ Never({"overlap", "failure", "disabled"}) => refcount >= Cardinality(Live \ Disabled)
    BY DEF CountsSessions
  <2>2. \A s \in Sessions : pc[s] \notin {"endread", "endwrite"}  BY DEF Ending, EndPcs
  <2>3. Holds = Live \ Disabled  BY <2>2 DEF Holds, Live
  <2>4. upset \subseteq Upsets  BY <1>1 DEF IInv, TypeOK
  <2>5. Never(Upsets \ {"timeout", "off"}) => upset \subseteq {"timeout", "off"}
    BY <2>4 DEF Never
  <2>6. Never({"overlap", "failure", "disabled"}) =>
          "overlap" \notin upset /\ "failure" \notin upset /\ "disabled" \notin upset
    BY DEF Never
  <2> QED  BY <2>1, <2>3, <2>5, <2>6 DEF Counts
<1> QED  BY <1>1, Invariant, PTL

\* A session whose boot is over has a daemon, serving or about to, and concurrent boots
\* start one between them (meter-boot.py under boot.lock; daemon.py on its port).
THEOREM DaemonIsShared == Spec => []OneDaemon
<1>1. ASSUME IInv  PROVE OneDaemon
  <2>1. Served /\ TypeOK  BY <1>1 DEF IInv
  <2>2. Live \ Disabled \subseteq Needs  BY DEF Live, Needs
  <2>3. ASSUME Never({"overlap", "failure", "off", "disabled"})  PROVE HasDaemon
    <3>1. "overlap" \notin upset /\ "failure" \notin upset /\ "off" \notin upset /\ "disabled" \notin upset
      BY <2>3 DEF Never
    <3> QED  BY <2>1, <2>2, <3>1 DEF HasDaemon, Served
  <2>4. ASSUME Never({"overlap", "timeout", "off"})
        PROVE  starting + (IF server = "none" THEN 0 ELSE 1) <= 1
    <3>1. "overlap" \notin upset /\ "timeout" \notin upset /\ "off" \notin upset
      BY <2>4 DEF Never
    <3>2. starting = 0 \/ (starting = 1 /\ server = "none")  BY <2>1, <3>1 DEF Served
    <3> QED  BY <3>2
  <2> QED  BY <2>3, <2>4 DEF OneDaemon
<1> QED  BY <1>1, Invariant, PTL

-----------------------------------------------------------------------------
(* A run over its phases: the inductive invariant. *)

Marks == {"pending", "in_progress", "complete", "skipped", "unreadable"}
Merging  == {"merge", "reconcile", "resolve", "remerge", "show", "pause"}
Planning == {"check", "compile", "verify", "revise", "store", "decompose", "decompose_brief",
             "validate"}
Planned  == {"report", "ask", "parked"}
Steps == {"setup", "copy", "build", "execute", "integrate", "end", "dead"}
           \cup Merging \cup Planning \cup Planned

\* Types, as far as the steps need them.
Formed ==
  /\ phases \in [1..6 -> Marks]
  /\ session.at \in Steps
  /\ session = [at |-> session.at, todo |-> session.todo, knows |-> session.knows,
                missed |-> session.missed]
  /\ texts \in [Specialists -> Drafts \cup {Missing, Torn}]
  /\ \A b \in {brief} \cup {c.brief : c \in cache} : b = [of |-> b.of, passed |-> b.passed]
  /\ rulings = [concerns |-> rulings.concerns, whole |-> rulings.whole]

Micro == Mode = "micro"
Lost  == phases = Unreadable
\* What a resume asks of tasks.json.
Fit == graph.whole /\ graph.edges

\* The phases of run.json close in their order, while it can be read.
Ordered ==
  /\ \A n \in 1..4 : Closed(n + 1) => Closed(n)
  /\ phases[5] \notin {"pending", "unreadable"} => Closed(4)
  /\ phases[4] # "skipped" /\ phases[5] # "skipped"
  /\ Micro \/ \A n \in 1..6 : phases[n] # "skipped"
  /\ Micro => session.at \in {"setup", "end"} \/ Closed(3) \/ Lost
  /\ (\E n \in 1..6 : phases[n] = "unreadable") => Lost
  /\ Lost => session.at = "dead" /\ "unreadable" \in disorders

\* What is closed at each step of a session, and where one may be that implements.
Reached ==
  LET at == session.at IN
  /\ at = "setup" => \A n \in 1..6 : phases[n] = "pending"
  /\ at = "copy" => Micro /\ ~Closed(4)
  /\ at = "build" => ~Closed(2)
  /\ at \in Merging => /\ Closed(2) /\ ~Micro
                       /\ Closed(3) /\ at # "pause" => Closed(4)
                       /\ Closed(4) \/ graph.whole => Closed(4) /\ Fit
  /\ at \in Planning \cup {"copy"} => Closed(3)
  /\ at \in Planned => Closed(4)
  /\ at = "execute" => Closed(4)
  /\ at = "integrate" => Closed(5)
  /\ Implementing => at \in {"execute", "integrate", "dead", "end"}
  /\ at \in {"execute", "integrate"} => Implementing
  /\ Closed(6) => at = "end"

\* A plan that is reported, or implemented, passed its checks.
Ready ==
  /\ session.at = "validate" => graph.whole
  /\ session.at \in Planned \/ Implementing => Fit /\ (graph.owns \/ "resumed" \in words)

\* A file is not there before its phase.
Early ==
  /\ merged.whole \/ merged = NoSpec
  /\ ~Lost /\ ~Closed(2) => ~merged.whole
  /\ ~Lost /\ ~Closed(3) => ~graph.whole

\* merged-spec.md is made of the deliverables on disk; it is a whole specification.
Fresh == \A s \in DOMAIN merged.texts : merged.texts[s] = texts[s]
Good(spec) == spec.whole /\ DOMAIN spec.texts = Routed

\* The plan is that of merged-spec.md, and this of the deliverables, unless one was
\* changed after a complaint and nothing followed, or the session died meanwhile.
UpToDate ==
  LET at == session.at IN
  /\ at \in {"setup", "copy"} => merged = NoSpec
  /\ at \in {"validate"} \cup Planned => graph.of = merged
  /\ Undisturbed({"complaint", "remaking", "unreadable"}) =>
       /\ at \in {"reconcile", "show", "pause"} \cup Planning \cup Planned => Fresh
       /\ at = "dead" /\ Closed(3) => Fresh
       /\ Implementing => Fresh /\ graph.of = merged
       /\ at = "dead" /\ Closed(4) /\ Fit => graph.of = merged

\* A graph is made from a whole specification, and so is the next one.
Wholly ==
  /\ merged.whole => DOMAIN merged.texts = Routed
  /\ session.at \in {"reconcile", "resolve", "remerge", "show", "pause"} => merged.whole
  /\ Undisturbed({"no_request"}) =>
       /\ graph.whole => Good(graph.of)
       /\ session.at \in Planning \cup Planned => merged.whole
       /\ session.at = "dead" /\ Closed(3) /\ ~Closed(4) => merged.whole
       /\ session.at = "dead" /\ (Closed(3) \/ graph.whole \/ Micro) /\ ~Fit => merged.whole

\* A torn deliverable is written again before it is read.
Untorn ==
  /\ session.at = "setup" => reviewed = {}
  /\ session.at = "build" => session.todo \subseteq Routed \ reviewed
  /\ session.at = "resolve" => UNION session.todo \subseteq Routed
  /\ Undisturbed({"overwriting", "revising"}) =>
       /\ \A s \in Specialists : texts[s] = Torn =>
            /\ ~Closed(1) /\ s \in Routed \ reviewed
            /\ session.at = "build" => s \in session.todo
            /\ ~merged.whole /\ ~graph.whole
       /\ \A s \in DOMAIN merged.texts : merged.texts[s] # Torn
       /\ \A s \in DOMAIN graph.of.texts : graph.of.texts[s] # Torn

Passed(b, spec) == b.passed /\ b.of = spec

\* A brief that is decomposed, or kept, passed its gate and is of the text it is used for.
Briefed ==
  LET at == session.at IN
  /\ graph.via \in {"spec", "brief"}
  /\ graph.via = "brief" /\ settings.loads => Passed(graph.by, graph.of)
  /\ \A c \in cache : Passed(c.brief, c.spec)
  /\ at = "verify" => brief.of = merged
  /\ at = "store" => Passed(brief, merged)
  /\ settings.loads /\ (at = "decompose_brief" \/ (at \in {"validate", "report", "ask"} /\ graph.via = "brief"))
       => Passed(brief, merged)
  /\ at = "validate" => session.todo = {IF graph.via = "spec" THEN "decompose" ELSE "decompose_brief"}

\* Where each concern is that was raised and not settled, at each step.
Heard ==
  LET at == session.at IN
  /\ rulings.concerns \cap OfOne = {}
  /\ at = "resolve" => session.todo \cap OfOne = {}
  /\ at \in {"setup", "copy", "dead"} => session.knows = {}
  /\ Undisturbed({"dropped", "unreadable"}) =>
       /\ raised \subseteq session.knows \cup merged.concerns \cup rulings.concerns \cup forgot
       /\ at \in (Merging \ {"merge"}) \cup Planning \cup Planned => session.knows \subseteq merged.concerns
       /\ at \in Merging \cup Planning \cup Planned /\ Closed(4) =>
            session.knows \subseteq merged.concerns /\ (graph.whole => graph.of.concerns = merged.concerns)
       /\ at = "dead" /\ Closed(4) /\ ~Fit /\ graph.whole => graph.of.concerns = merged.concerns
       /\ Implementing \/ (at = "dead" /\ Closed(4) /\ Fit) =>
            raised \subseteq graph.of.concerns \cup rulings.concerns \cup forgot

\* What the user was shown and said before the implementation.
Asked ==
  LET at == session.at IN
  /\ request.planOnly /\ Implementing => words \cap {"proceed", "approved"} # {}
  /\ \/ at \in {"ask", "parked"} \/ Implementing
     \/ at = "dead" /\ (Closed(4) \/ (Lost /\ graph.whole))
     => "shown" \in words \/ "unseen" \in disorders
  /\ at \in {"ask", "parked"} => "shown" \in words

PlanInv ==
  /\ Formed /\ Ordered /\ Reached /\ Ready /\ Early /\ UpToDate
  /\ Wholly /\ Untorn /\ Briefed /\ Heard /\ Asked
\* Phase 1 routes to specialists there are.
LEMMA RoutedInside == Routed \subseteq Specialists
BY DEF Routed, Specialists, Range

\* A micro run has no specialists.
LEMMA MicroRoutesNobody == Micro => Routed = {}
BY DEF Micro, Routed

\* The first phase that is open is open, and those before it are not.
LEMMA FirstOpenIs ==
  ASSUME phases \in [1..6 -> Marks], ~Closed(6)
  PROVE  /\ FirstOpen \in 1..6 /\ ~Closed(FirstOpen)
         /\ \A k \in 1..6 : k < FirstOpen => Closed(k)
<1> DEFINE open == {n \in 1..6 : ~Closed(n)}
<1>1. FirstOpen = CHOOSE n \in open : \A k \in open : n <= k
  BY DEF FirstOpen
<1>2. \E n \in open : \A k \in open : n <= k
  <2>1. 6 \in open  OBVIOUS
  <2>2. CASE 1 \in open  BY <2>2
  <2>3. CASE 1 \notin open /\ 2 \in open  BY <2>3
  <2>4. CASE 1 \notin open /\ 2 \notin open /\ 3 \in open  BY <2>4
  <2>5. CASE 1 \notin open /\ 2 \notin open /\ 3 \notin open /\ 4 \in open  BY <2>5
  <2>6. CASE 1 \notin open /\ 2 \notin open /\ 3 \notin open /\ 4 \notin open /\ 5 \in open  BY <2>6
  <2>7. CASE 1 \notin open /\ 2 \notin open /\ 3 \notin open /\ 4 \notin open /\ 5 \notin open  BY <2>1, <2>7
  <2> QED  BY <2>2, <2>3, <2>4, <2>5, <2>6, <2>7
<1>3. FirstOpen \in open /\ \A k \in open : FirstOpen <= k
  <2> HIDE DEF open
  <2> QED  BY <1>1, <1>2
<1> QED  BY <1>3

\* From which phase a resume goes on, and what run.json then says.
From(first, read) ==
  \/ ~Lost /\ read = phases /\ ~Closed(first) /\ \A k \in 1..6 : k < first => Closed(k)
  \/ /\ Lost /\ first \in 1..5
     /\ \A n \in 1..6 : read[n] = IF n >= first THEN "pending"
                                  ELSE IF Micro /\ n < 4 THEN "skipped" ELSE "complete"
     /\ first = 5 <=> graph.whole
     /\ first = 4 => Micro \/ merged.whole
     /\ first < 4 => ~Micro
     /\ first < 3 => ~merged.whole
     /\ first \in {2, 3} => merged.whole \/ \A s \in Routed : texts[s] # Torn

\* What a resume does, from there on.
Branch(first, read) ==
  /\ words' = words \cup {"resumed"} \cup IF first = 5 THEN {"approved"} ELSE {}
  /\ \/ first = 1 /\ session' = At("build", Routed \ reviewed) /\ phases' = read
     \/ first = 2 /\ session' = At("build", {}) /\ phases' = read
     \/ first = 3 /\ session' = At("merge", {}) /\ phases' = read
     \/ first = 4 /\ session' = At(IF Micro THEN "decompose" ELSE "check", {}) /\ phases' = read
     \/ first = 5 /\ Fit /\ session' = At("execute", {})
          /\ phases' = [read EXCEPT ![5] = "in_progress"]
     \/ first = 5 /\ ~Fit /\ session' = At("decompose", {}) /\ phases' = read
     \/ first = 6 /\ session' = At("integrate", {}) /\ phases' = read

\* What a resume does, by that phase.
Reenters ==
  /\ session.at \in {"dead", "parked"}
  /\ UNCHANGED <<request, settings, reviewed, texts, merged, rulings, brief, graph, cache, turns,
                 raised, forgot, disorders>>
  /\ \E first \in 1..6, read \in [1..6 -> Marks] : From(first, read) /\ Branch(first, read)

\* A resume re-enters at the first phase that is open, or that is inferred.
LEMMA ResumeIs ==
  ASSUME Formed, Reached, Resume
  PROVE  Reenters
<1> DEFINE Read(first) == IF Lost THEN Rewritten(first) ELSE phases
<1>1. PICK first \in (IF Lost THEN Inferred ELSE {FirstOpen}) :
        /\ session' = CASE first = 1 -> At("build", Routed \ reviewed)
                        [] first = 2 -> At("build", {})
                        [] first = 3 -> At("merge", {})
                        [] first = 4 -> At(IF Micro THEN "decompose" ELSE "check", {})
                        [] first = 5 -> At(IF Fit THEN "execute" ELSE "decompose", {})
                        [] first = 6 -> At("integrate", {})
        /\ phases' = IF first = 5 /\ Fit THEN [Read(first) EXCEPT ![5] = "in_progress"] ELSE Read(first)
        /\ words' = words \cup {"resumed"} \cup IF first = 5 THEN {"approved"} ELSE {}
  BY DEF Resume, Lost, Fit, Micro
<1>2. first \in 1..6 /\ Read(first) \in [1..6 -> Marks] /\ From(first, Read(first))
  <2>1. CASE ~Lost
    <3>1. first \in 1..6 /\ ~Closed(first) /\ \A k \in 1..6 : k < first => Closed(k)
      BY <1>1, <2>1, FirstOpenIs DEF Formed, Reached, Resume
    <3> QED  BY <2>1, <3>1 DEF From, Formed
  <2>2. CASE Lost
    <3>1. /\ first \in 1..5
          /\ first = 5 <=> graph.whole
          /\ first = 4 => Micro \/ merged.whole
          /\ first < 4 => ~Micro
          /\ first < 3 => ~merged.whole
          /\ first \in {2, 3} => merged.whole \/ \A s \in Routed : texts[s] # Torn
      BY <1>1, <2>2 DEF Inferred, Micro
    <3>2. /\ Rewritten(first) \in [1..6 -> Marks]
          /\ \A n \in 1..6 : Rewritten(first)[n] = IF n >= first THEN "pending"
                                                   ELSE IF Micro /\ n < 4 THEN "skipped" ELSE "complete"
      BY DEF Rewritten, Marks, Micro
    <3> QED  BY <2>2, <3>1, <3>2 DEF From
  <2> QED  BY <2>1, <2>2
<1>3. /\ session.at \in {"dead", "parked"}
      /\ UNCHANGED <<request, settings, reviewed, texts, merged, rulings, brief, graph, cache, turns,
                     raised, forgot, disorders>>
  BY DEF Resume
<1>4. PICK read \in [1..6 -> Marks] : read = Read(first) /\ From(first, read)  BY <1>2
<1> HIDE DEF Read
<1>5. first \in {1, 2, 3, 4, 5, 6}  BY <1>2
<1>6. \/ first = 1 /\ session' = At("build", Routed \ reviewed) /\ phases' = read
      \/ first = 2 /\ session' = At("build", {}) /\ phases' = read
      \/ first = 3 /\ session' = At("merge", {}) /\ phases' = read
      \/ first = 4 /\ session' = At(IF Micro THEN "decompose" ELSE "check", {}) /\ phases' = read
      \/ first = 5 /\ Fit /\ session' = At("execute", {})
           /\ phases' = [read EXCEPT ![5] = "in_progress"]
      \/ first = 5 /\ ~Fit /\ session' = At("decompose", {}) /\ phases' = read
      \/ first = 6 /\ session' = At("integrate", {}) /\ phases' = read
  BY <1>1, <1>4, <1>5
<1> QED  BY <1>1, <1>2, <1>3, <1>4, <1>6 DEF Reenters, Branch

\* The request, and with it the routing and the settings, is never changed.
LEMMA Steady ==
  ASSUME [PhasesNext]_phasesVars
  PROVE  /\ request' = request /\ settings' = settings
         /\ (Micro <=> Micro') /\ Routed' = Routed
<1>1. request' = request /\ settings' = settings
  <2>1. CASE UNCHANGED phasesVars  BY <2>1 DEF phasesVars
  <2>2. ASSUME NEW s \in Specialists, Draft(s) \/ Revised(s) \/ ReviewEnds(s)
        PROVE  request' = request /\ settings' = settings
    BY <2>2 DEF Draft, Revised, ReviewEnds
  <2>3. CASE Setup \/ Copy \/ Landed \/ Built \/ MergeSpec \/ Reconcile \/ Resolve \/ Remerge
    BY <2>3 DEF Setup, Copy, Landed, Built, MergeSpec, Reconcile, Resolve, Remerge
  <2>4. CASE Show \/ GoOn \/ CheckCache \/ Compile \/ Verify \/ Store \/ Decompose \/ Validate
    BY <2>4 DEF Show, GoOn, CheckCache, Compile, Verify, Store, Decompose, Validate
  <2>5. CASE Report \/ Ask \/ Execute \/ Integrate \/ Die \/ Resume
    BY <2>5 DEF Report, Ask, Execute, Integrate, Die, Resume
  <2> QED  BY <2>1, <2>2, <2>3, <2>4, <2>5 DEF PhasesNext
<1> QED  BY <1>1 DEF Micro, Mode, Routed

Routes ==
  /\ session.at = "setup"
  /\ \/ Go("end", {}) /\ phases' = phases
     \/ /\ Micro /\ Go("copy", {})
        /\ phases' \in [1..6 -> Marks]
        /\ \A n \in 1..6 : phases'[n] = IF n < 4 THEN "skipped" ELSE "pending"
     \/ ~Micro /\ Go("build", Routed) /\ phases' = phases
  /\ UNCHANGED <<request, settings, reviewed, texts, merged, rulings, brief, graph, cache,
                 turns, raised, forgot, words, disorders>>

\* Setup, branch by branch.
LEMMA SetupIs == Setup => Routes
<1> SUFFICES ASSUME Setup PROVE Routes  OBVIOUS
<1>1. CASE Refused(request)  BY <1>1 DEF Setup, Routes, history
<1>2. CASE ~Refused(request) /\ ~Micro  BY <1>2 DEF Setup, Routes, history, Micro
<1>3. CASE ~Refused(request) /\ Micro  BY <1>3 DEF Setup, Routes, history, Micro, Marks
<1> QED  BY <1>1, <1>2, <1>3

Closes(s) ==
  /\ session.at = "build" /\ s \in Routed \ (session.todo \cup reviewed)
  /\ reviewed' = reviewed \cup {s}
  /\ session' = [at |-> "build", todo |-> session.todo, knows |-> session'.knows,
                 missed |-> session.missed]
  /\ session.knows \subseteq session'.knows /\ raised' \subseteq raised \cup session'.knows
  /\ UNCHANGED <<request, settings, phases, texts, merged, rulings, brief, graph, cache, turns,
                 forgot, words, disorders>>

\* ReviewEnds, whatever was carried forward.
LEMMA ReviewEndsIs ==
  ASSUME Formed, NEW s \in Specialists, ReviewEnds(s)
  PROVE  Closes(s)
<1>1. PICK concern \in SUBSET {{s}} :
        /\ raised' = (raised \ {{s}}) \cup concern
        /\ session' = [session EXCEPT !.knows = @ \cup concern]
  BY DEF ReviewEnds
<1>2. session' = [at |-> session.at, todo |-> session.todo, knows |-> session.knows \cup concern,
                  missed |-> session.missed]
  BY <1>1 DEF Formed
<1>3. session'.knows = session.knows \cup concern  BY <1>2
<1>4. session.at = "build"  BY DEF ReviewEnds
<1>5. session' = [at |-> "build", todo |-> session.todo, knows |-> session'.knows,
                  missed |-> session.missed]
  BY <1>2, <1>3, <1>4
<1>6. session.knows \subseteq session'.knows /\ raised' \subseteq raised \cup session'.knows
  BY <1>1, <1>3
<1>7. /\ s \in Routed \ (session.todo \cup reviewed) /\ reviewed' = reviewed \cup {s}
      /\ UNCHANGED <<request, settings, phases, texts, merged, rulings, brief, graph, cache, turns,
                     forgot, words, disorders>>
  BY DEF ReviewEnds, InReview
<1> QED  BY <1>4, <1>5, <1>6, <1>7 DEF Closes

Reconciles ==
  /\ session.at = "reconcile"
  /\ \/ /\ Go("show", {}) /\ rulings' = [concerns |-> {}, whole |-> TRUE]
        /\ raised' = raised \cap OfOne
     \/ /\ Go("show", {}) /\ rulings' = [concerns |-> {{}}, whole |-> TRUE]
        /\ raised' = (raised \cap OfOne) \cup {{}}
     \/ \E clashes : /\ Go("resolve", clashes) /\ rulings' = [concerns |-> {}, whole |-> TRUE]
                     /\ UNION clashes \subseteq Routed /\ clashes \cap OfOne = {}
                     /\ raised' = raised \cap OfOne
  /\ UNCHANGED <<request, settings, phases, reviewed, texts, merged, brief, graph, cache, turns,
                 forgot, words, disorders>>

\* Reconcile, branch by branch.
LEMMA ReconcileIs == Reconcile => Reconciles
<1> SUFFICES ASSUME Reconcile PROVE Reconciles  OBVIOUS
<1>a. /\ session.at = "reconcile"
      /\ UNCHANGED <<request, settings, phases, reviewed, texts, merged, brief, graph, cache,
                     turns, forgot, words, disorders>>
  BY DEF Reconcile
<1>1. ASSUME NEW clashes \in SUBSET {{s, t} : s \in Named, t \in Named}, clashes \cap OfOne = {},
             Go(IF clashes = {} THEN "show" ELSE "resolve", clashes), Promoted({})
      PROVE  Reconciles
  <2>1. ASSUME NEW s \in UNION clashes PROVE s \in Routed
    BY <2>1 DEF Named
  <2>2. rulings' = [concerns |-> {}, whole |-> TRUE] /\ raised' = raised \cap OfOne
    BY <1>1 DEF Promoted
  <2>3. CASE clashes = {}
    <3>1. Go("show", {})  BY <1>1, <2>3
    <3> QED  BY <1>a, <2>2, <3>1 DEF Reconciles
  <2>4. CASE clashes # {}
    <3>1. Go("resolve", clashes)  BY <1>1, <2>4
    <3>2. UNION clashes \subseteq Routed  BY <2>1
    <3> QED  BY <1>a, <1>1, <2>2, <3>1, <3>2 DEF Reconciles
  <2> QED  BY <2>3, <2>4
<1>2. CASE Go("show", {}) /\ Promoted({{}})
  BY <1>a, <1>2 DEF Promoted, Reconciles
<1>3. \/ \E clashes \in SUBSET {{s, t} : s \in Named, t \in Named} :
           /\ clashes \cap OfOne = {}
           /\ Go(IF clashes = {} THEN "show" ELSE "resolve", clashes)
           /\ Promoted({})
      \/ Go("show", {}) /\ Promoted({{}})
  BY DEF Reconcile
<1> QED  BY <1>1, <1>2, <1>3

Resolves ==
  /\ session.at = "resolve"
  /\ \E clash \in session.todo :
       /\ \A s \in Specialists : texts'[s] = texts[s] \/ (s \in clash /\ texts'[s] \in Drafts)
       /\ \/ rulings' = rulings /\ raised' = raised
          \/ /\ rulings' = [concerns |-> rulings.concerns \cup {clash}, whole |-> rulings.whole]
             /\ raised' = raised \cup {clash}
       /\ \/ Go("resolve", session.todo \ {clash}) \/ Go("remerge", {})
          \/ Go("show", {}) /\ \A s \in Routed : texts'[s] = merged.texts[s]
  /\ texts' \in [Specialists -> Drafts \cup {Missing, Torn}]
  /\ UNCHANGED <<request, settings, phases, reviewed, merged, brief, graph, cache, turns,
                 forgot, words, disorders>>

\* Resolve, branch by branch.
LEMMA ResolveIs == Formed /\ Resolve => Resolves
<1> SUFFICES ASSUME Formed, Resolve PROVE Resolves  OBVIOUS
<1>1. PICK clash \in session.todo :
        LET left == session.todo \ {clash} IN
        /\ Exchange(clash)
        /\ Go(IF left # {} THEN "resolve"
              ELSE IF \E s \in Routed : texts'[s] # merged.texts[s] THEN "remerge" ELSE "show", left)
  BY DEF Resolve
<1>2. \/ Go("resolve", session.todo \ {clash}) \/ Go("remerge", {})
      \/ Go("show", {}) /\ \A s \in Routed : texts'[s] = merged.texts[s]
  BY <1>1
<1>3. PICK changed \in SUBSET clash, new \in [clash -> Drafts] :
        /\ texts' = [s \in DOMAIN texts |-> IF s \in changed THEN new[s] ELSE texts[s]]
        /\ \/ rulings' = rulings /\ raised' = raised
           \/ /\ rulings' = [rulings EXCEPT !.concerns = @ \cup {clash}]
              /\ raised' = raised \cup {clash}
  BY <1>1 DEF Exchange
<1>4. DOMAIN texts = Specialists /\ texts \in [Specialists -> Drafts \cup {Missing, Torn}]
  BY DEF Formed
<1>5. /\ \A s \in Specialists : texts'[s] = texts[s] \/ (s \in clash /\ texts'[s] \in Drafts)
      /\ texts' \in [Specialists -> Drafts \cup {Missing, Torn}]
  BY <1>3, <1>4
<1>6. rulings' = [rulings EXCEPT !.concerns = @ \cup {clash}] =>
        rulings' = [concerns |-> rulings.concerns \cup {clash}, whole |-> rulings.whole]
  BY DEF Formed
<1>7. /\ session.at = "resolve"
      /\ UNCHANGED <<request, settings, phases, reviewed, merged, brief, graph, cache, turns,
                     forgot, words, disorders>>
  BY DEF Resolve
<1>8. \/ rulings' = rulings /\ raised' = raised
      \/ /\ rulings' = [concerns |-> rulings.concerns \cup {clash}, whole |-> rulings.whole]
         /\ raised' = raised \cup {clash}
  BY <1>3, <1>6
<1> QED  BY <1>2, <1>5, <1>7, <1>8 DEF Resolves

\* A brief that is delivered comes from the store, if the module loads at all.
Looks ==
  /\ session.at = "check"
  /\ \/ /\ Go("decompose_brief", {})
        /\ settings.loads => \E c \in Cached : brief' = c.brief
        /\ ~settings.loads => brief' = NoBrief
     \/ Go("compile", {}) /\ brief' = brief
     \/ Go("decompose", {}) /\ brief' = brief
  /\ UNCHANGED <<request, settings, phases, reviewed, texts, merged, rulings, graph, cache,
                 turns, raised, forgot, words, disorders>>

\* CheckCache, by its exit codes.
LEMMA CheckCacheIs == CheckCache => Looks
<1> SUFFICES ASSUME CheckCache PROVE Looks  OBVIOUS
<1>1. CASE CheckExit = 0
  <2>1. settings.loads => Cached # {}  BY <1>1 DEF CheckExit
  <2>2. /\ brief' = IF settings.loads THEN (CHOOSE c \in Cached : TRUE).brief ELSE NoBrief
        /\ Go("decompose_brief", {})
    BY <1>1 DEF CheckCache
  <2> QED  BY <2>1, <2>2 DEF Looks, CheckCache, history
<1>2. CASE CheckExit = 1  BY <1>2 DEF CheckCache, Looks, history
<1>3. CASE CheckExit = 3  BY <1>3 DEF CheckCache, Looks, history
<1> QED  BY <1>1, <1>2, <1>3 DEF CheckExit

Answers ==
  /\ session.at = "verify"
  /\ \/ brief' = [of |-> brief.of, passed |-> TRUE] /\ Go("store", {})
     \/ /\ session'.at \in {"revise", "decompose"}
        /\ session' = [at |-> session'.at, todo |-> session.todo, knows |-> session.knows,
                       missed |-> session'.missed]
        /\ brief' = brief
  /\ UNCHANGED <<request, settings, phases, reviewed, texts, merged, rulings, graph, cache,
                 turns, raised, forgot, words, disorders>>

\* Verify, branch by branch.
LEMMA VerifyIs == Formed /\ Verify => Answers
<1> SUFFICES ASSUME Formed, Verify PROVE Answers  OBVIOUS
<1>1. CASE brief' = [brief EXCEPT !.passed = TRUE] /\ Go("store", {})
  <2>1. brief = [of |-> brief.of, passed |-> brief.passed]  BY DEF Formed
  <2>2. brief' = [of |-> brief.of, passed |-> TRUE]  BY <1>1, <2>1
  <2> QED  BY <1>1, <2>2 DEF Verify, Answers, history
<1>2. CASE /\ session' = [session EXCEPT !.at = IF session.missed = 0 THEN "revise" ELSE "decompose",
                                         !.missed = @ + 1]
           /\ brief' = brief
  <2> DEFINE step == IF session.missed = 0 THEN "revise" ELSE "decompose"
  <2>1. step \in {"revise", "decompose"}  OBVIOUS
  <2> HIDE DEF step
  <2>2. session' = [at |-> step, todo |-> session.todo, knows |-> session.knows,
                    missed |-> session.missed + 1]
    BY <1>2 DEF Formed, step
  <2> QED  BY <1>2, <2>1, <2>2 DEF Verify, Answers, history
<1> QED  BY <1>1, <1>2 DEF Verify

Checks ==
  /\ session.at = "validate"
  /\ \/ graph.edges /\ (graph.owns \/ "resumed" \in words) /\ Complete(4) /\ Go("report", {})
     \/ /\ \/ graph.via = "spec" /\ Go("decompose", {})
           \/ graph.via = "brief" /\ Go("decompose_brief", {})
        /\ phases' = phases
  /\ UNCHANGED <<request, settings, reviewed, texts, merged, rulings, brief, graph, cache,
                 turns, raised, forgot, words, disorders>>

\* Validate: the step it goes back to is the one that wrote the graph.
LEMMA ValidateIs == Briefed /\ Validate => Checks
<1> SUFFICES ASSUME Briefed, Validate PROVE Checks  OBVIOUS
<1> DEFINE step == CHOOSE step \in session.todo : TRUE
<1>1. graph.via = "spec" => step = "decompose"  BY DEF Briefed, Validate
<1>2. graph.via # "spec" => step = "decompose_brief" /\ graph.via = "brief"
  BY DEF Briefed, Validate
<1> HIDE DEF step
<1>3. /\ session.at = "validate"
      /\ \/ graph.edges /\ (graph.owns \/ "resumed" \in words) /\ Complete(4) /\ Go("report", {})
         \/ Go(step, {}) /\ phases' = phases
      /\ UNCHANGED <<request, settings, reviewed, texts, merged, rulings, brief, graph, cache,
                     turns, raised, forgot, words, disorders>>
  BY DEF Validate, history, step
<1> QED  BY <1>1, <1>2, <1>3 DEF Checks

AtGate ==
  /\ session.at = "ask"
  /\ \/ /\ words' = words \cup {"proceed"}
        /\ Go("execute", {}) /\ phases' = [phases EXCEPT ![5] = "in_progress"]
        /\ texts' = texts /\ disorders' = disorders
     \/ Go("parked", {}) /\ UNCHANGED <<phases, texts, words, disorders>>
     \/ graph.via = "spec" /\ Go("decompose", {}) /\ UNCHANGED <<phases, texts, words, disorders>>
     \/ graph.via # "spec" /\ Go("decompose_brief", {}) /\ UNCHANGED <<phases, texts, words, disorders>>
     \/ \E s \in Routed, d \in Drafts :
          /\ texts' = [texts EXCEPT ![s] = d]
          /\ \/ Go("merge", {}) /\ disorders' = disorders
             \/ Go("report", {}) /\ disorders' = disorders \cup {"complaint"}
          /\ UNCHANGED <<phases, words>>
  /\ UNCHANGED <<request, settings, reviewed, merged, rulings, brief, graph, cache, raised, forgot>>

\* Ask, branch by branch.
LEMMA AskIs == Ask => AtGate
BY DEF Ask, AtGate, Go

Dies ==
  /\ session.at \notin {"dead", "setup", "end"}
  /\ session' = At("dead", {})
  /\ forgot' = forgot \cup ((session.knows \cup merged.concerns) \ merged'.concerns)
  /\ disorders \subseteq disorders'
  /\ session.at = "copy" => "no_request" \in disorders'
  /\ session.at = "resolve" => "overwriting" \in disorders'
  /\ Closed(4) /\ "shown" \notin words => "unseen" \in disorders'
  /\ Closed(4) /\ session.at \notin {"report", "ask", "execute", "integrate"} =>
       "remaking" \in disorders'
  /\ \/ UNCHANGED <<phases, reviewed, texts, merged, graph>>
     \/ /\ session.at = "build" /\ (Closed(1) => "revising" \in disorders')
        /\ \E s \in Routed \ reviewed : texts' = [texts EXCEPT ![s] = Torn]
        /\ UNCHANGED <<phases, reviewed, merged, graph>>
     \/ /\ session.at = "resolve"
        /\ \E s \in UNION session.todo : texts' = [texts EXCEPT ![s] = Torn]
        /\ UNCHANGED <<phases, reviewed, merged, graph>>
     \/ /\ session.at \in {"merge", "remerge"} /\ merged' = NoSpec
        /\ UNCHANGED <<phases, reviewed, texts, graph>>
     \/ /\ session.at \in {"decompose", "decompose_brief"} /\ graph' = NoGraph
        /\ UNCHANGED <<phases, reviewed, texts, merged>>
     \/ /\ phases' = Unreadable /\ reviewed' = {} /\ "unreadable" \in disorders'
        /\ graph.whole /\ "shown" \notin words => "unseen" \in disorders'
        /\ UNCHANGED <<texts, merged, graph>>
  /\ UNCHANGED <<request, settings, rulings, brief, cache, raised, words>>

\* What a death leaves behind.
LEMMA DieIs == Die => Dies
<1> SUFFICES ASSUME Die PROVE Dies  OBVIOUS
<1>1. /\ session.at \notin {"dead", "setup", "end"}
      /\ session' = At("dead", {})
      /\ forgot' = forgot \cup ((session.knows \cup merged.concerns) \ merged'.concerns)
      /\ UNCHANGED <<request, settings, rulings, brief, cache, raised, words>>
  BY DEF Die
<1>2. /\ disorders \subseteq disorders'
      /\ session.at = "copy" => "no_request" \in disorders'
      /\ session.at = "resolve" => "overwriting" \in disorders'
      /\ Closed(4) /\ "shown" \notin words => "unseen" \in disorders'
      /\ Closed(4) /\ session.at \notin {"report", "ask", "execute", "integrate"} =>
           "remaking" \in disorders'
  BY DEF Die
<1>3. \/ UNCHANGED <<phases, reviewed, texts, merged, graph>>
      \/ /\ session.at = "build" /\ (Closed(1) => "revising" \in disorders')
         /\ \E s \in Routed \ reviewed : texts' = [texts EXCEPT ![s] = Torn]
         /\ UNCHANGED <<phases, reviewed, merged, graph>>
      \/ /\ session.at = "resolve"
         /\ \E s \in UNION session.todo : texts' = [texts EXCEPT ![s] = Torn]
         /\ UNCHANGED <<phases, reviewed, merged, graph>>
      \/ /\ session.at \in {"merge", "remerge"} /\ merged' = NoSpec
         /\ UNCHANGED <<phases, reviewed, texts, graph>>
      \/ /\ session.at \in {"decompose", "decompose_brief"} /\ graph' = NoGraph
         /\ UNCHANGED <<phases, reviewed, texts, merged>>
      \/ /\ phases' = Unreadable /\ reviewed' = {} /\ "unreadable" \in disorders'
         /\ graph.whole /\ "shown" \notin words => "unseen" \in disorders'
         /\ UNCHANGED <<texts, merged, graph>>
  BY DEF Die
<1> QED  BY <1>1, <1>2, <1>3 DEF Dies

\* What run.json says when a resume goes on from a phase.
ReadAs(first, read) ==
  /\ read \in [1..6 -> Marks]
  /\ \A k \in 1..6 : read[k] # "unreadable" /\ (k < first <=> read[k] \in {"complete", "skipped"})
  /\ read[4] # "skipped" /\ read[5] # "skipped"
  /\ Micro => first > 3
  /\ Micro \/ \A n \in 1..6 : read[n] # "skipped"
  /\ read[5] # "pending" => ~Lost /\ read[5] = phases[5] /\ first > 4
  /\ ~Lost => read = phases

LEMMA ReadIs ==
  ASSUME Formed, Ordered, Reached, session.at \in {"dead", "parked"},
         NEW first \in 1..6, NEW read \in [1..6 -> Marks], From(first, read)
  PROVE  ReadAs(first, read)
<1>0. first \in {1, 2, 3, 4, 5, 6}  OBVIOUS
<1>1. CASE ~Lost
  <2>1. read = phases /\ ~Closed(first) /\ \A k \in 1..6 : k < first => Closed(k)
    BY <1>1 DEF From
  <2>2. /\ Closed(5) => Closed(4)
        /\ Closed(4) => Closed(3)
        /\ Closed(3) => Closed(2)
        /\ Closed(2) => Closed(1)
        /\ ~Closed(6)
    BY DEF Ordered, Reached
  <2>3. \A k \in 1..6 : k < first <=> Closed(k)
    BY <1>0, <2>1, <2>2
  <2>4. \A k \in 1..6 : phases[k] # "unreadable"  BY <1>1 DEF Ordered
  <2>5. Micro => first > 3
    BY <1>0, <1>1, <2>1 DEF Ordered
  <2>6. phases[5] # "pending" => first > 4
    BY <1>0, <2>1, <2>3, <2>4 DEF Ordered
  <2> QED  BY <1>1, <2>1, <2>3, <2>4, <2>5, <2>6 DEF ReadAs, Ordered, Closed
<1>2. CASE Lost
  <2>1. \A n \in 1..6 : read[n] = IF n >= first THEN "pending"
                                  ELSE IF Micro /\ n < 4 THEN "skipped" ELSE "complete"
    BY <1>2 DEF From
  <2>2. first \in 1..5 /\ (first < 4 => ~Micro)  BY <1>2 DEF From
  <2>3. ASSUME NEW k \in 1..6
        PROVE  read[k] # "unreadable" /\ (k < first <=> read[k] \in {"complete", "skipped"})
    BY <2>1, <2>2
  <2>4. read[4] # "skipped" /\ read[5] = "pending"  BY <2>1, <2>2
  <2>5. Micro => first > 3  BY <2>2
  <2>6. Micro \/ \A n \in 1..6 : read[n] # "skipped"  BY <2>1
  <2> QED  BY <1>2, <2>3, <2>4, <2>5, <2>6 DEF ReadAs
<1> QED  BY <1>1, <1>2

\* Every step keeps the types.
LEMMA FormedKept ==
  ASSUME Formed, Ordered, Reached, Untorn, Briefed, [PhasesNext]_phasesVars
  PROVE  Formed'
<1>a. CASE UNCHANGED phasesVars
  BY <1>a, RoutedInside, PhasesAssumption
  DEF phasesVars, disk, history, Formed, Marks, Cached, NoBrief, Steps, Unreadable, Merging,
      Planning, Planned
<1>1. CASE Setup
  <2>1. Routes  BY <1>1, SetupIs
  <2> QED  BY <2>1, RoutedInside, PhasesAssumption
           DEF Routes, Go, Formed, Marks, Cached, NoBrief, Steps, Unreadable, Merging, Planning,
               Planned
<1>2. CASE Copy
  BY <1>2, RoutedInside, PhasesAssumption
  DEF Copy, Go, history, Formed, Marks, Cached, NoBrief, Steps, Unreadable, Merging, Planning,
      Planned
<1>3. ASSUME NEW s \in Specialists, Draft(s)
      PROVE  Formed'
  BY <1>3, RoutedInside, PhasesAssumption
  DEF Draft, Go, history, Formed, Marks, Cached, NoBrief, Steps, Unreadable, Merging, Planning,
      Planned
<1>4. ASSUME NEW s \in Specialists, Revised(s)
      PROVE  Formed'
  BY <1>4, RoutedInside, PhasesAssumption
  DEF Revised, history, Formed, Marks, Cached, NoBrief, Steps, Unreadable, Merging, Planning,
      Planned
<1>5. ASSUME NEW s \in Specialists, ReviewEnds(s)
      PROVE  Formed'
  <2>1. Closes(s)  BY <1>5, ReviewEndsIs
  <2> QED  BY <2>1, RoutedInside, PhasesAssumption
           DEF Closes, Formed, Marks, Cached, NoBrief, Steps, Unreadable, Merging, Planning, Planned
<1>6. CASE Landed
  BY <1>6, RoutedInside, PhasesAssumption
  DEF Landed, Complete, history, Formed, Marks, Cached, NoBrief, Steps, Unreadable, Merging,
      Planning, Planned
<1>7. CASE Built
  BY <1>7, RoutedInside, PhasesAssumption
  DEF Built, Go, Complete, history, Formed, Marks, Cached, NoBrief, Steps, Unreadable, Merging,
      Planning, Planned
<1>8. CASE MergeSpec
  BY <1>8, RoutedInside, PhasesAssumption
  DEF MergeSpec, Go, Merged, Formed, Marks, Cached, NoBrief, Steps, Unreadable, Merging, Planning,
      Planned
<1>9. CASE Reconcile
  <2>1. Reconciles  BY <1>9, ReconcileIs
  <2> QED  BY <2>1, RoutedInside, PhasesAssumption
           DEF Reconciles, Go, Formed, Marks, Cached, NoBrief, Steps, Unreadable, Merging, Planning,
               Planned
<1>10. CASE Resolve
  <2>1. Resolves  BY <1>10, ResolveIs
  <2> QED  BY <2>1, RoutedInside, PhasesAssumption
           DEF Resolves, Go, Formed, Marks, Cached, NoBrief, Steps, Unreadable, Merging, Planning,
               Planned
<1>11. CASE Remerge
  BY <1>11, RoutedInside, PhasesAssumption
  DEF Remerge, Go, Merged, history, Formed, Marks, Cached, NoBrief, Steps, Unreadable, Merging,
      Planning, Planned
<1>12. CASE Show
  BY <1>12, RoutedInside, PhasesAssumption
  DEF Show, Go, Complete, history, Formed, Marks, Cached, NoBrief, Steps, Unreadable, Merging,
      Planning, Planned
<1>13. CASE GoOn
  BY <1>13, RoutedInside, PhasesAssumption
  DEF GoOn, Go, Complete, history, Formed, Marks, Cached, NoBrief, Steps, Unreadable, Merging,
      Planning, Planned
<1>14. CASE CheckCache
  <2>1. Looks  BY <1>14, CheckCacheIs
  <2> QED  BY <2>1, RoutedInside, PhasesAssumption
           DEF Looks, Go, Formed, Marks, Cached, NoBrief, Steps, Unreadable, Merging, Planning,
               Planned
<1>15. CASE Compile
  BY <1>15, RoutedInside, PhasesAssumption
  DEF Compile, history, Formed, Marks, Cached, NoBrief, Steps, Unreadable, Merging, Planning,
      Planned
<1>16. CASE Verify
  <2>1. Answers  BY <1>16, VerifyIs
  <2> QED  BY <2>1, RoutedInside, PhasesAssumption
           DEF Answers, Go, Formed, Marks, Cached, NoBrief, Steps, Unreadable, Merging, Planning,
               Planned
<1>17. CASE Store
  BY <1>17, RoutedInside, PhasesAssumption
  DEF Store, Go, history, Formed, Marks, Cached, NoBrief, Steps, Unreadable, Merging, Planning,
      Planned
<1>18. CASE Decompose
  BY <1>18, RoutedInside, PhasesAssumption
  DEF Decompose, Go, Formed, Marks, Cached, NoBrief, Steps, Unreadable, Merging, Planning, Planned
<1>19. CASE Validate
  <2>1. Checks  BY <1>19, ValidateIs
  <2> QED  BY <2>1, RoutedInside, PhasesAssumption
           DEF Checks, Go, Complete, Formed, Marks, Cached, NoBrief, Steps, Unreadable, Merging,
               Planning, Planned
<1>20. CASE Report
  BY <1>20, RoutedInside, PhasesAssumption
  DEF Report, Go, Formed, Marks, Cached, NoBrief, Steps, Unreadable, Merging, Planning, Planned
<1>21. CASE Ask
  <2>1. AtGate  BY <1>21, AskIs
  <2> QED  BY <2>1, RoutedInside, PhasesAssumption
           DEF AtGate, Go, Formed, Marks, Cached, NoBrief, Steps, Unreadable, Merging, Planning,
               Planned
<1>22. CASE Execute
  BY <1>22, RoutedInside, PhasesAssumption
  DEF Execute, Go, Complete, history, Formed, Marks, Cached, NoBrief, Steps, Unreadable, Merging,
      Planning, Planned
<1>23. CASE Integrate
  BY <1>23, RoutedInside, PhasesAssumption
  DEF Integrate, Go, Complete, history, Formed, Marks, Cached, NoBrief, Steps, Unreadable, Merging,
      Planning, Planned
<1>24. CASE Die
  <2>1. Dies  BY <1>24, DieIs
  <2> QED  BY <2>1, RoutedInside, PhasesAssumption
           DEF Dies, At, Formed, Marks, Cached, NoBrief, Steps, Unreadable, Merging, Planning,
               Planned
<1>25. CASE Resume
  <2>1. Reenters  BY <1>25, ResumeIs
  <2>2. PICK first \in 1..6, read \in [1..6 -> Marks] : From(first, read) /\ Branch(first, read)
    BY <2>1 DEF Reenters
  <2>3. ReadAs(first, read)  BY <2>1, <2>2, ReadIs DEF Reenters
  <2> QED  BY <2>1, <2>2, <2>3
           DEF Reenters, Branch, ReadAs, At, Formed, Marks, Cached, NoBrief, Steps, Unreadable,
               Merging, Planning, Planned
<1> QED
  BY <1>a, <1>1, <1>2, <1>3, <1>4, <1>5, <1>6, <1>7, <1>8, <1>9, <1>10, <1>11, <1>12, <1>13, <1>14,
     <1>15, <1>16, <1>17, <1>18, <1>19, <1>20, <1>21, <1>22, <1>23, <1>24, <1>25
  DEF PhasesNext

\* Every step keeps the order of the phases.
LEMMA OrderedKept ==
  ASSUME Formed, Reached, Ordered, Briefed, [PhasesNext]_phasesVars
  PROVE  Ordered'
<1>a. CASE UNCHANGED phasesVars
  BY <1>a, Steady, MicroRoutesNobody
  DEF phasesVars, disk, history, Formed, Ordered, Reached, Implementing, Marks, Lost, Unreadable,
      Merging, Planning, Planned, Closed
<1>1. CASE Setup
  <2>1. Routes  BY <1>1, SetupIs
  <2> QED  BY <2>1, Steady, MicroRoutesNobody
           DEF Routes, Go, Formed, Ordered, Reached, Implementing, Marks, Lost, Unreadable, Merging,
               Planning, Planned, Closed
<1>2. CASE Copy
  BY <1>2, Steady, MicroRoutesNobody
  DEF Copy, Go, history, Formed, Ordered, Reached, Implementing, Marks, Lost, Unreadable, Merging,
      Planning, Planned, Closed
<1>3. ASSUME NEW s \in Specialists, Draft(s)
      PROVE  Ordered'
  BY <1>3, Steady, MicroRoutesNobody
  DEF Draft, Go, history, Formed, Ordered, Reached, Implementing, Marks, Lost, Unreadable, Merging,
      Planning, Planned, Closed
<1>4. ASSUME NEW s \in Specialists, Revised(s)
      PROVE  Ordered'
  BY <1>4, Steady, MicroRoutesNobody
  DEF Revised, history, Formed, Ordered, Reached, Implementing, Marks, Lost, Unreadable, Merging,
      Planning, Planned, Closed
<1>5. ASSUME NEW s \in Specialists, ReviewEnds(s)
      PROVE  Ordered'
  <2>1. Closes(s)  BY <1>5, ReviewEndsIs
  <2> QED  BY <2>1, Steady, MicroRoutesNobody
           DEF Closes, Formed, Ordered, Reached, Implementing, Marks, Lost, Unreadable, Merging,
               Planning, Planned, Closed
<1>6. CASE Landed
  BY <1>6, Steady, MicroRoutesNobody
  DEF Landed, Complete, history, Formed, Ordered, Reached, Implementing, Marks, Lost, Unreadable,
      Merging, Planning, Planned, Closed
<1>7. CASE Built
  BY <1>7, Steady, MicroRoutesNobody
  DEF Built, Go, Complete, history, Formed, Ordered, Reached, Implementing, Marks, Lost, Unreadable,
      Merging, Planning, Planned, Closed
<1>8. CASE MergeSpec
  BY <1>8, Steady, MicroRoutesNobody
  DEF MergeSpec, Go, Merged, Formed, Ordered, Reached, Implementing, Marks, Lost, Unreadable,
      Merging, Planning, Planned, Closed
<1>9. CASE Reconcile
  <2>1. Reconciles  BY <1>9, ReconcileIs
  <2> QED  BY <2>1, Steady, MicroRoutesNobody
           DEF Reconciles, Go, Formed, Ordered, Reached, Implementing, Marks, Lost, Unreadable,
               Merging, Planning, Planned, Closed
<1>10. CASE Resolve
  <2>1. Resolves  BY <1>10, ResolveIs
  <2> QED  BY <2>1, Steady, MicroRoutesNobody
           DEF Resolves, Go, Formed, Ordered, Reached, Implementing, Marks, Lost, Unreadable,
               Merging, Planning, Planned, Closed
<1>11. CASE Remerge
  BY <1>11, Steady, MicroRoutesNobody
  DEF Remerge, Go, Merged, history, Formed, Ordered, Reached, Implementing, Marks, Lost, Unreadable,
      Merging, Planning, Planned, Closed
<1>12. CASE Show
  BY <1>12, Steady, MicroRoutesNobody
  DEF Show, Go, Complete, history, Formed, Ordered, Reached, Implementing, Marks, Lost, Unreadable,
      Merging, Planning, Planned, Closed
<1>13. CASE GoOn
  BY <1>13, Steady, MicroRoutesNobody
  DEF GoOn, Go, Complete, history, Formed, Ordered, Reached, Implementing, Marks, Lost, Unreadable,
      Merging, Planning, Planned, Closed
<1>14. CASE CheckCache
  <2>1. Looks  BY <1>14, CheckCacheIs
  <2> QED  BY <2>1, Steady, MicroRoutesNobody
           DEF Looks, Go, Formed, Ordered, Reached, Implementing, Marks, Lost, Unreadable, Merging,
               Planning, Planned, Closed
<1>15. CASE Compile
  BY <1>15, Steady, MicroRoutesNobody
  DEF Compile, history, Formed, Ordered, Reached, Implementing, Marks, Lost, Unreadable, Merging,
      Planning, Planned, Closed
<1>16. CASE Verify
  <2>1. Answers  BY <1>16, VerifyIs
  <2> QED  BY <2>1, Steady, MicroRoutesNobody
           DEF Answers, Go, Formed, Ordered, Reached, Implementing, Marks, Lost, Unreadable,
               Merging, Planning, Planned, Closed
<1>17. CASE Store
  BY <1>17, Steady, MicroRoutesNobody
  DEF Store, Go, history, Formed, Ordered, Reached, Implementing, Marks, Lost, Unreadable, Merging,
      Planning, Planned, Closed
<1>18. CASE Decompose
  BY <1>18, Steady, MicroRoutesNobody
  DEF Decompose, Go, Formed, Ordered, Reached, Implementing, Marks, Lost, Unreadable, Merging,
      Planning, Planned, Closed
<1>19. CASE Validate
  <2>1. Checks  BY <1>19, ValidateIs
  <2> QED  BY <2>1, Steady, MicroRoutesNobody
           DEF Checks, Go, Complete, Formed, Ordered, Reached, Implementing, Marks, Lost,
               Unreadable, Merging, Planning, Planned, Closed
<1>20. CASE Report
  BY <1>20, Steady, MicroRoutesNobody
  DEF Report, Go, Formed, Ordered, Reached, Implementing, Marks, Lost, Unreadable, Merging,
      Planning, Planned, Closed
<1>21. CASE Ask
  <2>1. AtGate  BY <1>21, AskIs
  <2> QED  BY <2>1, Steady, MicroRoutesNobody
           DEF AtGate, Go, Formed, Ordered, Reached, Implementing, Marks, Lost, Unreadable, Merging,
               Planning, Planned, Closed
<1>22. CASE Execute
  BY <1>22, Steady, MicroRoutesNobody
  DEF Execute, Go, Complete, history, Formed, Ordered, Reached, Implementing, Marks, Lost,
      Unreadable, Merging, Planning, Planned, Closed
<1>23. CASE Integrate
  BY <1>23, Steady, MicroRoutesNobody
  DEF Integrate, Go, Complete, history, Formed, Ordered, Reached, Implementing, Marks, Lost,
      Unreadable, Merging, Planning, Planned, Closed
<1>24. CASE Die
  <2>1. Dies  BY <1>24, DieIs
  <2> QED  BY <2>1, Steady, MicroRoutesNobody
           DEF Dies, At, Formed, Ordered, Reached, Implementing, Marks, Lost, Unreadable, Merging,
               Planning, Planned, Closed
<1>25. CASE Resume
  <2>1. Reenters  BY <1>25, ResumeIs
  <2>2. PICK first \in 1..6, read \in [1..6 -> Marks] : From(first, read) /\ Branch(first, read)
    BY <2>1 DEF Reenters
  <2>3. ReadAs(first, read)  BY <2>1, <2>2, ReadIs DEF Reenters
  <2> QED  BY <2>1, <2>2, <2>3, Steady
           DEF Reenters, Branch, ReadAs, At, Formed, Ordered, Lost, Unreadable, Closed
<1> QED
  BY <1>a, <1>1, <1>2, <1>3, <1>4, <1>5, <1>6, <1>7, <1>8, <1>9, <1>10, <1>11, <1>12, <1>13, <1>14,
     <1>15, <1>16, <1>17, <1>18, <1>19, <1>20, <1>21, <1>22, <1>23, <1>24, <1>25
  DEF PhasesNext

\* Every step finds closed what it needs.
LEMMA ReachedKept ==
  ASSUME Formed, Reached, Ordered, Ready, Early, Wholly, Briefed, [PhasesNext]_phasesVars
  PROVE  Reached'
<1>a. CASE UNCHANGED phasesVars
  BY <1>a, Steady, MicroRoutesNobody
  DEF phasesVars, disk, history, Formed, Ready, Early, Ordered, Reached, Implementing, Marks, Lost,
      Unreadable, Merging, Planning, Planned, Fit, Closed
<1>1. CASE Setup
  <2>1. Routes  BY <1>1, SetupIs
  <2> QED  BY <2>1, Steady, MicroRoutesNobody
           DEF Routes, Go, Formed, Ready, Early, Ordered, Reached, Implementing, Marks, Lost,
               Unreadable, Merging, Planning, Planned, Fit, Closed
<1>2. CASE Copy
  BY <1>2, Steady, MicroRoutesNobody
  DEF Copy, Go, history, Formed, Ready, Early, Ordered, Reached, Implementing, Marks, Lost,
      Unreadable, Merging, Planning, Planned, Fit, Closed
<1>3. ASSUME NEW s \in Specialists, Draft(s)
      PROVE  Reached'
  BY <1>3, Steady, MicroRoutesNobody
  DEF Draft, Go, history, Formed, Ready, Early, Ordered, Reached, Implementing, Marks, Lost,
      Unreadable, Merging, Planning, Planned, Fit, Closed
<1>4. ASSUME NEW s \in Specialists, Revised(s)
      PROVE  Reached'
  BY <1>4, Steady, MicroRoutesNobody
  DEF Revised, history, Formed, Ready, Early, Ordered, Reached, Implementing, Marks, Lost,
      Unreadable, Merging, Planning, Planned, Fit, Closed
<1>5. ASSUME NEW s \in Specialists, ReviewEnds(s)
      PROVE  Reached'
  <2>1. Closes(s)  BY <1>5, ReviewEndsIs
  <2> QED  BY <2>1, Steady, MicroRoutesNobody
           DEF Closes, Formed, Ready, Early, Ordered, Reached, Implementing, Marks, Lost,
               Unreadable, Merging, Planning, Planned, Fit, Closed
<1>6. CASE Landed
  BY <1>6, Steady, MicroRoutesNobody
  DEF Landed, Complete, history, Formed, Ready, Early, Ordered, Reached, Implementing, Marks, Lost,
      Unreadable, Merging, Planning, Planned, Fit, Closed
<1>7. CASE Built
  BY <1>7, Steady, MicroRoutesNobody
  DEF Built, Go, Complete, history, Formed, Ready, Early, Ordered, Reached, Implementing, Marks,
      Lost, Unreadable, Merging, Planning, Planned, Fit, Closed
<1>8. CASE MergeSpec
  BY <1>8, Steady, MicroRoutesNobody
  DEF MergeSpec, Go, Merged, Formed, Ready, Early, Ordered, Reached, Implementing, Marks, Lost,
      Unreadable, Merging, Planning, Planned, Fit, Closed
<1>9. CASE Reconcile
  <2>1. Reconciles  BY <1>9, ReconcileIs
  <2> QED  BY <2>1, Steady, MicroRoutesNobody
           DEF Reconciles, Go, Formed, Ready, Early, Ordered, Reached, Implementing, Marks, Lost,
               Unreadable, Merging, Planning, Planned, Fit, Closed
<1>10. CASE Resolve
  <2>1. Resolves  BY <1>10, ResolveIs
  <2> QED  BY <2>1, Steady, MicroRoutesNobody
           DEF Resolves, Go, Formed, Ready, Early, Ordered, Reached, Implementing, Marks, Lost,
               Unreadable, Merging, Planning, Planned, Fit, Closed
<1>11. CASE Remerge
  BY <1>11, Steady, MicroRoutesNobody
  DEF Remerge, Go, Merged, history, Formed, Ready, Early, Ordered, Reached, Implementing, Marks,
      Lost, Unreadable, Merging, Planning, Planned, Fit, Closed
<1>12. CASE Show
  BY <1>12, Steady, MicroRoutesNobody
  DEF Show, Go, Complete, history, Formed, Ready, Early, Ordered, Reached, Implementing, Marks,
      Lost, Unreadable, Merging, Planning, Planned, Fit, Closed
<1>13. CASE GoOn
  BY <1>13, Steady, MicroRoutesNobody
  DEF GoOn, Go, Complete, history, Formed, Ready, Early, Ordered, Reached, Implementing, Marks,
      Lost, Unreadable, Merging, Planning, Planned, Fit, Closed
<1>14. CASE CheckCache
  <2>1. Looks  BY <1>14, CheckCacheIs
  <2> QED  BY <2>1, Steady, MicroRoutesNobody
           DEF Looks, Go, Formed, Ready, Early, Ordered, Reached, Implementing, Marks, Lost,
               Unreadable, Merging, Planning, Planned, Fit, Closed
<1>15. CASE Compile
  BY <1>15, Steady, MicroRoutesNobody
  DEF Compile, history, Formed, Ready, Early, Ordered, Reached, Implementing, Marks, Lost,
      Unreadable, Merging, Planning, Planned, Fit, Closed
<1>16. CASE Verify
  <2>1. Answers  BY <1>16, VerifyIs
  <2> QED  BY <2>1, Steady, MicroRoutesNobody
           DEF Answers, Go, Formed, Ready, Early, Ordered, Reached, Implementing, Marks, Lost,
               Unreadable, Merging, Planning, Planned, Fit, Closed
<1>17. CASE Store
  BY <1>17, Steady, MicroRoutesNobody
  DEF Store, Go, history, Formed, Ready, Early, Ordered, Reached, Implementing, Marks, Lost,
      Unreadable, Merging, Planning, Planned, Fit, Closed
<1>18. CASE Decompose
  BY <1>18, Steady, MicroRoutesNobody
  DEF Decompose, Go, Formed, Ready, Early, Ordered, Reached, Implementing, Marks, Lost, Unreadable,
      Merging, Planning, Planned, Fit, Closed
<1>19. CASE Validate
  <2>1. Checks  BY <1>19, ValidateIs
  <2> QED  BY <2>1, Steady, MicroRoutesNobody
           DEF Checks, Go, Complete, Formed, Ready, Early, Ordered, Reached, Implementing, Marks,
               Lost, Unreadable, Merging, Planning, Planned, Fit, Closed
<1>20. CASE Report
  BY <1>20, Steady, MicroRoutesNobody
  DEF Report, Go, Formed, Ready, Early, Ordered, Reached, Implementing, Marks, Lost, Unreadable,
      Merging, Planning, Planned, Fit, Closed
<1>21. CASE Ask
  <2>1. AtGate  BY <1>21, AskIs
  <2> QED  BY <2>1, Steady, MicroRoutesNobody
           DEF AtGate, Go, Formed, Ready, Early, Ordered, Reached, Implementing, Marks, Lost,
               Unreadable, Merging, Planning, Planned, Fit, Closed
<1>22. CASE Execute
  BY <1>22, Steady, MicroRoutesNobody
  DEF Execute, Go, Complete, history, Formed, Ready, Early, Ordered, Reached, Implementing, Marks,
      Lost, Unreadable, Merging, Planning, Planned, Fit, Closed
<1>23. CASE Integrate
  BY <1>23, Steady, MicroRoutesNobody
  DEF Integrate, Go, Complete, history, Formed, Ready, Early, Ordered, Reached, Implementing, Marks,
      Lost, Unreadable, Merging, Planning, Planned, Fit, Closed
<1>24. CASE Die
  <2>1. Dies  BY <1>24, DieIs
  <2> QED  BY <2>1, Steady, MicroRoutesNobody
           DEF Dies, At, Formed, Ready, Early, Ordered, Reached, Implementing, Marks, Lost,
               Unreadable, Merging, Planning, Planned, Fit, Closed
<1>25. CASE Resume
  <2>1. Reenters  BY <1>25, ResumeIs
  <2>2. PICK first \in 1..6, read \in [1..6 -> Marks] : From(first, read) /\ Branch(first, read)
    BY <2>1 DEF Reenters
  <2>3. ReadAs(first, read)  BY <2>1, <2>2, ReadIs DEF Reenters
  <2> QED  BY <2>1, <2>2, <2>3, Steady
           DEF Reenters, Branch, ReadAs, At, Formed, Early, Ready, Reached, Implementing, Fit,
               Closed, From, Merging, Planning, Planned
<1> QED
  BY <1>a, <1>1, <1>2, <1>3, <1>4, <1>5, <1>6, <1>7, <1>8, <1>9, <1>10, <1>11, <1>12, <1>13, <1>14,
     <1>15, <1>16, <1>17, <1>18, <1>19, <1>20, <1>21, <1>22, <1>23, <1>24, <1>25
  DEF PhasesNext

\* Every step keeps a reported plan checked.
LEMMA ReadyKept ==
  ASSUME Formed, Reached, Briefed, Ready, Ordered, [PhasesNext]_phasesVars
  PROVE  Ready'
<1>a. CASE UNCHANGED phasesVars
  BY <1>a
  DEF phasesVars, disk, history, Formed, Ready, Reached, Ordered, Implementing, Fit, Unreadable,
      Merging, Planning, Planned, Closed
<1>1. CASE Setup
  <2>1. Routes  BY <1>1, SetupIs
  <2> QED  BY <2>1
           DEF Routes, Go, Formed, Ready, Reached, Ordered, Implementing, Fit, Unreadable, Merging,
               Planning, Planned, Closed
<1>2. CASE Copy
  BY <1>2
  DEF Copy, Go, history, Formed, Ready, Reached, Ordered, Implementing, Fit, Unreadable, Merging,
      Planning, Planned, Closed
<1>3. ASSUME NEW s \in Specialists, Draft(s)
      PROVE  Ready'
  BY <1>3
  DEF Draft, Go, history, Formed, Ready, Reached, Ordered, Implementing, Fit, Unreadable, Merging,
      Planning, Planned, Closed
<1>4. ASSUME NEW s \in Specialists, Revised(s)
      PROVE  Ready'
  BY <1>4
  DEF Revised, history, Formed, Ready, Reached, Ordered, Implementing, Fit, Unreadable, Merging,
      Planning, Planned, Closed
<1>5. ASSUME NEW s \in Specialists, ReviewEnds(s)
      PROVE  Ready'
  <2>1. Closes(s)  BY <1>5, ReviewEndsIs
  <2> QED  BY <2>1
           DEF Closes, Formed, Ready, Reached, Ordered, Implementing, Fit, Unreadable, Merging,
               Planning, Planned, Closed
<1>6. CASE Landed
  BY <1>6
  DEF Landed, Complete, history, Formed, Ready, Reached, Ordered, Implementing, Fit, Unreadable,
      Merging, Planning, Planned, Closed
<1>7. CASE Built
  BY <1>7
  DEF Built, Go, Complete, history, Formed, Ready, Reached, Ordered, Implementing, Fit, Unreadable,
      Merging, Planning, Planned, Closed
<1>8. CASE MergeSpec
  BY <1>8
  DEF MergeSpec, Go, Merged, Formed, Ready, Reached, Ordered, Implementing, Fit, Unreadable,
      Merging, Planning, Planned, Closed
<1>9. CASE Reconcile
  <2>1. Reconciles  BY <1>9, ReconcileIs
  <2> QED  BY <2>1
           DEF Reconciles, Go, Formed, Ready, Reached, Ordered, Implementing, Fit, Unreadable,
               Merging, Planning, Planned, Closed
<1>10. CASE Resolve
  <2>1. Resolves  BY <1>10, ResolveIs
  <2> QED  BY <2>1
           DEF Resolves, Go, Formed, Ready, Reached, Ordered, Implementing, Fit, Unreadable,
               Merging, Planning, Planned, Closed
<1>11. CASE Remerge
  BY <1>11
  DEF Remerge, Go, Merged, history, Formed, Ready, Reached, Ordered, Implementing, Fit, Unreadable,
      Merging, Planning, Planned, Closed
<1>12. CASE Show
  BY <1>12
  DEF Show, Go, Complete, history, Formed, Ready, Reached, Ordered, Implementing, Fit, Unreadable,
      Merging, Planning, Planned, Closed
<1>13. CASE GoOn
  BY <1>13
  DEF GoOn, Go, Complete, history, Formed, Ready, Reached, Ordered, Implementing, Fit, Unreadable,
      Merging, Planning, Planned, Closed
<1>14. CASE CheckCache
  <2>1. Looks  BY <1>14, CheckCacheIs
  <2> QED  BY <2>1
           DEF Looks, Go, Formed, Ready, Reached, Ordered, Implementing, Fit, Unreadable, Merging,
               Planning, Planned, Closed
<1>15. CASE Compile
  BY <1>15
  DEF Compile, history, Formed, Ready, Reached, Ordered, Implementing, Fit, Unreadable, Merging,
      Planning, Planned, Closed
<1>16. CASE Verify
  <2>1. Answers  BY <1>16, VerifyIs
  <2> QED  BY <2>1
           DEF Answers, Go, Formed, Ready, Reached, Ordered, Implementing, Fit, Unreadable, Merging,
               Planning, Planned, Closed
<1>17. CASE Store
  BY <1>17
  DEF Store, Go, history, Formed, Ready, Reached, Ordered, Implementing, Fit, Unreadable, Merging,
      Planning, Planned, Closed
<1>18. CASE Decompose
  BY <1>18
  DEF Decompose, Go, Formed, Ready, Reached, Ordered, Implementing, Fit, Unreadable, Merging,
      Planning, Planned, Closed
<1>19. CASE Validate
  <2>1. Checks  BY <1>19, ValidateIs
  <2> QED  BY <2>1
           DEF Checks, Go, Complete, Formed, Ready, Reached, Ordered, Implementing, Fit, Unreadable,
               Merging, Planning, Planned, Closed
<1>20. CASE Report
  BY <1>20
  DEF Report, Go, Formed, Ready, Reached, Ordered, Implementing, Fit, Unreadable, Merging, Planning,
      Planned, Closed
<1>21. CASE Ask
  <2>1. AtGate  BY <1>21, AskIs
  <2> QED  BY <2>1
           DEF AtGate, Go, Formed, Ready, Reached, Ordered, Implementing, Fit, Unreadable, Merging,
               Planning, Planned, Closed
<1>22. CASE Execute
  BY <1>22
  DEF Execute, Go, Complete, history, Formed, Ready, Reached, Ordered, Implementing, Fit,
      Unreadable, Merging, Planning, Planned, Closed
<1>23. CASE Integrate
  BY <1>23
  DEF Integrate, Go, Complete, history, Formed, Ready, Reached, Ordered, Implementing, Fit,
      Unreadable, Merging, Planning, Planned, Closed
<1>24. CASE Die
  <2>1. Dies  BY <1>24, DieIs
  <2> QED  BY <2>1
           DEF Dies, At, Formed, Ready, Reached, Ordered, Implementing, Fit, Unreadable, Merging,
               Planning, Planned, Closed
<1>25. CASE Resume
  <2>1. Reenters  BY <1>25, ResumeIs
  <2>2. PICK first \in 1..6, read \in [1..6 -> Marks] : From(first, read) /\ Branch(first, read)
    BY <2>1 DEF Reenters
  <2>3. ReadAs(first, read)  BY <2>1, <2>2, ReadIs DEF Reenters
  <2> QED  BY <2>1, <2>2, <2>3
           DEF Reenters, Branch, ReadAs, At, Formed, Ready, Implementing, Fit, Merging, Planning,
               Planned
<1> QED
  BY <1>a, <1>1, <1>2, <1>3, <1>4, <1>5, <1>6, <1>7, <1>8, <1>9, <1>10, <1>11, <1>12, <1>13, <1>14,
     <1>15, <1>16, <1>17, <1>18, <1>19, <1>20, <1>21, <1>22, <1>23, <1>24, <1>25
  DEF PhasesNext

\* No step writes a file before its phase.
LEMMA EarlyKept ==
  ASSUME Formed, Ordered, Reached, Ready, Early, Wholly, Briefed, [PhasesNext]_phasesVars
  PROVE  Early'
<1>a. CASE UNCHANGED phasesVars
  BY <1>a, Steady, MicroRoutesNobody
  DEF phasesVars, disk, history, Formed, Ordered, Reached, Early, Wholly, NoSpec, NoGraph, Lost,
      Unreadable, Merging, Planning, Planned, Fit, Closed
<1>1. CASE Setup
  <2>1. Routes  BY <1>1, SetupIs
  <2> QED  BY <2>1, Steady, MicroRoutesNobody
           DEF Routes, Go, Formed, Ordered, Reached, Early, Wholly, NoSpec, NoGraph, Lost,
               Unreadable, Merging, Planning, Planned, Fit, Closed
<1>2. CASE Copy
  BY <1>2, Steady, MicroRoutesNobody
  DEF Copy, Go, history, Formed, Ordered, Reached, Early, Wholly, NoSpec, NoGraph, Lost, Unreadable,
      Merging, Planning, Planned, Fit, Closed
<1>3. ASSUME NEW s \in Specialists, Draft(s)
      PROVE  Early'
  BY <1>3, Steady, MicroRoutesNobody
  DEF Draft, Go, history, Formed, Ordered, Reached, Early, Wholly, NoSpec, NoGraph, Lost,
      Unreadable, Merging, Planning, Planned, Fit, Closed
<1>4. ASSUME NEW s \in Specialists, Revised(s)
      PROVE  Early'
  BY <1>4, Steady, MicroRoutesNobody
  DEF Revised, history, Formed, Ordered, Reached, Early, Wholly, NoSpec, NoGraph, Lost, Unreadable,
      Merging, Planning, Planned, Fit, Closed
<1>5. ASSUME NEW s \in Specialists, ReviewEnds(s)
      PROVE  Early'
  <2>1. Closes(s)  BY <1>5, ReviewEndsIs
  <2> QED  BY <2>1, Steady, MicroRoutesNobody
           DEF Closes, Formed, Ordered, Reached, Early, Wholly, NoSpec, NoGraph, Lost, Unreadable,
               Merging, Planning, Planned, Fit, Closed
<1>6. CASE Landed
  BY <1>6, Steady, MicroRoutesNobody
  DEF Landed, Complete, history, Formed, Ordered, Reached, Early, Wholly, NoSpec, NoGraph, Lost,
      Unreadable, Merging, Planning, Planned, Fit, Closed
<1>7. CASE Built
  BY <1>7, Steady, MicroRoutesNobody
  DEF Built, Go, Complete, history, Formed, Ordered, Reached, Early, Wholly, NoSpec, NoGraph, Lost,
      Unreadable, Merging, Planning, Planned, Fit, Closed
<1>8. CASE MergeSpec
  BY <1>8, Steady, MicroRoutesNobody
  DEF MergeSpec, Go, Merged, Formed, Ordered, Reached, Early, Wholly, NoSpec, NoGraph, Lost,
      Unreadable, Merging, Planning, Planned, Fit, Closed
<1>9. CASE Reconcile
  <2>1. Reconciles  BY <1>9, ReconcileIs
  <2> QED  BY <2>1, Steady, MicroRoutesNobody
           DEF Reconciles, Go, Formed, Ordered, Reached, Early, Wholly, NoSpec, NoGraph, Lost,
               Unreadable, Merging, Planning, Planned, Fit, Closed
<1>10. CASE Resolve
  <2>1. Resolves  BY <1>10, ResolveIs
  <2> QED  BY <2>1, Steady, MicroRoutesNobody
           DEF Resolves, Go, Formed, Ordered, Reached, Early, Wholly, NoSpec, NoGraph, Lost,
               Unreadable, Merging, Planning, Planned, Fit, Closed
<1>11. CASE Remerge
  BY <1>11, Steady, MicroRoutesNobody
  DEF Remerge, Go, Merged, history, Formed, Ordered, Reached, Early, Wholly, NoSpec, NoGraph, Lost,
      Unreadable, Merging, Planning, Planned, Fit, Closed
<1>12. CASE Show
  BY <1>12, Steady, MicroRoutesNobody
  DEF Show, Go, Complete, history, Formed, Ordered, Reached, Early, Wholly, NoSpec, NoGraph, Lost,
      Unreadable, Merging, Planning, Planned, Fit, Closed
<1>13. CASE GoOn
  BY <1>13, Steady, MicroRoutesNobody
  DEF GoOn, Go, Complete, history, Formed, Ordered, Reached, Early, Wholly, NoSpec, NoGraph, Lost,
      Unreadable, Merging, Planning, Planned, Fit, Closed
<1>14. CASE CheckCache
  <2>1. Looks  BY <1>14, CheckCacheIs
  <2> QED  BY <2>1, Steady, MicroRoutesNobody
           DEF Looks, Go, Formed, Ordered, Reached, Early, Wholly, NoSpec, NoGraph, Lost,
               Unreadable, Merging, Planning, Planned, Fit, Closed
<1>15. CASE Compile
  BY <1>15, Steady, MicroRoutesNobody
  DEF Compile, history, Formed, Ordered, Reached, Early, Wholly, NoSpec, NoGraph, Lost, Unreadable,
      Merging, Planning, Planned, Fit, Closed
<1>16. CASE Verify
  <2>1. Answers  BY <1>16, VerifyIs
  <2> QED  BY <2>1, Steady, MicroRoutesNobody
           DEF Answers, Go, Formed, Ordered, Reached, Early, Wholly, NoSpec, NoGraph, Lost,
               Unreadable, Merging, Planning, Planned, Fit, Closed
<1>17. CASE Store
  BY <1>17, Steady, MicroRoutesNobody
  DEF Store, Go, history, Formed, Ordered, Reached, Early, Wholly, NoSpec, NoGraph, Lost,
      Unreadable, Merging, Planning, Planned, Fit, Closed
<1>18. CASE Decompose
  BY <1>18, Steady, MicroRoutesNobody
  DEF Decompose, Go, Formed, Ordered, Reached, Early, Wholly, NoSpec, NoGraph, Lost, Unreadable,
      Merging, Planning, Planned, Fit, Closed
<1>19. CASE Validate
  <2>1. Checks  BY <1>19, ValidateIs
  <2> QED  BY <2>1, Steady, MicroRoutesNobody
           DEF Checks, Go, Complete, Formed, Ordered, Reached, Early, Wholly, NoSpec, NoGraph, Lost,
               Unreadable, Merging, Planning, Planned, Fit, Closed
<1>20. CASE Report
  BY <1>20, Steady, MicroRoutesNobody
  DEF Report, Go, Formed, Ordered, Reached, Early, Wholly, NoSpec, NoGraph, Lost, Unreadable,
      Merging, Planning, Planned, Fit, Closed
<1>21. CASE Ask
  <2>1. AtGate  BY <1>21, AskIs
  <2> QED  BY <2>1, Steady, MicroRoutesNobody
           DEF AtGate, Go, Formed, Ordered, Reached, Early, Wholly, NoSpec, NoGraph, Lost,
               Unreadable, Merging, Planning, Planned, Fit, Closed
<1>22. CASE Execute
  BY <1>22, Steady, MicroRoutesNobody
  DEF Execute, Go, Complete, history, Formed, Ordered, Reached, Early, Wholly, NoSpec, NoGraph,
      Lost, Unreadable, Merging, Planning, Planned, Fit, Closed
<1>23. CASE Integrate
  BY <1>23, Steady, MicroRoutesNobody
  DEF Integrate, Go, Complete, history, Formed, Ordered, Reached, Early, Wholly, NoSpec, NoGraph,
      Lost, Unreadable, Merging, Planning, Planned, Fit, Closed
<1>24. CASE Die
  <2>1. Dies  BY <1>24, DieIs
  <2> QED  BY <2>1, Steady, MicroRoutesNobody
           DEF Dies, At, Formed, Ordered, Reached, Early, Wholly, NoSpec, NoGraph, Lost, Unreadable,
               Merging, Planning, Planned, Fit, Closed
<1>25. CASE Resume
  <2>1. Reenters  BY <1>25, ResumeIs
  <2>2. PICK first \in 1..6, read \in [1..6 -> Marks] : From(first, read) /\ Branch(first, read)
    BY <2>1 DEF Reenters
  <2>3. ReadAs(first, read)  BY <2>1, <2>2, ReadIs DEF Reenters
  <2> QED  BY <2>1, <2>2, <2>3, Steady
           DEF Reenters, Branch, ReadAs, At, Formed, Early, Lost, From, Closed
<1> QED
  BY <1>a, <1>1, <1>2, <1>3, <1>4, <1>5, <1>6, <1>7, <1>8, <1>9, <1>10, <1>11, <1>12, <1>13, <1>14,
     <1>15, <1>16, <1>17, <1>18, <1>19, <1>20, <1>21, <1>22, <1>23, <1>24, <1>25
  DEF PhasesNext

\* Every step keeps the specification of a graph whole.
LEMMA WhollyKept ==
  ASSUME Formed, Ordered, Reached, Ready, Early, UpToDate, Briefed, Wholly, [PhasesNext]_phasesVars
  PROVE  Wholly'
<1>a. CASE UNCHANGED phasesVars
  BY <1>a, MicroRoutesNobody, Steady
  DEF phasesVars, disk, history, Formed, Ordered, Reached, Ready, Early, UpToDate, Wholly,
      Undisturbed, Good, NoSpec, NoGraph, Lost, Unreadable, Fit, Merging, Planning, Planned, Closed
<1>1. CASE Setup
  <2>1. Routes  BY <1>1, SetupIs
  <2> QED  BY <2>1, MicroRoutesNobody, Steady
           DEF Routes, Go, Formed, Ordered, Reached, Ready, Early, UpToDate, Wholly, Undisturbed,
               Good, NoSpec, NoGraph, Lost, Unreadable, Fit, Merging, Planning, Planned, Closed
<1>2. CASE Copy
  BY <1>2, MicroRoutesNobody, Steady
  DEF Copy, Go, history, Formed, Ordered, Reached, Ready, Early, UpToDate, Wholly, Undisturbed,
      Good, NoSpec, NoGraph, Lost, Unreadable, Fit, Merging, Planning, Planned, Closed
<1>3. ASSUME NEW s \in Specialists, Draft(s)
      PROVE  Wholly'
  BY <1>3, MicroRoutesNobody, Steady
  DEF Draft, Go, history, Formed, Ordered, Reached, Ready, Early, UpToDate, Wholly, Undisturbed,
      Good, NoSpec, NoGraph, Lost, Unreadable, Fit, Merging, Planning, Planned, Closed
<1>4. ASSUME NEW s \in Specialists, Revised(s)
      PROVE  Wholly'
  BY <1>4, MicroRoutesNobody, Steady
  DEF Revised, history, Formed, Ordered, Reached, Ready, Early, UpToDate, Wholly, Undisturbed, Good,
      NoSpec, NoGraph, Lost, Unreadable, Fit, Merging, Planning, Planned, Closed
<1>5. ASSUME NEW s \in Specialists, ReviewEnds(s)
      PROVE  Wholly'
  <2>1. Closes(s)  BY <1>5, ReviewEndsIs
  <2> QED  BY <2>1, MicroRoutesNobody, Steady
           DEF Closes, Formed, Ordered, Reached, Ready, Early, UpToDate, Wholly, Undisturbed, Good,
               NoSpec, NoGraph, Lost, Unreadable, Fit, Merging, Planning, Planned, Closed
<1>6. CASE Landed
  BY <1>6, MicroRoutesNobody, Steady
  DEF Landed, Complete, history, Formed, Ordered, Reached, Ready, Early, UpToDate, Wholly,
      Undisturbed, Good, NoSpec, NoGraph, Lost, Unreadable, Fit, Merging, Planning, Planned, Closed
<1>7. CASE Built
  BY <1>7, MicroRoutesNobody, Steady
  DEF Built, Go, Complete, history, Formed, Ordered, Reached, Ready, Early, UpToDate, Wholly,
      Undisturbed, Good, NoSpec, NoGraph, Lost, Unreadable, Fit, Merging, Planning, Planned, Closed
<1>8. CASE MergeSpec
  BY <1>8, MicroRoutesNobody, Steady
  DEF MergeSpec, Go, Merged, Formed, Ordered, Reached, Ready, Early, UpToDate, Wholly, Undisturbed,
      Good, NoSpec, NoGraph, Lost, Unreadable, Fit, Merging, Planning, Planned, Closed
<1>9. CASE Reconcile
  <2>1. Reconciles  BY <1>9, ReconcileIs
  <2> QED  BY <2>1, MicroRoutesNobody, Steady
           DEF Reconciles, Go, Formed, Ordered, Reached, Ready, Early, UpToDate, Wholly,
               Undisturbed, Good, NoSpec, NoGraph, Lost, Unreadable, Fit, Merging, Planning,
               Planned, Closed
<1>10. CASE Resolve
  <2>1. Resolves  BY <1>10, ResolveIs
  <2> QED  BY <2>1, MicroRoutesNobody, Steady
           DEF Resolves, Go, Formed, Ordered, Reached, Ready, Early, UpToDate, Wholly, Undisturbed,
               Good, NoSpec, NoGraph, Lost, Unreadable, Fit, Merging, Planning, Planned, Closed
<1>11. CASE Remerge
  BY <1>11, MicroRoutesNobody, Steady
  DEF Remerge, Go, Merged, history, Formed, Ordered, Reached, Ready, Early, UpToDate, Wholly,
      Undisturbed, Good, NoSpec, NoGraph, Lost, Unreadable, Fit, Merging, Planning, Planned, Closed
<1>12. CASE Show
  BY <1>12, MicroRoutesNobody, Steady
  DEF Show, Go, Complete, history, Formed, Ordered, Reached, Ready, Early, UpToDate, Wholly,
      Undisturbed, Good, NoSpec, NoGraph, Lost, Unreadable, Fit, Merging, Planning, Planned, Closed
<1>13. CASE GoOn
  BY <1>13, MicroRoutesNobody, Steady
  DEF GoOn, Go, Complete, history, Formed, Ordered, Reached, Ready, Early, UpToDate, Wholly,
      Undisturbed, Good, NoSpec, NoGraph, Lost, Unreadable, Fit, Merging, Planning, Planned, Closed
<1>14. CASE CheckCache
  <2>1. Looks  BY <1>14, CheckCacheIs
  <2> QED  BY <2>1, MicroRoutesNobody, Steady
           DEF Looks, Go, Formed, Ordered, Reached, Ready, Early, UpToDate, Wholly, Undisturbed,
               Good, NoSpec, NoGraph, Lost, Unreadable, Fit, Merging, Planning, Planned, Closed
<1>15. CASE Compile
  BY <1>15, MicroRoutesNobody, Steady
  DEF Compile, history, Formed, Ordered, Reached, Ready, Early, UpToDate, Wholly, Undisturbed, Good,
      NoSpec, NoGraph, Lost, Unreadable, Fit, Merging, Planning, Planned, Closed
<1>16. CASE Verify
  <2>1. Answers  BY <1>16, VerifyIs
  <2> QED  BY <2>1, MicroRoutesNobody, Steady
           DEF Answers, Go, Formed, Ordered, Reached, Ready, Early, UpToDate, Wholly, Undisturbed,
               Good, NoSpec, NoGraph, Lost, Unreadable, Fit, Merging, Planning, Planned, Closed
<1>17. CASE Store
  BY <1>17, MicroRoutesNobody, Steady
  DEF Store, Go, history, Formed, Ordered, Reached, Ready, Early, UpToDate, Wholly, Undisturbed,
      Good, NoSpec, NoGraph, Lost, Unreadable, Fit, Merging, Planning, Planned, Closed
<1>18. CASE Decompose
  BY <1>18, MicroRoutesNobody, Steady
  DEF Decompose, Go, Formed, Ordered, Reached, Ready, Early, UpToDate, Wholly, Undisturbed, Good,
      NoSpec, NoGraph, Lost, Unreadable, Fit, Merging, Planning, Planned, Closed
<1>19. CASE Validate
  <2>1. Checks  BY <1>19, ValidateIs
  <2> QED  BY <2>1, MicroRoutesNobody, Steady
           DEF Checks, Go, Complete, Formed, Ordered, Reached, Ready, Early, UpToDate, Wholly,
               Undisturbed, Good, NoSpec, NoGraph, Lost, Unreadable, Fit, Merging, Planning,
               Planned, Closed
<1>20. CASE Report
  BY <1>20, MicroRoutesNobody, Steady
  DEF Report, Go, Formed, Ordered, Reached, Ready, Early, UpToDate, Wholly, Undisturbed, Good,
      NoSpec, NoGraph, Lost, Unreadable, Fit, Merging, Planning, Planned, Closed
<1>21. CASE Ask
  <2>1. AtGate  BY <1>21, AskIs
  <2> QED  BY <2>1, MicroRoutesNobody, Steady
           DEF AtGate, Go, Formed, Ordered, Reached, Ready, Early, UpToDate, Wholly, Undisturbed,
               Good, NoSpec, NoGraph, Lost, Unreadable, Fit, Merging, Planning, Planned, Closed
<1>22. CASE Execute
  BY <1>22, MicroRoutesNobody, Steady
  DEF Execute, Go, Complete, history, Formed, Ordered, Reached, Ready, Early, UpToDate, Wholly,
      Undisturbed, Good, NoSpec, NoGraph, Lost, Unreadable, Fit, Merging, Planning, Planned, Closed
<1>23. CASE Integrate
  BY <1>23, MicroRoutesNobody, Steady
  DEF Integrate, Go, Complete, history, Formed, Ordered, Reached, Ready, Early, UpToDate, Wholly,
      Undisturbed, Good, NoSpec, NoGraph, Lost, Unreadable, Fit, Merging, Planning, Planned, Closed
<1>24. CASE Die
  <2>1. Dies  BY <1>24, DieIs
  <2>2. session'.at = "dead" /\ (merged' = merged \/ merged' = NoSpec) /\ merged'.texts \in {merged.texts, <<>>}
    BY <2>1 DEF Dies, At, NoSpec
  <2>3. merged'.whole => DOMAIN merged'.texts = Routed'
    BY <2>2, Steady DEF Wholly, NoSpec
  <2> SUFFICES ASSUME Undisturbed({"no_request"})'
               PROVE  /\ graph'.whole => Good(graph'.of)
                      /\ Closed(3)' /\ ~Closed(4)' => merged'.whole
                      /\ (Closed(3)' \/ graph'.whole \/ Micro) /\ ~Fit' => merged'.whole
    BY <2>2, <2>3, Steady DEF Wholly, Good, Planning, Planned
  <2>4. Undisturbed({"no_request"}) /\ session.at # "copy"
    BY <2>1 DEF Dies, Undisturbed
  <2>5. graph'.whole => Good(graph'.of) /\ graph' = graph
    BY <2>1, <2>4 DEF Dies, Wholly, NoGraph
  <2>6. /\ Closed(3) /\ ~Closed(4) => merged.whole
        /\ (Closed(3) \/ graph.whole \/ Micro) /\ ~Fit => merged.whole
    <3>1. CASE session.at = "build"
      BY <3>1 DEF Reached, Ordered, Early
    <3>2. CASE session.at = "merge"
      BY <3>2 DEF Reached, Merging
    <3>3. CASE session.at \in (Merging \ {"merge"}) \cup Planning \cup Planned
      BY <2>4, <3>3 DEF Wholly, Merging
    <3>4. CASE session.at \in {"execute", "integrate"}
      BY <3>4 DEF Reached, Ordered, Ready
    <3> QED  BY <2>1, <2>4, <3>1, <3>2, <3>3, <3>4 DEF Dies, Formed, Steps
  <2>7. CASE merged' = merged
    <3>1. Closed(3)' => Closed(3)
      BY <2>1 DEF Dies, Closed, Unreadable
    <3>2. Closed(3)' /\ ~Closed(4)' => Closed(3) /\ ~Closed(4)
      BY <2>1 DEF Dies, Closed, Unreadable
    <3>3. CASE graph' = graph
      BY <2>5, <2>6, <2>7, <3>1, <3>2, <3>3 DEF Fit
    <3>4. CASE graph' # graph
      <4>1. session.at \in Planning  BY <2>1, <3>4 DEF Dies, Planning
      <4>2. merged.whole  BY <2>4, <4>1 DEF Wholly
      <4> QED  BY <2>5, <2>7, <4>2
    <3> QED  BY <3>3, <3>4
  <2>8. CASE merged' # merged
    <3>1. session.at \in Merging /\ UNCHANGED <<phases, graph>>
      BY <2>1, <2>8 DEF Dies, Merging
    <3>2. session.at # "pause"
      BY <2>1, <2>8 DEF Dies
    <3>3. Closed(3) \/ graph.whole => Closed(4) /\ Fit
      BY <3>1, <3>2 DEF Reached
    <3>4. ~Micro  BY <3>1 DEF Reached
    <3> QED  BY <2>5, <3>1, <3>3, <3>4 DEF Closed, Fit
  <2> QED  BY <2>7, <2>8
<1>25. CASE Resume
  <2>1. Reenters  BY <1>25, ResumeIs
  <2>2. PICK first \in 1..6, read \in [1..6 -> Marks] : From(first, read) /\ Branch(first, read)
    BY <2>1 DEF Reenters
  <2>3. ReadAs(first, read)  BY <2>1, <2>2, ReadIs DEF Reenters
  <2> QED  BY <2>1, <2>2, <2>3, Steady
           DEF Reenters, Branch, ReadAs, At, Formed, Ordered, Ready, UpToDate, Wholly, Undisturbed,
               Good, Fit, From, Closed, Merging, Planning, Planned
<1> QED
  BY <1>a, <1>1, <1>2, <1>3, <1>4, <1>5, <1>6, <1>7, <1>8, <1>9, <1>10, <1>11, <1>12, <1>13, <1>14,
     <1>15, <1>16, <1>17, <1>18, <1>19, <1>20, <1>21, <1>22, <1>23, <1>24, <1>25
  DEF PhasesNext

\* No step reads a torn deliverable.
LEMMA UntornKept ==
  ASSUME Formed, Ordered, Reached, Early, Briefed, Untorn, [PhasesNext]_phasesVars
  PROVE  Untorn'
<1>a. CASE UNCHANGED phasesVars
  BY <1>a, Steady, RoutedInside, MicroRoutesNobody, PhasesAssumption
  DEF phasesVars, disk, history, Formed, Ordered, Reached, Early, Untorn, Undisturbed, NoSpec,
      NoGraph, Lost, Unreadable, Merging, Planning, Planned, Closed, Missing, Torn
<1>1. CASE Setup
  <2>1. Routes  BY <1>1, SetupIs
  <2> QED  BY <2>1, Steady, RoutedInside, MicroRoutesNobody, PhasesAssumption
           DEF Routes, Go, Formed, Ordered, Reached, Early, Untorn, Undisturbed, NoSpec, NoGraph,
               Lost, Unreadable, Merging, Planning, Planned, Closed, Missing, Torn
<1>2. CASE Copy
  BY <1>2, Steady, RoutedInside, MicroRoutesNobody, PhasesAssumption
  DEF Copy, Go, history, Formed, Ordered, Reached, Early, Untorn, Undisturbed, NoSpec, NoGraph,
      Lost, Unreadable, Merging, Planning, Planned, Closed, Missing, Torn
<1>3. ASSUME NEW s \in Specialists, Draft(s)
      PROVE  Untorn'
  BY <1>3, Steady, RoutedInside, MicroRoutesNobody, PhasesAssumption
  DEF Draft, Go, history, Formed, Ordered, Reached, Early, Untorn, Undisturbed, NoSpec, NoGraph,
      Lost, Unreadable, Merging, Planning, Planned, Closed, Missing, Torn
<1>4. ASSUME NEW s \in Specialists, Revised(s)
      PROVE  Untorn'
  BY <1>4, Steady, RoutedInside, MicroRoutesNobody, PhasesAssumption
  DEF Revised, history, Formed, Ordered, Reached, Early, Untorn, Undisturbed, NoSpec, NoGraph, Lost,
      Unreadable, Merging, Planning, Planned, Closed, Missing, Torn
<1>5. ASSUME NEW s \in Specialists, ReviewEnds(s)
      PROVE  Untorn'
  <2>1. Closes(s)  BY <1>5, ReviewEndsIs
  <2> QED  BY <2>1, Steady, RoutedInside, MicroRoutesNobody, PhasesAssumption
           DEF Closes, Formed, Ordered, Reached, Early, Untorn, Undisturbed, NoSpec, NoGraph, Lost,
               Unreadable, Merging, Planning, Planned, Closed, Missing, Torn
<1>6. CASE Landed
  BY <1>6, Steady, RoutedInside, MicroRoutesNobody, PhasesAssumption
  DEF Landed, Complete, history, Formed, Ordered, Reached, Early, Untorn, Undisturbed, NoSpec,
      NoGraph, Lost, Unreadable, Merging, Planning, Planned, Closed, Missing, Torn
<1>7. CASE Built
  BY <1>7, Steady, RoutedInside, MicroRoutesNobody, PhasesAssumption
  DEF Built, Go, Complete, history, Formed, Ordered, Reached, Early, Untorn, Undisturbed, NoSpec,
      NoGraph, Lost, Unreadable, Merging, Planning, Planned, Closed, Missing, Torn
<1>8. CASE MergeSpec
  BY <1>8, Steady, RoutedInside, MicroRoutesNobody, PhasesAssumption
  DEF MergeSpec, Go, Merged, Formed, Ordered, Reached, Early, Untorn, Undisturbed, NoSpec, NoGraph,
      Lost, Unreadable, Merging, Planning, Planned, Closed, Missing, Torn
<1>9. CASE Reconcile
  <2>1. Reconciles  BY <1>9, ReconcileIs
  <2> QED  BY <2>1, Steady, RoutedInside, MicroRoutesNobody, PhasesAssumption
           DEF Reconciles, Go, Formed, Ordered, Reached, Early, Untorn, Undisturbed, NoSpec,
               NoGraph, Lost, Unreadable, Merging, Planning, Planned, Closed, Missing, Torn
<1>10. CASE Resolve
  <2>1. Resolves  BY <1>10, ResolveIs
  <2> QED  BY <2>1, Steady, RoutedInside, MicroRoutesNobody, PhasesAssumption
           DEF Resolves, Go, Formed, Ordered, Reached, Early, Untorn, Undisturbed, NoSpec, NoGraph,
               Lost, Unreadable, Merging, Planning, Planned, Closed, Missing, Torn
<1>11. CASE Remerge
  BY <1>11, Steady, RoutedInside, MicroRoutesNobody, PhasesAssumption
  DEF Remerge, Go, Merged, history, Formed, Ordered, Reached, Early, Untorn, Undisturbed, NoSpec,
      NoGraph, Lost, Unreadable, Merging, Planning, Planned, Closed, Missing, Torn
<1>12. CASE Show
  BY <1>12, Steady, RoutedInside, MicroRoutesNobody, PhasesAssumption
  DEF Show, Go, Complete, history, Formed, Ordered, Reached, Early, Untorn, Undisturbed, NoSpec,
      NoGraph, Lost, Unreadable, Merging, Planning, Planned, Closed, Missing, Torn
<1>13. CASE GoOn
  BY <1>13, Steady, RoutedInside, MicroRoutesNobody, PhasesAssumption
  DEF GoOn, Go, Complete, history, Formed, Ordered, Reached, Early, Untorn, Undisturbed, NoSpec,
      NoGraph, Lost, Unreadable, Merging, Planning, Planned, Closed, Missing, Torn
<1>14. CASE CheckCache
  <2>1. Looks  BY <1>14, CheckCacheIs
  <2> QED  BY <2>1, Steady, RoutedInside, MicroRoutesNobody, PhasesAssumption
           DEF Looks, Go, Formed, Ordered, Reached, Early, Untorn, Undisturbed, NoSpec, NoGraph,
               Lost, Unreadable, Merging, Planning, Planned, Closed, Missing, Torn
<1>15. CASE Compile
  BY <1>15, Steady, RoutedInside, MicroRoutesNobody, PhasesAssumption
  DEF Compile, history, Formed, Ordered, Reached, Early, Untorn, Undisturbed, NoSpec, NoGraph, Lost,
      Unreadable, Merging, Planning, Planned, Closed, Missing, Torn
<1>16. CASE Verify
  <2>1. Answers  BY <1>16, VerifyIs
  <2> QED  BY <2>1, Steady, RoutedInside, MicroRoutesNobody, PhasesAssumption
           DEF Answers, Go, Formed, Ordered, Reached, Early, Untorn, Undisturbed, NoSpec, NoGraph,
               Lost, Unreadable, Merging, Planning, Planned, Closed, Missing, Torn
<1>17. CASE Store
  BY <1>17, Steady, RoutedInside, MicroRoutesNobody, PhasesAssumption
  DEF Store, Go, history, Formed, Ordered, Reached, Early, Untorn, Undisturbed, NoSpec, NoGraph,
      Lost, Unreadable, Merging, Planning, Planned, Closed, Missing, Torn
<1>18. CASE Decompose
  BY <1>18, Steady, RoutedInside, MicroRoutesNobody, PhasesAssumption
  DEF Decompose, Go, Formed, Ordered, Reached, Early, Untorn, Undisturbed, NoSpec, NoGraph, Lost,
      Unreadable, Merging, Planning, Planned, Closed, Missing, Torn
<1>19. CASE Validate
  <2>1. Checks  BY <1>19, ValidateIs
  <2> QED  BY <2>1, Steady, RoutedInside, MicroRoutesNobody, PhasesAssumption
           DEF Checks, Go, Complete, Formed, Ordered, Reached, Early, Untorn, Undisturbed, NoSpec,
               NoGraph, Lost, Unreadable, Merging, Planning, Planned, Closed, Missing, Torn
<1>20. CASE Report
  BY <1>20, Steady, RoutedInside, MicroRoutesNobody, PhasesAssumption
  DEF Report, Go, Formed, Ordered, Reached, Early, Untorn, Undisturbed, NoSpec, NoGraph, Lost,
      Unreadable, Merging, Planning, Planned, Closed, Missing, Torn
<1>21. CASE Ask
  <2>1. AtGate  BY <1>21, AskIs
  <2> QED  BY <2>1, Steady, RoutedInside, MicroRoutesNobody, PhasesAssumption
           DEF AtGate, Go, Formed, Ordered, Reached, Early, Untorn, Undisturbed, NoSpec, NoGraph,
               Lost, Unreadable, Merging, Planning, Planned, Closed, Missing, Torn
<1>22. CASE Execute
  BY <1>22, Steady, RoutedInside, MicroRoutesNobody, PhasesAssumption
  DEF Execute, Go, Complete, history, Formed, Ordered, Reached, Early, Untorn, Undisturbed, NoSpec,
      NoGraph, Lost, Unreadable, Merging, Planning, Planned, Closed, Missing, Torn
<1>23. CASE Integrate
  BY <1>23, Steady, RoutedInside, MicroRoutesNobody, PhasesAssumption
  DEF Integrate, Go, Complete, history, Formed, Ordered, Reached, Early, Untorn, Undisturbed,
      NoSpec, NoGraph, Lost, Unreadable, Merging, Planning, Planned, Closed, Missing, Torn
<1>24. CASE Die
  <2>1. Dies  BY <1>24, DieIs
  <2> QED  BY <2>1, Steady, RoutedInside, MicroRoutesNobody, PhasesAssumption
           DEF Dies, At, Formed, Ordered, Reached, Early, Untorn, Undisturbed, NoSpec, NoGraph,
               Lost, Unreadable, Merging, Planning, Planned, Closed, Missing, Torn
<1>25. CASE Resume
  <2>1. Reenters  BY <1>25, ResumeIs
  <2>2. PICK first \in 1..6, read \in [1..6 -> Marks] : From(first, read) /\ Branch(first, read)
    BY <2>1 DEF Reenters
  <2>3. ReadAs(first, read)  BY <2>1, <2>2, ReadIs DEF Reenters
  <2> QED  BY <2>1, <2>2, <2>3, Steady, RoutedInside, MicroRoutesNobody
           DEF Reenters, Branch, ReadAs, At, Formed, Ordered, Early, Untorn, Undisturbed, From,
               Lost, Closed, Merging, Planning, Planned
<1> QED
  BY <1>a, <1>1, <1>2, <1>3, <1>4, <1>5, <1>6, <1>7, <1>8, <1>9, <1>10, <1>11, <1>12, <1>13, <1>14,
     <1>15, <1>16, <1>17, <1>18, <1>19, <1>20, <1>21, <1>22, <1>23, <1>24, <1>25
  DEF PhasesNext

\* Every step keeps the plan, the specification and the deliverables together.
LEMMA UpToDateKept ==
  ASSUME Formed, Ordered, Reached, Ready, Early, Wholly, Briefed, UpToDate, [PhasesNext]_phasesVars
  PROVE  UpToDate'
<1>a. CASE UNCHANGED phasesVars
  BY <1>a, RoutedInside, Steady
  DEF phasesVars, disk, history, Formed, Ordered, Reached, Early, Wholly, UpToDate, Implementing,
      Undisturbed, Fresh, NoSpec, NoGraph, Lost, Unreadable, Fit, Merging, Planning, Planned, Closed
<1>1. CASE Setup
  <2>1. Routes  BY <1>1, SetupIs
  <2> QED  BY <2>1, RoutedInside, Steady
           DEF Routes, Go, Formed, Ordered, Reached, Early, Wholly, UpToDate, Implementing,
               Undisturbed, Fresh, NoSpec, NoGraph, Lost, Unreadable, Fit, Merging, Planning,
               Planned, Closed
<1>2. CASE Copy
  BY <1>2, RoutedInside, Steady
  DEF Copy, Go, history, Formed, Ordered, Reached, Early, Wholly, UpToDate, Implementing,
      Undisturbed, Fresh, NoSpec, NoGraph, Lost, Unreadable, Fit, Merging, Planning, Planned, Closed
<1>3. ASSUME NEW s \in Specialists, Draft(s)
      PROVE  UpToDate'
  BY <1>3, RoutedInside, Steady
  DEF Draft, Go, history, Formed, Ordered, Reached, Early, Wholly, UpToDate, Implementing,
      Undisturbed, Fresh, NoSpec, NoGraph, Lost, Unreadable, Fit, Merging, Planning, Planned, Closed
<1>4. ASSUME NEW s \in Specialists, Revised(s)
      PROVE  UpToDate'
  BY <1>4, RoutedInside, Steady
  DEF Revised, history, Formed, Ordered, Reached, Early, Wholly, UpToDate, Implementing,
      Undisturbed, Fresh, NoSpec, NoGraph, Lost, Unreadable, Fit, Merging, Planning, Planned, Closed
<1>5. ASSUME NEW s \in Specialists, ReviewEnds(s)
      PROVE  UpToDate'
  <2>1. Closes(s)  BY <1>5, ReviewEndsIs
  <2> QED  BY <2>1, RoutedInside, Steady
           DEF Closes, Formed, Ordered, Reached, Early, Wholly, UpToDate, Implementing, Undisturbed,
               Fresh, NoSpec, NoGraph, Lost, Unreadable, Fit, Merging, Planning, Planned, Closed
<1>6. CASE Landed
  BY <1>6, RoutedInside, Steady
  DEF Landed, Complete, history, Formed, Ordered, Reached, Early, Wholly, UpToDate, Implementing,
      Undisturbed, Fresh, NoSpec, NoGraph, Lost, Unreadable, Fit, Merging, Planning, Planned, Closed
<1>7. CASE Built
  BY <1>7, RoutedInside, Steady
  DEF Built, Go, Complete, history, Formed, Ordered, Reached, Early, Wholly, UpToDate, Implementing,
      Undisturbed, Fresh, NoSpec, NoGraph, Lost, Unreadable, Fit, Merging, Planning, Planned, Closed
<1>8. CASE MergeSpec
  BY <1>8, RoutedInside, Steady
  DEF MergeSpec, Go, Merged, Formed, Ordered, Reached, Early, Wholly, UpToDate, Implementing,
      Undisturbed, Fresh, NoSpec, NoGraph, Lost, Unreadable, Fit, Merging, Planning, Planned, Closed
<1>9. CASE Reconcile
  <2>1. Reconciles  BY <1>9, ReconcileIs
  <2> QED  BY <2>1, RoutedInside, Steady
           DEF Reconciles, Go, Formed, Ordered, Reached, Early, Wholly, UpToDate, Implementing,
               Undisturbed, Fresh, NoSpec, NoGraph, Lost, Unreadable, Fit, Merging, Planning,
               Planned, Closed
<1>10. CASE Resolve
  <2>1. Resolves  BY <1>10, ResolveIs
  <2> QED  BY <2>1, RoutedInside, Steady
           DEF Resolves, Go, Formed, Ordered, Reached, Early, Wholly, UpToDate, Implementing,
               Undisturbed, Fresh, NoSpec, NoGraph, Lost, Unreadable, Fit, Merging, Planning,
               Planned, Closed
<1>11. CASE Remerge
  BY <1>11, RoutedInside, Steady
  DEF Remerge, Go, Merged, history, Formed, Ordered, Reached, Early, Wholly, UpToDate, Implementing,
      Undisturbed, Fresh, NoSpec, NoGraph, Lost, Unreadable, Fit, Merging, Planning, Planned, Closed
<1>12. CASE Show
  BY <1>12, RoutedInside, Steady
  DEF Show, Go, Complete, history, Formed, Ordered, Reached, Early, Wholly, UpToDate, Implementing,
      Undisturbed, Fresh, NoSpec, NoGraph, Lost, Unreadable, Fit, Merging, Planning, Planned, Closed
<1>13. CASE GoOn
  BY <1>13, RoutedInside, Steady
  DEF GoOn, Go, Complete, history, Formed, Ordered, Reached, Early, Wholly, UpToDate, Implementing,
      Undisturbed, Fresh, NoSpec, NoGraph, Lost, Unreadable, Fit, Merging, Planning, Planned, Closed
<1>14. CASE CheckCache
  <2>1. Looks  BY <1>14, CheckCacheIs
  <2> QED  BY <2>1, RoutedInside, Steady
           DEF Looks, Go, Formed, Ordered, Reached, Early, Wholly, UpToDate, Implementing,
               Undisturbed, Fresh, NoSpec, NoGraph, Lost, Unreadable, Fit, Merging, Planning,
               Planned, Closed
<1>15. CASE Compile
  BY <1>15, RoutedInside, Steady
  DEF Compile, history, Formed, Ordered, Reached, Early, Wholly, UpToDate, Implementing,
      Undisturbed, Fresh, NoSpec, NoGraph, Lost, Unreadable, Fit, Merging, Planning, Planned, Closed
<1>16. CASE Verify
  <2>1. Answers  BY <1>16, VerifyIs
  <2> QED  BY <2>1, RoutedInside, Steady
           DEF Answers, Go, Formed, Ordered, Reached, Early, Wholly, UpToDate, Implementing,
               Undisturbed, Fresh, NoSpec, NoGraph, Lost, Unreadable, Fit, Merging, Planning,
               Planned, Closed
<1>17. CASE Store
  BY <1>17, RoutedInside, Steady
  DEF Store, Go, history, Formed, Ordered, Reached, Early, Wholly, UpToDate, Implementing,
      Undisturbed, Fresh, NoSpec, NoGraph, Lost, Unreadable, Fit, Merging, Planning, Planned, Closed
<1>18. CASE Decompose
  BY <1>18, RoutedInside, Steady
  DEF Decompose, Go, Formed, Ordered, Reached, Early, Wholly, UpToDate, Implementing, Undisturbed,
      Fresh, NoSpec, NoGraph, Lost, Unreadable, Fit, Merging, Planning, Planned, Closed
<1>19. CASE Validate
  <2>1. Checks  BY <1>19, ValidateIs
  <2> QED  BY <2>1, RoutedInside, Steady
           DEF Checks, Go, Complete, Formed, Ordered, Reached, Early, Wholly, UpToDate,
               Implementing, Undisturbed, Fresh, NoSpec, NoGraph, Lost, Unreadable, Fit, Merging,
               Planning, Planned, Closed
<1>20. CASE Report
  BY <1>20, RoutedInside, Steady
  DEF Report, Go, Formed, Ordered, Reached, Early, Wholly, UpToDate, Implementing, Undisturbed,
      Fresh, NoSpec, NoGraph, Lost, Unreadable, Fit, Merging, Planning, Planned, Closed
<1>21. CASE Ask
  <2>1. AtGate  BY <1>21, AskIs
  <2>2. /\ ~Implementing /\ graph.of = merged /\ merged' = merged /\ graph' = graph
        /\ session'.at \in {"execute", "parked", "decompose", "decompose_brief", "merge", "report"}
    BY <2>1 DEF AtGate, Go, Reached, UpToDate, Planned
  <2>3. CASE "complaint" \in disorders'
    BY <2>2, <2>3 DEF UpToDate, Undisturbed
  <2>4. CASE "complaint" \notin disorders'
    <3>1. CASE session'.at = "merge"
      <4>1. phases' = phases  BY <2>1, <3>1 DEF AtGate, Go
      <4> QED  BY <2>2, <3>1, <4>1 DEF UpToDate, Implementing, Merging, Planning, Planned
    <3>2. CASE session'.at # "merge"
      <4>1. texts' = texts /\ disorders' = disorders  BY <2>1, <2>4, <3>2 DEF AtGate, Go
      <4>2. Undisturbed({"complaint", "remaking", "unreadable"}) => Fresh
        BY <2>1 DEF AtGate, UpToDate, Planned
      <4>3. Fresh' <=> Fresh  BY <2>2, <4>1 DEF Fresh
      <4>4. Undisturbed({"complaint", "remaking", "unreadable"})'
              <=> Undisturbed({"complaint", "remaking", "unreadable"})
        BY <4>1 DEF Undisturbed
      <4> QED  BY <2>2, <4>2, <4>3, <4>4 DEF UpToDate
    <3> QED  BY <3>1, <3>2
  <2> QED  BY <2>3, <2>4
<1>22. CASE Execute
  BY <1>22, RoutedInside, Steady
  DEF Execute, Go, Complete, history, Formed, Ordered, Reached, Early, Wholly, UpToDate,
      Implementing, Undisturbed, Fresh, NoSpec, NoGraph, Lost, Unreadable, Fit, Merging, Planning,
      Planned, Closed
<1>23. CASE Integrate
  BY <1>23, RoutedInside, Steady
  DEF Integrate, Go, Complete, history, Formed, Ordered, Reached, Early, Wholly, UpToDate,
      Implementing, Undisturbed, Fresh, NoSpec, NoGraph, Lost, Unreadable, Fit, Merging, Planning,
      Planned, Closed
<1>24. CASE Die
  <2>1. Dies  BY <1>24, DieIs
  <2>2. session'.at = "dead"  BY <2>1 DEF Dies, At
  <2> SUFFICES ASSUME Undisturbed({"complaint", "remaking", "unreadable"})'
               PROVE  /\ Closed(3)' => Fresh'
                      /\ Implementing' => Fresh' /\ graph'.of = merged'
                      /\ Closed(4)' /\ Fit' => graph'.of = merged'
    BY <2>2 DEF UpToDate, Planned, Planning
  <2>3. /\ Undisturbed({"complaint", "remaking", "unreadable"})
        /\ "remaking" \notin disorders' /\ "unreadable" \notin disorders'
    BY <2>1 DEF Dies, Undisturbed
  <2>a. phases' = phases  BY <2>1, <2>3 DEF Dies
  <2>4. Closed(4) => session.at \in {"report", "ask", "execute", "integrate"}
    BY <2>1, <2>3 DEF Dies
  <2>5. CASE Closed(4)
    <3>1. UNCHANGED <<texts, merged, graph>>  BY <2>1, <2>3, <2>4, <2>5 DEF Dies
    <3>2. Fresh' <=> Fresh  BY <3>1 DEF Fresh
    <3>3. Fresh /\ graph.of = merged
      BY <2>3, <2>4, <2>5 DEF UpToDate, Reached, Planned
    <3> QED  BY <3>1, <3>2, <3>3
  <2>6. CASE ~Closed(4)
    <3>1. ~Implementing' /\ ~Closed(4)'
      BY <2>a, <2>6 DEF Ordered, Implementing, Closed
    <3>2. ASSUME Closed(3)' PROVE Fresh'
      <4>0. Closed(3)  BY <2>a, <3>2 DEF Closed
      <4>1. session.at \in {"copy", "pause"} \cup Planning
        BY <2>1, <2>6, <4>0, <3>1, Ordered
        DEF Dies, Reached, Formed, Steps, Merging, Ordered, Planned
      <4>2. UNCHANGED <<texts, merged>>
        BY <2>1, <2>3, <4>1 DEF Dies, Planning
      <4>3. Fresh
        BY <2>3, <4>1 DEF UpToDate, Fresh, NoSpec
      <4> QED  BY <4>2, <4>3 DEF Fresh
    <3> QED  BY <3>1, <3>2
  <2> QED  BY <2>5, <2>6
<1>25. CASE Resume
  <2>1. Reenters  BY <1>25, ResumeIs
  <2>2. PICK first \in 1..6, read \in [1..6 -> Marks] : From(first, read) /\ Branch(first, read)
    BY <2>1 DEF Reenters
  <2>3. ReadAs(first, read)  BY <2>1, <2>2, ReadIs DEF Reenters
  <2> QED  BY <2>1, <2>2, <2>3, Steady
           DEF Reenters, Branch, ReadAs, At, Formed, Ordered, Reached, Ready, Early, UpToDate,
               Implementing, Undisturbed, Fresh, NoSpec, From, Fit, Lost, Closed, Merging, Planning,
               Planned
<1> QED
  BY <1>a, <1>1, <1>2, <1>3, <1>4, <1>5, <1>6, <1>7, <1>8, <1>9, <1>10, <1>11, <1>12, <1>13, <1>14,
     <1>15, <1>16, <1>17, <1>18, <1>19, <1>20, <1>21, <1>22, <1>23, <1>24, <1>25
  DEF PhasesNext

\* No step takes over a brief that did not pass.
LEMMA BriefedKept ==
  ASSUME Formed, Reached, Ordered, UpToDate, Briefed, [PhasesNext]_phasesVars
  PROVE  Briefed'
<1>a. CASE UNCHANGED phasesVars
  BY <1>a, Steady
  DEF phasesVars, disk, history, Formed, Reached, UpToDate, Briefed, Passed, Cached, NoBrief,
      NoGraph, Merging, Planning, Planned
<1>1. CASE Setup
  <2>1. Routes  BY <1>1, SetupIs
  <2> QED  BY <2>1, Steady
           DEF Routes, Go, Formed, Reached, UpToDate, Briefed, Passed, Cached, NoBrief, NoGraph,
               Merging, Planning, Planned
<1>2. CASE Copy
  BY <1>2, Steady
  DEF Copy, Go, history, Formed, Reached, UpToDate, Briefed, Passed, Cached, NoBrief, NoGraph,
      Merging, Planning, Planned
<1>3. ASSUME NEW s \in Specialists, Draft(s)
      PROVE  Briefed'
  BY <1>3, Steady
  DEF Draft, Go, history, Formed, Reached, UpToDate, Briefed, Passed, Cached, NoBrief, NoGraph,
      Merging, Planning, Planned
<1>4. ASSUME NEW s \in Specialists, Revised(s)
      PROVE  Briefed'
  BY <1>4, Steady
  DEF Revised, history, Formed, Reached, UpToDate, Briefed, Passed, Cached, NoBrief, NoGraph,
      Merging, Planning, Planned
<1>5. ASSUME NEW s \in Specialists, ReviewEnds(s)
      PROVE  Briefed'
  <2>1. Closes(s)  BY <1>5, ReviewEndsIs
  <2> QED  BY <2>1, Steady
           DEF Closes, Formed, Reached, UpToDate, Briefed, Passed, Cached, NoBrief, NoGraph,
               Merging, Planning, Planned
<1>6. CASE Landed
  BY <1>6, Steady
  DEF Landed, Complete, history, Formed, Reached, UpToDate, Briefed, Passed, Cached, NoBrief,
      NoGraph, Merging, Planning, Planned
<1>7. CASE Built
  BY <1>7, Steady
  DEF Built, Go, Complete, history, Formed, Reached, UpToDate, Briefed, Passed, Cached, NoBrief,
      NoGraph, Merging, Planning, Planned
<1>8. CASE MergeSpec
  BY <1>8, Steady
  DEF MergeSpec, Go, Merged, Formed, Reached, UpToDate, Briefed, Passed, Cached, NoBrief, NoGraph,
      Merging, Planning, Planned
<1>9. CASE Reconcile
  <2>1. Reconciles  BY <1>9, ReconcileIs
  <2> QED  BY <2>1, Steady
           DEF Reconciles, Go, Formed, Reached, UpToDate, Briefed, Passed, Cached, NoBrief, NoGraph,
               Merging, Planning, Planned
<1>10. CASE Resolve
  <2>1. Resolves  BY <1>10, ResolveIs
  <2> QED  BY <2>1, Steady
           DEF Resolves, Go, Formed, Reached, UpToDate, Briefed, Passed, Cached, NoBrief, NoGraph,
               Merging, Planning, Planned
<1>11. CASE Remerge
  BY <1>11, Steady
  DEF Remerge, Go, Merged, history, Formed, Reached, UpToDate, Briefed, Passed, Cached, NoBrief,
      NoGraph, Merging, Planning, Planned
<1>12. CASE Show
  BY <1>12, Steady
  DEF Show, Go, Complete, history, Formed, Reached, UpToDate, Briefed, Passed, Cached, NoBrief,
      NoGraph, Merging, Planning, Planned
<1>13. CASE GoOn
  BY <1>13, Steady
  DEF GoOn, Go, Complete, history, Formed, Reached, UpToDate, Briefed, Passed, Cached, NoBrief,
      NoGraph, Merging, Planning, Planned
<1>14. CASE CheckCache
  <2>1. Looks  BY <1>14, CheckCacheIs
  <2> QED  BY <2>1, Steady
           DEF Looks, Go, Formed, Reached, UpToDate, Briefed, Passed, Cached, NoBrief, NoGraph,
               Merging, Planning, Planned
<1>15. CASE Compile
  BY <1>15, Steady
  DEF Compile, history, Formed, Reached, UpToDate, Briefed, Passed, Cached, NoBrief, NoGraph,
      Merging, Planning, Planned
<1>16. CASE Verify
  <2>1. Answers  BY <1>16, VerifyIs
  <2> QED  BY <2>1, Steady
           DEF Answers, Go, Formed, Reached, UpToDate, Briefed, Passed, Cached, NoBrief, NoGraph,
               Merging, Planning, Planned
<1>17. CASE Store
  BY <1>17, Steady
  DEF Store, Go, history, Formed, Reached, UpToDate, Briefed, Passed, Cached, NoBrief, NoGraph,
      Merging, Planning, Planned
<1>18. CASE Decompose
  BY <1>18, Steady
  DEF Decompose, Go, Formed, Reached, UpToDate, Briefed, Passed, Cached, NoBrief, NoGraph, Merging,
      Planning, Planned
<1>19. CASE Validate
  <2>1. Checks  BY <1>19, ValidateIs
  <2> QED  BY <2>1, Steady
           DEF Checks, Go, Complete, Formed, Reached, UpToDate, Briefed, Passed, Cached, NoBrief,
               NoGraph, Merging, Planning, Planned
<1>20. CASE Report
  BY <1>20, Steady
  DEF Report, Go, Formed, Reached, UpToDate, Briefed, Passed, Cached, NoBrief, NoGraph, Merging,
      Planning, Planned
<1>21. CASE Ask
  <2>1. AtGate  BY <1>21, AskIs
  <2> QED  BY <2>1, Steady
           DEF AtGate, Go, Formed, Reached, UpToDate, Briefed, Passed, Cached, NoBrief, NoGraph,
               Merging, Planning, Planned
<1>22. CASE Execute
  BY <1>22, Steady
  DEF Execute, Go, Complete, history, Formed, Reached, UpToDate, Briefed, Passed, Cached, NoBrief,
      NoGraph, Merging, Planning, Planned
<1>23. CASE Integrate
  BY <1>23, Steady
  DEF Integrate, Go, Complete, history, Formed, Reached, UpToDate, Briefed, Passed, Cached, NoBrief,
      NoGraph, Merging, Planning, Planned
<1>24. CASE Die
  <2>1. Dies  BY <1>24, DieIs
  <2> QED  BY <2>1, Steady
           DEF Dies, At, Formed, Reached, UpToDate, Briefed, Passed, Cached, NoBrief, NoGraph,
               Merging, Planning, Planned
<1>25. CASE Resume
  <2>1. Reenters  BY <1>25, ResumeIs
  <2>2. PICK first \in 1..6, read \in [1..6 -> Marks] : From(first, read) /\ Branch(first, read)
    BY <2>1 DEF Reenters
  <2>3. ReadAs(first, read)  BY <2>1, <2>2, ReadIs DEF Reenters
  <2> QED  BY <2>1, <2>2, <2>3, Steady
           DEF Reenters, Branch, ReadAs, At, Formed, Briefed, Passed, Merging, Planning, Planned
<1> QED
  BY <1>a, <1>1, <1>2, <1>3, <1>4, <1>5, <1>6, <1>7, <1>8, <1>9, <1>10, <1>11, <1>12, <1>13, <1>14,
     <1>15, <1>16, <1>17, <1>18, <1>19, <1>20, <1>21, <1>22, <1>23, <1>24, <1>25
  DEF PhasesNext

\* No step loses a concern.
LEMMA HeardKept ==
  ASSUME Formed, Ordered, Reached, Ready, Early, Wholly, Briefed, UpToDate, Heard, [PhasesNext]_phasesVars
  PROVE  Heard'
<1>a. CASE UNCHANGED phasesVars
  BY <1>a, Steady, MicroRoutesNobody
  DEF phasesVars, disk, history, Formed, Ordered, Reached, Ready, Early, UpToDate, Heard,
      Undisturbed, Implementing, NoSpec, NoGraph, Lost, Unreadable, Fit, Merging, Planning, Planned,
      Closed
<1>1. CASE Setup
  <2>1. Routes  BY <1>1, SetupIs
  <2> QED  BY <2>1, Steady, MicroRoutesNobody
           DEF Routes, Go, Formed, Ordered, Reached, Ready, Early, UpToDate, Heard, Undisturbed,
               Implementing, NoSpec, NoGraph, Lost, Unreadable, Fit, Merging, Planning, Planned,
               Closed
<1>2. CASE Copy
  BY <1>2, Steady, MicroRoutesNobody
  DEF Copy, Go, history, Formed, Ordered, Reached, Ready, Early, UpToDate, Heard, Undisturbed,
      Implementing, NoSpec, NoGraph, Lost, Unreadable, Fit, Merging, Planning, Planned, Closed
<1>3. ASSUME NEW s \in Specialists, Draft(s)
      PROVE  Heard'
  BY <1>3, Steady, MicroRoutesNobody
  DEF Draft, Go, history, Formed, Ordered, Reached, Ready, Early, UpToDate, Heard, Undisturbed,
      Implementing, NoSpec, NoGraph, Lost, Unreadable, Fit, Merging, Planning, Planned, Closed
<1>4. ASSUME NEW s \in Specialists, Revised(s)
      PROVE  Heard'
  BY <1>4, Steady, MicroRoutesNobody
  DEF Revised, history, Formed, Ordered, Reached, Ready, Early, UpToDate, Heard, Undisturbed,
      Implementing, NoSpec, NoGraph, Lost, Unreadable, Fit, Merging, Planning, Planned, Closed
<1>5. ASSUME NEW s \in Specialists, ReviewEnds(s)
      PROVE  Heard'
  <2>1. Closes(s)  BY <1>5, ReviewEndsIs
  <2> QED  BY <2>1, Steady, MicroRoutesNobody
           DEF Closes, Formed, Ordered, Reached, Ready, Early, UpToDate, Heard, Undisturbed,
               Implementing, NoSpec, NoGraph, Lost, Unreadable, Fit, Merging, Planning, Planned,
               Closed
<1>6. CASE Landed
  BY <1>6, Steady, MicroRoutesNobody
  DEF Landed, Complete, history, Formed, Ordered, Reached, Ready, Early, UpToDate, Heard,
      Undisturbed, Implementing, NoSpec, NoGraph, Lost, Unreadable, Fit, Merging, Planning, Planned,
      Closed
<1>7. CASE Built
  BY <1>7, Steady, MicroRoutesNobody
  DEF Built, Go, Complete, history, Formed, Ordered, Reached, Ready, Early, UpToDate, Heard,
      Undisturbed, Implementing, NoSpec, NoGraph, Lost, Unreadable, Fit, Merging, Planning, Planned,
      Closed
<1>8. CASE MergeSpec
  BY <1>8, Steady, MicroRoutesNobody
  DEF MergeSpec, Go, Merged, Formed, Ordered, Reached, Ready, Early, UpToDate, Heard, Undisturbed,
      Implementing, NoSpec, NoGraph, Lost, Unreadable, Fit, Merging, Planning, Planned, Closed
<1>9. CASE Reconcile
  <2>1. Reconciles  BY <1>9, ReconcileIs
  <2>2. {{}} \cap OfOne = {}  BY DEF OfOne
  <2>3. /\ rulings'.concerns \in {{}, {{}}}
        /\ raised' \subseteq (raised \cap OfOne) \cup rulings'.concerns
        /\ session'.at = "resolve" => session'.todo \cap OfOne = {}
        /\ session'.at \in {"show", "resolve"} /\ session'.knows = session.knows
    BY <2>1 DEF Reconciles, Go
  <2>4. /\ UNCHANGED <<merged, graph, forgot, phases, disorders>>
        /\ session.at = "reconcile" /\ ~Implementing /\ ~Implementing'
    BY <2>1 DEF Reconciles, Reached, Implementing
  <2>5. rulings'.concerns \cap OfOne = {}  BY <2>2, <2>3
  <2>6. raised \cap OfOne \subseteq raised \ rulings.concerns  BY DEF Heard
  <2>7. Undisturbed({"dropped", "unreadable"})' =>
          raised' \subseteq session'.knows \cup merged'.concerns \cup rulings'.concerns \cup forgot'
    BY <2>3, <2>4, <2>6 DEF Heard, Undisturbed
  <2>8. Undisturbed({"dropped", "unreadable"})' <=> Undisturbed({"dropped", "unreadable"})
    BY <2>4 DEF Undisturbed
  <2>9. Closed(4)' <=> Closed(4)  BY <2>4 DEF Closed
  <2> QED
    BY <2>3, <2>4, <2>5, <2>7, <2>8, <2>9 DEF Heard, Merging, Planning, Planned
<1>10. CASE Resolve
  <2>1. Resolves  BY <1>10, ResolveIs
  <2> QED  BY <2>1, Steady, MicroRoutesNobody
           DEF Resolves, Go, Formed, Ordered, Reached, Ready, Early, UpToDate, Heard, Undisturbed,
               Implementing, NoSpec, NoGraph, Lost, Unreadable, Fit, Merging, Planning, Planned,
               Closed
<1>11. CASE Remerge
  BY <1>11, Steady, MicroRoutesNobody
  DEF Remerge, Go, Merged, history, Formed, Ordered, Reached, Ready, Early, UpToDate, Heard,
      Undisturbed, Implementing, NoSpec, NoGraph, Lost, Unreadable, Fit, Merging, Planning, Planned,
      Closed
<1>12. CASE Show
  BY <1>12, Steady, MicroRoutesNobody
  DEF Show, Go, Complete, history, Formed, Ordered, Reached, Ready, Early, UpToDate, Heard,
      Undisturbed, Implementing, NoSpec, NoGraph, Lost, Unreadable, Fit, Merging, Planning, Planned,
      Closed
<1>13. CASE GoOn
  BY <1>13, Steady, MicroRoutesNobody
  DEF GoOn, Go, Complete, history, Formed, Ordered, Reached, Ready, Early, UpToDate, Heard,
      Undisturbed, Implementing, NoSpec, NoGraph, Lost, Unreadable, Fit, Merging, Planning, Planned,
      Closed
<1>14. CASE CheckCache
  <2>1. Looks  BY <1>14, CheckCacheIs
  <2> QED  BY <2>1, Steady, MicroRoutesNobody
           DEF Looks, Go, Formed, Ordered, Reached, Ready, Early, UpToDate, Heard, Undisturbed,
               Implementing, NoSpec, NoGraph, Lost, Unreadable, Fit, Merging, Planning, Planned,
               Closed
<1>15. CASE Compile
  BY <1>15, Steady, MicroRoutesNobody
  DEF Compile, history, Formed, Ordered, Reached, Ready, Early, UpToDate, Heard, Undisturbed,
      Implementing, NoSpec, NoGraph, Lost, Unreadable, Fit, Merging, Planning, Planned, Closed
<1>16. CASE Verify
  <2>1. Answers  BY <1>16, VerifyIs
  <2> QED  BY <2>1, Steady, MicroRoutesNobody
           DEF Answers, Go, Formed, Ordered, Reached, Ready, Early, UpToDate, Heard, Undisturbed,
               Implementing, NoSpec, NoGraph, Lost, Unreadable, Fit, Merging, Planning, Planned,
               Closed
<1>17. CASE Store
  BY <1>17, Steady, MicroRoutesNobody
  DEF Store, Go, history, Formed, Ordered, Reached, Ready, Early, UpToDate, Heard, Undisturbed,
      Implementing, NoSpec, NoGraph, Lost, Unreadable, Fit, Merging, Planning, Planned, Closed
<1>18. CASE Decompose
  BY <1>18, Steady, MicroRoutesNobody
  DEF Decompose, Go, Formed, Ordered, Reached, Ready, Early, UpToDate, Heard, Undisturbed,
      Implementing, NoSpec, NoGraph, Lost, Unreadable, Fit, Merging, Planning, Planned, Closed
<1>19. CASE Validate
  <2>1. Checks  BY <1>19, ValidateIs
  <2> QED  BY <2>1, Steady, MicroRoutesNobody
           DEF Checks, Go, Complete, Formed, Ordered, Reached, Ready, Early, UpToDate, Heard,
               Undisturbed, Implementing, NoSpec, NoGraph, Lost, Unreadable, Fit, Merging, Planning,
               Planned, Closed
<1>20. CASE Report
  BY <1>20, Steady, MicroRoutesNobody
  DEF Report, Go, Formed, Ordered, Reached, Ready, Early, UpToDate, Heard, Undisturbed,
      Implementing, NoSpec, NoGraph, Lost, Unreadable, Fit, Merging, Planning, Planned, Closed
<1>21. CASE Ask
  <2>1. AtGate  BY <1>21, AskIs
  <2> QED  BY <2>1, Steady, MicroRoutesNobody
           DEF AtGate, Go, Formed, Ordered, Reached, Ready, Early, UpToDate, Heard, Undisturbed,
               Implementing, NoSpec, NoGraph, Lost, Unreadable, Fit, Merging, Planning, Planned,
               Closed
<1>22. CASE Execute
  BY <1>22, Steady, MicroRoutesNobody
  DEF Execute, Go, Complete, history, Formed, Ordered, Reached, Ready, Early, UpToDate, Heard,
      Undisturbed, Implementing, NoSpec, NoGraph, Lost, Unreadable, Fit, Merging, Planning, Planned,
      Closed
<1>23. CASE Integrate
  BY <1>23, Steady, MicroRoutesNobody
  DEF Integrate, Go, Complete, history, Formed, Ordered, Reached, Ready, Early, UpToDate, Heard,
      Undisturbed, Implementing, NoSpec, NoGraph, Lost, Unreadable, Fit, Merging, Planning, Planned,
      Closed
<1>24. CASE Die
  <2>1. Dies  BY <1>24, DieIs
  <2>2. /\ session'.at = "dead" /\ session'.knows = {} /\ rulings' = rulings /\ raised' = raised
        /\ forgot' = forgot \cup ((session.knows \cup merged.concerns) \ merged'.concerns)
    BY <2>1 DEF Dies, At
  <2>3. rulings'.concerns \cap OfOne = {}  BY <2>2 DEF Heard
  <2> SUFFICES ASSUME Undisturbed({"dropped", "unreadable"})'
               PROVE  /\ raised \subseteq merged'.concerns \cup rulings.concerns \cup forgot'
                      /\ Closed(4)' /\ ~Fit' /\ graph'.whole => graph'.of.concerns = merged'.concerns
                      /\ Implementing' \/ (Closed(4)' /\ Fit') =>
                           raised \subseteq graph'.of.concerns \cup rulings.concerns \cup forgot'
    BY <2>2, <2>3 DEF Heard, Merging, Planning, Planned
  <2>4. Undisturbed({"dropped", "unreadable"}) /\ "unreadable" \notin disorders'
    BY <2>1 DEF Dies, Undisturbed
  <2>5. phases' = phases  BY <2>1, <2>4 DEF Dies
  <2>6. raised \subseteq session.knows \cup merged.concerns \cup rulings.concerns \cup forgot
    BY <2>4 DEF Heard
  <2>7. raised \subseteq merged'.concerns \cup rulings.concerns \cup forgot'  BY <2>2, <2>6
  <2>8. ASSUME Closed(4), ~Fit', graph'.whole
        PROVE  graph'.of.concerns = merged'.concerns
    <3>1. graph' = graph /\ ~Fit  BY <2>1, <2>8 DEF Dies, Fit, NoGraph
    <3>2. session.at \in Planning
      <4>1. session.at \notin Merging  BY <2>8, <3>1 DEF Reached
      <4>2. session.at \notin Planned \cup {"execute", "integrate"}
        BY <3>1 DEF Reached, Ready
      <4>3. session.at \notin {"copy", "build"}  BY <2>8 DEF Reached, Ordered
      <4> QED  BY <2>1, <4>1, <4>2, <4>3 DEF Dies, Formed, Steps
    <3>3. merged' = merged  BY <2>1, <3>2 DEF Dies, Planning
    <3> QED  BY <2>4, <2>8, <3>1, <3>2, <3>3 DEF Heard
  <2>9. ASSUME Implementing \/ (Closed(4) /\ Fit')
        PROVE  raised \subseteq graph'.of.concerns \cup rulings.concerns \cup forgot'
    <3>1. CASE Implementing
      <4>1. graph' = graph  BY <2>1, <3>1 DEF Dies, Reached
      <4> QED  BY <2>2, <2>4, <3>1, <4>1 DEF Heard
    <3>2. CASE ~Implementing /\ Closed(4) /\ Fit'
      <4>1. graph' = graph /\ graph.whole  BY <2>1, <3>2 DEF Dies, Fit, NoGraph
      <4>2. session.at \in Merging \cup Planning \cup Planned
        BY <2>1, <3>2 DEF Dies, Formed, Steps, Reached, Ordered
      <4>3. session.knows \subseteq merged.concerns /\ graph.of.concerns = merged.concerns
        BY <2>4, <3>2, <4>1, <4>2 DEF Heard
      <4> QED  BY <2>2, <2>6, <4>1, <4>3
    <3> QED  BY <2>9, <3>1, <3>2
  <2>10. /\ Closed(4)' <=> Closed(4)
         /\ Implementing' <=> Implementing
    BY <2>5 DEF Closed, Implementing
  <2> QED  BY <2>7, <2>8, <2>9, <2>10
<1>25. CASE Resume
  <2>1. Reenters  BY <1>25, ResumeIs
  <2>2. PICK first \in 1..6, read \in [1..6 -> Marks] : From(first, read) /\ Branch(first, read)
    BY <2>1 DEF Reenters
  <2>3. ReadAs(first, read)  BY <2>1, <2>2, ReadIs DEF Reenters
  <2> QED  BY <2>1, <2>2, <2>3, Steady
           DEF Reenters, Branch, ReadAs, At, Formed, Ordered, Reached, Ready, Early, UpToDate,
               Heard, Undisturbed, Implementing, From, Fit, Lost, Closed, Merging, Planning, Planned
<1> QED
  BY <1>a, <1>1, <1>2, <1>3, <1>4, <1>5, <1>6, <1>7, <1>8, <1>9, <1>10, <1>11, <1>12, <1>13, <1>14,
     <1>15, <1>16, <1>17, <1>18, <1>19, <1>20, <1>21, <1>22, <1>23, <1>24, <1>25
  DEF PhasesNext

\* No step implements what the user did not see and ask for.
LEMMA AskedKept ==
  ASSUME Formed, Ordered, Reached, Ready, Early, Briefed, Asked, [PhasesNext]_phasesVars
  PROVE  Asked'
<1>a. CASE UNCHANGED phasesVars
  BY <1>a, Steady
  DEF phasesVars, disk, history, Formed, Ordered, Reached, Asked, Implementing, Lost, Unreadable,
      NoGraph, Merging, Planning, Planned, Closed
<1>1. CASE Setup
  <2>1. Routes  BY <1>1, SetupIs
  <2> QED  BY <2>1, Steady
           DEF Routes, Go, Formed, Ordered, Reached, Asked, Implementing, Lost, Unreadable, NoGraph,
               Merging, Planning, Planned, Closed
<1>2. CASE Copy
  BY <1>2, Steady
  DEF Copy, Go, history, Formed, Ordered, Reached, Asked, Implementing, Lost, Unreadable, NoGraph,
      Merging, Planning, Planned, Closed
<1>3. ASSUME NEW s \in Specialists, Draft(s)
      PROVE  Asked'
  BY <1>3, Steady
  DEF Draft, Go, history, Formed, Ordered, Reached, Asked, Implementing, Lost, Unreadable, NoGraph,
      Merging, Planning, Planned, Closed
<1>4. ASSUME NEW s \in Specialists, Revised(s)
      PROVE  Asked'
  BY <1>4, Steady
  DEF Revised, history, Formed, Ordered, Reached, Asked, Implementing, Lost, Unreadable, NoGraph,
      Merging, Planning, Planned, Closed
<1>5. ASSUME NEW s \in Specialists, ReviewEnds(s)
      PROVE  Asked'
  <2>1. Closes(s)  BY <1>5, ReviewEndsIs
  <2> QED  BY <2>1, Steady
           DEF Closes, Formed, Ordered, Reached, Asked, Implementing, Lost, Unreadable, NoGraph,
               Merging, Planning, Planned, Closed
<1>6. CASE Landed
  BY <1>6, Steady
  DEF Landed, Complete, history, Formed, Ordered, Reached, Asked, Implementing, Lost, Unreadable,
      NoGraph, Merging, Planning, Planned, Closed
<1>7. CASE Built
  BY <1>7, Steady
  DEF Built, Go, Complete, history, Formed, Ordered, Reached, Asked, Implementing, Lost, Unreadable,
      NoGraph, Merging, Planning, Planned, Closed
<1>8. CASE MergeSpec
  BY <1>8, Steady
  DEF MergeSpec, Go, Merged, Formed, Ordered, Reached, Asked, Implementing, Lost, Unreadable,
      NoGraph, Merging, Planning, Planned, Closed
<1>9. CASE Reconcile
  <2>1. Reconciles  BY <1>9, ReconcileIs
  <2> QED  BY <2>1, Steady
           DEF Reconciles, Go, Formed, Ordered, Reached, Asked, Implementing, Lost, Unreadable,
               NoGraph, Merging, Planning, Planned, Closed
<1>10. CASE Resolve
  <2>1. Resolves  BY <1>10, ResolveIs
  <2> QED  BY <2>1, Steady
           DEF Resolves, Go, Formed, Ordered, Reached, Asked, Implementing, Lost, Unreadable,
               NoGraph, Merging, Planning, Planned, Closed
<1>11. CASE Remerge
  BY <1>11, Steady
  DEF Remerge, Go, Merged, history, Formed, Ordered, Reached, Asked, Implementing, Lost, Unreadable,
      NoGraph, Merging, Planning, Planned, Closed
<1>12. CASE Show
  BY <1>12, Steady
  DEF Show, Go, Complete, history, Formed, Ordered, Reached, Asked, Implementing, Lost, Unreadable,
      NoGraph, Merging, Planning, Planned, Closed
<1>13. CASE GoOn
  BY <1>13, Steady
  DEF GoOn, Go, Complete, history, Formed, Ordered, Reached, Asked, Implementing, Lost, Unreadable,
      NoGraph, Merging, Planning, Planned, Closed
<1>14. CASE CheckCache
  <2>1. Looks  BY <1>14, CheckCacheIs
  <2> QED  BY <2>1, Steady
           DEF Looks, Go, Formed, Ordered, Reached, Asked, Implementing, Lost, Unreadable, NoGraph,
               Merging, Planning, Planned, Closed
<1>15. CASE Compile
  BY <1>15, Steady
  DEF Compile, history, Formed, Ordered, Reached, Asked, Implementing, Lost, Unreadable, NoGraph,
      Merging, Planning, Planned, Closed
<1>16. CASE Verify
  <2>1. Answers  BY <1>16, VerifyIs
  <2> QED  BY <2>1, Steady
           DEF Answers, Go, Formed, Ordered, Reached, Asked, Implementing, Lost, Unreadable,
               NoGraph, Merging, Planning, Planned, Closed
<1>17. CASE Store
  BY <1>17, Steady
  DEF Store, Go, history, Formed, Ordered, Reached, Asked, Implementing, Lost, Unreadable, NoGraph,
      Merging, Planning, Planned, Closed
<1>18. CASE Decompose
  BY <1>18, Steady
  DEF Decompose, Go, Formed, Ordered, Reached, Asked, Implementing, Lost, Unreadable, NoGraph,
      Merging, Planning, Planned, Closed
<1>19. CASE Validate
  <2>1. Checks  BY <1>19, ValidateIs
  <2> QED  BY <2>1, Steady
           DEF Checks, Go, Complete, Formed, Ordered, Reached, Asked, Implementing, Lost,
               Unreadable, NoGraph, Merging, Planning, Planned, Closed
<1>20. CASE Report
  BY <1>20, Steady
  DEF Report, Go, Formed, Ordered, Reached, Asked, Implementing, Lost, Unreadable, NoGraph, Merging,
      Planning, Planned, Closed
<1>21. CASE Ask
  <2>1. AtGate  BY <1>21, AskIs
  <2> QED  BY <2>1, Steady
           DEF AtGate, Go, Formed, Ordered, Reached, Asked, Implementing, Lost, Unreadable, NoGraph,
               Merging, Planning, Planned, Closed
<1>22. CASE Execute
  BY <1>22, Steady
  DEF Execute, Go, Complete, history, Formed, Ordered, Reached, Asked, Implementing, Lost,
      Unreadable, NoGraph, Merging, Planning, Planned, Closed
<1>23. CASE Integrate
  BY <1>23, Steady
  DEF Integrate, Go, Complete, history, Formed, Ordered, Reached, Asked, Implementing, Lost,
      Unreadable, NoGraph, Merging, Planning, Planned, Closed
<1>24. CASE Die
  <2>1. Dies  BY <1>24, DieIs
  <2> QED  BY <2>1, Steady
           DEF Dies, At, Formed, Ordered, Reached, Asked, Implementing, Lost, Unreadable, NoGraph,
               Merging, Planning, Planned, Closed
<1>25. CASE Resume
  <2>1. Reenters  BY <1>25, ResumeIs
  <2>2. PICK first \in 1..6, read \in [1..6 -> Marks] : From(first, read) /\ Branch(first, read)
    BY <2>1 DEF Reenters
  <2>3. ReadAs(first, read)  BY <2>1, <2>2, ReadIs DEF Reenters
  <2> QED  BY <2>1, <2>2, <2>3, Steady
           DEF Reenters, Branch, ReadAs, At, Formed, Ordered, Reached, Asked, Implementing, From,
               Lost, Closed, Fit, Merging, Planning, Planned
<1> QED
  BY <1>a, <1>1, <1>2, <1>3, <1>4, <1>5, <1>6, <1>7, <1>8, <1>9, <1>10, <1>11, <1>12, <1>13, <1>14,
     <1>15, <1>16, <1>17, <1>18, <1>19, <1>20, <1>21, <1>22, <1>23, <1>24, <1>25
  DEF PhasesNext

\* A run starts in the invariant.
LEMMA PlanStarts == PhasesInit => PlanInv
<1> SUFFICES ASSUME PhasesInit PROVE PlanInv  OBVIOUS
<1>1. Formed
  BY DEF PhasesInit, Formed, Marks, Steps, At, NoBrief, NoRulings
<1>2. Ordered /\ Reached /\ Ready /\ Early
  BY DEF PhasesInit, Ordered, Reached, Ready, Early, Closed, At, Implementing, Merging, Planning,
         Planned, Lost, Unreadable, NoGraph, NoSpec
<1>3. UpToDate /\ Wholly
  BY DEF PhasesInit, UpToDate, Wholly, Closed, At, Implementing, Planning, Planned, NoGraph, NoSpec
<1>4. Untorn
  <2>1. Missing # Torn  BY DEF Missing, Torn
  <2> QED  BY <2>1 DEF PhasesInit, Untorn, At, NoSpec, NoGraph
<1>5. Briefed
  BY DEF PhasesInit, Briefed, At, NoGraph
<1>6. Heard /\ Asked
  BY DEF PhasesInit, Heard, Asked, Closed, At, NoSpec, NoRulings, Implementing, Merging, Planning,
         Planned, Lost, Unreadable
<1> QED  BY <1>1, <1>2, <1>3, <1>4, <1>5, <1>6 DEF PlanInv

\* The invariant of a run, over all its steps, deaths and resumes.
THEOREM PlanInvariant == PhasesSpec => []PlanInv
<1>1. PlanInv /\ [PhasesNext]_phasesVars => PlanInv'
  BY FormedKept, OrderedKept, ReachedKept, ReadyKept, EarlyKept, UpToDateKept, WhollyKept,
     UntornKept, BriefedKept, HeardKept, AskedKept
  DEF PlanInv
<1> QED  BY PlanStarts, <1>1, PTL DEF PhasesSpec

\* What is implemented is what was decided, over any deaths and resumes, but for the
\* disorders it names (PlanOfNow).
THEOREM PlanIsOfNow == PhasesSpec => []PlanOfNow
<1>1. PlanInv => PlanOfNow
  <2> SUFFICES ASSUME PlanInv, Implementing PROVE PlanOfNow  BY DEF PlanOfNow
  <2>1. Fit /\ (graph.owns \/ "resumed" \in words)  BY DEF PlanInv, Ready
  <2>2. Undisturbed({"complaint", "remaking", "unreadable"}) => Fresh /\ graph.of = merged
    BY DEF PlanInv, UpToDate
  <2>3. Undisturbed({"no_request"}) => Good(graph.of)  BY <2>1 DEF PlanInv, Wholly, Fit
  <2>4. Undisturbed({"overwriting", "revising"}) =>
          \A s \in DOMAIN graph.of.texts : graph.of.texts[s] # Torn
    BY DEF PlanInv, Untorn
  <2>5. graph.via = "brief" /\ settings.loads => Passed(graph.by, graph.of)
    BY DEF PlanInv, Briefed
  <2>6. Undisturbed({"dropped", "unreadable"}) =>
          raised \subseteq graph.of.concerns \cup rulings.concerns \cup forgot
    BY DEF PlanInv, Heard
  <2> QED
    BY <2>1, <2>2, <2>3, <2>4, <2>5, <2>6 DEF PlanOfNow, Fit, Fresh, Good, Passed
<1> QED  BY PlanInvariant, <1>1, PTL

\* A plan-only run is implemented only after the user was asked (PlanOnlyWaits).
THEOREM PlanOnlyIsAsked == PhasesSpec => []PlanOnlyWaits
<1>1. PlanInv => PlanOnlyWaits  BY DEF PlanInv, Asked, PlanOnlyWaits
<1> QED  BY PlanInvariant, <1>1, PTL

-----------------------------------------------------------------------------
(* The checks before a review: the inductive invariant. *)

Trees == [Paths -> UNION {Contents[p] : p \in Paths}]

\* What the checkers are asked of stays as it is while they run.
Waited ==
  /\ tree \in Trees /\ commits \in Seq(Trees)
  /\ hook.at \in {"off", "diff", "check"}
  /\ hook.at # "off" => /\ hook # NoHook /\ hook.commit \in 0..Len(commits)
                        /\ worker = "reported" /\ reviewer # "reviewing"
  /\ hook.at = "check" => hook.tree = tree
  /\ told # NoWord => told.of \in 0..Len(commits)

\* The lines of the diff of the commit that is checked.
DiffLines ==
  LET diff == Changed(0, hook.commit)
  IN  {TreeOf(0)[p] : p \in diff} \cup {TreeOf(hook.commit)[p] : p \in diff}

\* A result is what the checker of its name found, unless that one broke.
Sound(r, broken) ==
  /\ r.ran \in BOOLEAN /\ r.passed \in BOOLEAN
  /\ r.name \in {"tests", "ast"} => ~r.ran
  /\ r.ran /\ r.name = "ownership" => (r.passed <=> Changed(0, hook.commit) \subseteq OwnPaths)
  /\ r.ran /\ r.name = "secrets" => (r.passed <=> "secret" \notin DiffLines)
  /\ r.ran /\ r.name \in {"types", "lint"} \ broken =>
       (r.passed <=> {tree[p] : p \in Paths} \cap Complains[r.name] = {})

Fields == {"at", "commit", "todo", "diff", "results", "tree", "broken"}

\* The checks so far: sound results, and each checker has one or is to come.
Checked ==
  hook.at = "check" =>
    /\ DOMAIN hook = Fields
    /\ hook.todo \in Seq(STRING)
    /\ hook.diff.available => hook.diff.lines = DiffLines
    /\ \A r \in hook.results : Sound(r, hook.broken)
    /\ {r.name : r \in hook.results} \cup (ToSet(hook.todo) \cap Registry)
         = ToSet(Checkers) \cap Registry

SieveInv == Waited /\ Checked /\ CoveredHolds

\* A commit that was made stays as it is.
LEMMA CommitsStay ==
  ASSUME Waited, [SieveNext]_sieveVars
  PROVE  /\ commits' \in Seq(Trees) /\ Len(commits) \in Nat /\ Len(commits') \in Nat
         /\ Len(commits) <= Len(commits')
         /\ \A n \in 0..Len(commits) : TreeOf(n)' = TreeOf(n)
<1>1. commits' = commits \/ commits' = Append(commits, tree)
  BY DEF SieveNext, sieveVars, Edit, CommitTree, ReportWork, SpawnReviewer, TakeDiff, Check,
         Declare, GiveUp, SendBack, ReReview, Pass
<1>2. tree \in Trees /\ commits \in Seq(Trees)  BY DEF Waited
<1>3. CASE commits' = commits  BY <1>2, <1>3 DEF TreeOf, Cut
<1>4. CASE commits' = Append(commits, tree)
  <2>1. /\ commits' \in Seq(Trees) /\ Len(commits') = Len(commits) + 1 /\ Len(commits) \in Nat
        /\ \A n \in 1..Len(commits) : commits'[n] = commits[n]
    BY <1>2, <1>4
  <2> QED  BY <2>1 DEF TreeOf, Cut
<1> QED  BY <1>1, <1>3, <1>4

\* A checker adds its sound result; a name that is not registered adds none.
Adds(R, B) ==
  /\ hook.at = "check" /\ hook.todo # <<>>
  /\ DOMAIN hook' = Fields /\ hook'.at = "check"
  /\ hook'.commit = hook.commit /\ hook'.diff = hook.diff /\ hook'.tree = hook.tree
  /\ hook'.todo = Tail(hook.todo)
  /\ hook'.results = hook.results \cup R /\ hook'.broken = hook.broken \cup B
  /\ {r.name : r \in R} = {Head(hook.todo)} \cap Registry
  /\ \A r \in R : Sound(r, hook.broken \cup B)

\* Check, by the name of the checker.
LEMMA CheckIs ==
  ASSUME Waited, Checked, Check
  PROVE  \E R, B : Adds(R, B)
<1> DEFINE name == Head(hook.todo)
           After(R, B) ==
             /\ DOMAIN hook' = Fields /\ hook'.at = "check"
             /\ hook'.commit = hook.commit /\ hook'.diff = hook.diff /\ hook'.tree = hook.tree
             /\ hook'.todo = Tail(hook.todo)
             /\ hook'.results = hook.results \cup R /\ hook'.broken = hook.broken \cup B
<1>1. hook.at = "check" /\ hook.todo # <<>>  BY DEF Check
<1>2. DOMAIN hook = Fields  BY <1>1 DEF Checked
<1>3. ASSUME NEW r, NEW b,
             hook' = [hook EXCEPT !.todo = Tail(@), !.results = @ \cup {r}, !.broken = @ \cup b]
      PROVE  After({r}, b)
  BY <1>1, <1>2, <1>3 DEF Fields
<1>4. ASSUME hook' = [hook EXCEPT !.todo = Tail(@)] PROVE After({}, {})
  BY <1>1, <1>2, <1>4 DEF Fields
<1> HIDE DEF After
<1>5. \/ /\ name = "ownership"
         /\ \E found \in BOOLEAN : \E r \in CheckOwnership(hook.commit, found) : After({r}, {})
      \/ name = "secrets" /\ After({CheckSecrets(hook.diff)}, {})
      \/ name \in {"types", "lint"} /\ \E r \in ToolOutcomes(name, tree) : After({r}, {})
      \/ name \in HasTool /\ \E r \in Broken(name) : After({r}, {name})
      \/ name \in {"tests", "ast"} /\ After({CheckNever(name)}, {})
      \/ name \notin Registry /\ After({}, {})
  BY <1>3, <1>4 DEF Check
<1>6. SUFFICES \E R, B : /\ After(R, B)
                        /\ {r.name : r \in R} = {name} \cap Registry
                        /\ \A r \in R : Sound(r, hook.broken \cup B)
  BY <1>1 DEF Adds, After
<1>7. ASSUME NEW r, NEW b, After({r}, b), r.name = name, name \in Registry,
             Sound(r, hook.broken \cup b)
      PROVE  \E R, B : /\ After(R, B)
                      /\ {q.name : q \in R} = {name} \cap Registry
                      /\ \A q \in R : Sound(q, hook.broken \cup B)
  <2>1. {q.name : q \in {r}} = {name} \cap Registry  BY <1>7
  <2>2. \A q \in {r} : Sound(q, hook.broken \cup b)  BY <1>7
  <2> QED  BY <1>7, <2>1, <2>2
<1>8. ASSUME NEW found \in BOOLEAN, NEW r \in CheckOwnership(hook.commit, found),
             name = "ownership"
      PROVE  r.name = name /\ name \in Registry /\ Sound(r, hook.broken \cup {})
  <2>1. r = NotRun("ownership")
        \/ r = Result("ownership", TRUE, Changed(0, hook.commit) \subseteq OwnPaths)
    BY <1>8 DEF CheckOwnership, DiffBase
  <2> DEFINE within == Changed(0, hook.commit) \subseteq OwnPaths
  <2>2. within \in BOOLEAN  OBVIOUS
  <2>3. /\ r.name = "ownership" /\ r.ran \in BOOLEAN /\ r.passed \in BOOLEAN
        /\ r.ran => (r.passed <=> within)
    <3> HIDE DEF within
    <3>1. NotRun("ownership").name = "ownership" /\ NotRun("ownership").ran = FALSE
          /\ NotRun("ownership").passed = FALSE
      BY DEF NotRun, Result
    <3>2. /\ Result("ownership", TRUE, within).name = "ownership"
          /\ Result("ownership", TRUE, within).ran = TRUE
          /\ Result("ownership", TRUE, within).passed = within
      BY DEF Result
    <3> QED  BY <2>1, <2>2, <3>1, <3>2 DEF within
  <2> QED  BY <1>8, <2>3 DEF Sound, Registry
<1>9. ASSUME name = "secrets"
      PROVE  LET r == CheckSecrets(hook.diff) IN
             r.name = name /\ name \in Registry /\ Sound(r, hook.broken \cup {})
  BY <1>1, <1>9 DEF Checked, CheckSecrets, NotRun, Result, Sound, Registry
<1>10. ASSUME name \in {"types", "lint"}, NEW r \in ToolOutcomes(name, tree)
       PROVE  r.name = name /\ name \in Registry /\ Sound(r, hook.broken \cup {})
  <2> DEFINE silent == {tree[p] : p \in Paths} \cap Complains[name] = {}
  <2>1. r = NotRun(name) \/ r = Result(name, TRUE, silent)  BY DEF ToolOutcomes
  <2>2. silent \in BOOLEAN  OBVIOUS
  <2>3. /\ r.name = name /\ r.ran \in BOOLEAN /\ r.passed \in BOOLEAN
        /\ r.ran => (r.passed <=> silent)
    <3> HIDE DEF silent, name
    <3>1. NotRun(name).name = name /\ NotRun(name).ran = FALSE /\ NotRun(name).passed = FALSE
      BY DEF NotRun, Result
    <3>2. /\ Result(name, TRUE, silent).name = name /\ Result(name, TRUE, silent).ran = TRUE
          /\ Result(name, TRUE, silent).passed = silent
      BY DEF Result
    <3> QED  BY <2>1, <2>2, <3>1, <3>2
  <2> QED  BY <1>10, <2>3 DEF Sound, Registry
<1>11. ASSUME name \in HasTool, NEW r \in Broken(name)
       PROVE  r.name = name /\ name \in Registry /\ Sound(r, hook.broken \cup {name})
  <2>1. name \in {"types", "lint"}  BY <1>11, SieveAssumption
  <2>2. r.name = name /\ r.ran = TRUE /\ r.passed \in BOOLEAN
    <3>1. PICK b \in BOOLEAN : r = Result(name, TRUE, b)  BY DEF Broken
    <3> HIDE DEF name
    <3> QED  BY <3>1 DEF Result
  <2> QED  BY <2>1, <2>2 DEF Sound, Registry
<1>12. ASSUME name \in {"tests", "ast"}
       PROVE  LET r == CheckNever(name) IN
              r.name = name /\ name \in Registry /\ Sound(r, hook.broken \cup {})
  BY <1>12 DEF CheckNever, NotRun, Result, Sound, Registry
<1>13. CASE name \notin Registry /\ After({}, {})
  <2>1. {r.name : r \in {}} = {name} \cap Registry  BY <1>13
  <2> QED  BY <1>13, <2>1
<1> HIDE DEF name
<1> QED  BY <1>5, <1>7, <1>8, <1>9, <1>10, <1>11, <1>12, <1>13

\* Nothing moves under the checkers.
LEMMA WaitedKept ==
  ASSUME Waited, Checked, [SieveNext]_sieveVars
  PROVE  Waited'
<1>1. /\ commits' \in Seq(Trees) /\ Len(commits) \in Nat /\ Len(commits') \in Nat
      /\ Len(commits) <= Len(commits')
  BY CommitsStay
<1>2. Len(commits) \in 0..Len(commits)  BY <1>1
<1>a. CASE UNCHANGED sieveVars  BY <1>a DEF sieveVars, Waited
<1>3. CASE Edit
  <2>1. PICK p \in Paths : \E c \in Contents[p] : tree' = [tree EXCEPT ![p] = c]
    BY <1>3 DEF Edit
  <2>2. tree' \in Trees  BY <2>1 DEF Waited, Trees
  <2> QED  BY <1>3, <2>2 DEF Edit, Waited
<1>4. CASE CommitTree  BY <1>1, <1>4 DEF CommitTree, Waited
<1>5. CASE ReportWork \/ SendBack \/ ReReview \/ Pass
  BY <1>5 DEF ReportWork, SendBack, ReReview, Pass, Waited, NoHook
<1>6. CASE SpawnReviewer
  BY <1>1, <1>2, <1>6 DEF SpawnReviewer, Waited, NoHook
<1>7. CASE TakeDiff  BY <1>7 DEF TakeDiff, Waited, NoHook
<1>8. CASE Check
  <2>1. PICK R, B : Adds(R, B)  BY <1>8, CheckIs
  <2> QED  BY <1>8, <2>1 DEF Adds, Check, Waited, NoHook, Fields
<1>9. CASE Declare  BY <1>9 DEF Declare, Declaration, Waited, NoHook
<1>10. CASE GiveUp  BY <1>10 DEF GiveUp, Waited, NoHook
<1> QED
  BY <1>a, <1>3, <1>4, <1>5, <1>6, <1>7, <1>8, <1>9, <1>10 DEF SieveNext

\* What was found of a commit is so after any other step.
LEMMA SoundStays ==
  ASSUME Waited, Checked, [SieveNext]_sieveVars, hook.at = "check", tree' = tree,
         hook'.commit = hook.commit
  PROVE  /\ DiffLines' = DiffLines
         /\ \A r, broken : Sound(r, broken)' <=> Sound(r, broken)
<1>1. hook.commit \in 0..Len(commits) /\ 0 \in 0..Len(commits)  BY CommitsStay DEF Waited
<1>2. \A n \in 0..Len(commits) : TreeOf(n)' = TreeOf(n)  BY CommitsStay
<1>3. TreeOf(0)' = TreeOf(0) /\ TreeOf(hook.commit)' = TreeOf(hook.commit)
  <2>1. \A n \in 0..Len(commits) : hook'.commit = n => TreeOf(hook.commit)' = TreeOf(n)'
    OBVIOUS
  <2> QED  BY <1>1, <1>2, <2>1
<1>4. Changed(0, hook.commit)' = Changed(0, hook.commit)  BY <1>3 DEF Changed
<1>5. DiffLines' = DiffLines  BY <1>3, <1>4 DEF DiffLines
<1> QED  BY <1>4, <1>5 DEF Sound

\* The results stay sound, and those to come are to come.
LEMMA CheckedKept ==
  ASSUME Waited, Checked, [SieveNext]_sieveVars
  PROVE  Checked'
<1>1. CASE hook' = hook /\ (hook.at = "check" => tree' = tree)
  <2>1. CASE hook.at # "check"  BY <1>1, <2>1 DEF Checked
  <2>2. CASE hook.at = "check"
    <3>1. /\ DiffLines' = DiffLines
          /\ \A r : Sound(r, hook.broken)' <=> Sound(r, hook.broken)
      <4>1. \A r, broken : Sound(r, broken)' <=> Sound(r, broken)
        BY <1>1, <2>2, SoundStays
      <4>2. \A r, broken : broken = hook.broken => (Sound(r, hook.broken)' <=> Sound(r, broken)')
        BY <1>1
      <4> QED  BY <1>1, <2>2, <4>1, <4>2, SoundStays
    <3> QED  BY <1>1, <2>2, <3>1 DEF Checked
  <2> QED  BY <2>1, <2>2
<1>2. CASE \/ Edit \/ CommitTree \/ ReportWork \/ SendBack \/ ReReview \/ Pass
           \/ UNCHANGED sieveVars
  BY <1>1, <1>2
  DEF Edit, CommitTree, ReportWork, SendBack, ReReview, Pass, sieveVars, Waited
<1>3. CASE SpawnReviewer \/ Declare \/ GiveUp
  BY <1>3 DEF SpawnReviewer, Declare, GiveUp, NoHook, Checked
<1>4. CASE TakeDiff
  <2> DEFINE lines(b) == UNION {{TreeOf(b)[p], TreeOf(hook.commit)[p]} : p \in Changed(b, hook.commit)}
             Diff(found) ==
               IF DiffBase(hook.commit, found) = {} THEN [available |-> FALSE, lines |-> {}]
               ELSE [available |-> TRUE, lines |-> UNION {lines(b) : b \in DiffBase(hook.commit, found)}]
  <2>1. PICK found \in BOOLEAN :
          hook' = [at |-> "check", commit |-> hook.commit, todo |-> Checkers, diff |-> Diff(found),
                   results |-> {}, tree |-> tree, broken |-> {}]
    BY <1>4 DEF TakeDiff
  <2>2. Diff(found).available => Diff(found).lines = DiffLines
    <3> SUFFICES ASSUME Diff(found).available PROVE Diff(found).lines = DiffLines  OBVIOUS
    <3>1. DiffBase(hook.commit, found) = {0}  BY DEF DiffBase
    <3>2. Diff(found).lines = lines(0)  BY <3>1
    <3> DEFINE diff == Changed(0, hook.commit)
               a(p) == TreeOf(0)[p]
               b(p) == TreeOf(hook.commit)[p]
    <3>3. UNION {{a(p), b(p)} : p \in diff} = {a(p) : p \in diff} \cup {b(p) : p \in diff}
      <4> HIDE DEF diff, a, b
      <4> QED  OBVIOUS
    <3> QED  BY <3>2, <3>3 DEF DiffLines
  <2> HIDE DEF Diff
  <2>3. /\ DOMAIN hook' = Fields /\ hook'.todo = Checkers /\ hook'.results = {}
        /\ hook'.commit = hook.commit /\ hook'.diff = Diff(found)
    BY <2>1 DEF Fields
  <2>4. commits' = commits  BY <1>4 DEF TakeDiff
  <2>5. DiffLines' = DiffLines  BY <2>3, <2>4 DEF DiffLines, Changed, TreeOf
  <2> QED  BY <2>2, <2>3, <2>5, SieveAssumption DEF Checked
<1>5. CASE Check
  <2>1. PICK R, B : Adds(R, B)  BY <1>5, CheckIs
  <2>2. hook.at = "check" /\ tree' = tree /\ hook'.commit = hook.commit
    BY <1>5, <2>1 DEF Adds, Check
  <2>3. hook.todo \in Seq(STRING) /\ hook.todo # <<>>  BY <2>1, <2>2 DEF Adds, Checked
  <2>4. Tail(hook.todo) \in Seq(STRING)
        /\ ToSet(hook.todo) = {Head(hook.todo)} \cup ToSet(Tail(hook.todo))
    <3> DEFINE s == hook.todo
    <3>1. /\ Tail(s) \in Seq(STRING) /\ Len(Tail(s)) = Len(s) - 1
          /\ \A i \in 1..Len(Tail(s)) : Tail(s)[i] = s[i + 1]
      BY <2>3, HeadTailProperties
    <3>2. Head(s) = s[1] /\ Len(s) \in Nat /\ Len(s) >= 1 /\ DOMAIN s = 1..Len(s)
      BY <2>3
    <3>3. DOMAIN Tail(s) = 1..Len(Tail(s))  BY <3>1
    <3> HIDE DEF s
    <3>4. ASSUME NEW x \in ToSet(s), x # s[1] PROVE x \in ToSet(Tail(s))
      <4>1. PICK i \in 2..Len(s) : x = s[i]  BY <3>2, <3>4 DEF ToSet
      <4>2. i - 1 \in 1..Len(Tail(s)) /\ (i - 1) + 1 = i  BY <3>1, <3>2
      <4>3. Tail(s)[i - 1] = x  BY <3>1, <4>1, <4>2
      <4>4. i - 1 \in DOMAIN Tail(s)  BY <3>3, <4>2
      <4> QED  BY <4>3, <4>4 DEF ToSet
    <3>5. ASSUME NEW x \in ToSet(Tail(s)) PROVE x \in ToSet(s)
      <4>1. PICK i \in 1..Len(Tail(s)) : x = Tail(s)[i]  BY <3>3 DEF ToSet
      <4> QED  BY <3>1, <3>2, <4>1 DEF ToSet
    <3>6. s[1] \in ToSet(s)  BY <3>2 DEF ToSet
    <3> QED  BY <3>1, <3>2, <3>4, <3>5, <3>6 DEF s
  <2>5. \A r \in hook'.results : Sound(r, hook.broken)'
    <3>1. \A r, broken : Sound(r, broken)' <=> Sound(r, broken)  BY <2>2, SoundStays
    <3>2. \A r : Sound(r, hook.broken) => Sound(r, hook.broken \cup B)  BY DEF Sound
    <3>3. \A r \in hook'.results : Sound(r, hook.broken \cup B)
      BY <2>1, <2>2, <3>2 DEF Adds, Checked
    <3>4. hook'.broken = hook.broken \cup B  BY <2>1 DEF Adds
    <3>5. \A r, broken : broken = hook'.broken => (Sound(r, hook.broken)' <=> Sound(r, broken)')
      OBVIOUS
    <3> QED  BY <3>1, <3>3, <3>4, <3>5
  <2>6. {r.name : r \in hook'.results} = {r.name : r \in hook.results} \cup {r.name : r \in R}
    BY <2>1 DEF Adds
  <2>7. {r.name : r \in hook'.results} \cup (ToSet(hook'.todo) \cap Registry)
          = ToSet(Checkers) \cap Registry
    BY <2>1, <2>2, <2>4, <2>6 DEF Adds, Checked
  <2>8. hook'.diff.available => hook'.diff.lines = DiffLines'
    BY <2>1, <2>2, SoundStays DEF Adds, Checked
  <2> QED  BY <2>1, <2>4, <2>5, <2>7, <2>8 DEF Adds, Checked
<1> QED  BY <1>2, <1>3, <1>4, <1>5 DEF SieveNext

\* A declaration is of results that are all sound.
LEMMA CoveredKept ==
  ASSUME Waited, Checked, CoveredHolds, [SieveNext]_sieveVars
  PROVE  CoveredHolds'
<1>1. CASE Declare
  <2>1. hook.at = "check" /\ hook.todo = <<>> /\ commits' = commits /\ told' = Declaration(hook)
    BY <1>1 DEF Declare
  <2> DEFINE c == hook.commit  diff == Changed(0, c)
  <2>2. /\ told'.of = c /\ told'.tree = tree /\ told'.broken = hook.broken
        /\ told'.covered = Covered(hook.results) /\ told'.flagged = Flagged(hook.results)
        /\ told'.open = Open(hook.results)
    BY <2>1 DEF Declaration, Waited
  <2>3. \A r \in hook.results : Sound(r, hook.broken)  BY <2>1 DEF Checked
  <2>4. TreeOf(told.of)' = TreeOf(c) /\ TreeOf(0)' = TreeOf(0) /\ Changed(0, told.of)' = diff
    BY <2>1, <2>2 DEF TreeOf, Changed
  <2>5. ToSet(hook.todo) = {}  BY <2>1 DEF ToSet
  <2>6. Covered(hook.results) \cup Flagged(hook.results) \cup Open(hook.results)
          = ToSet(Checkers) \cap Registry
    <3>1. Covered(hook.results) \cup Flagged(hook.results) \cup Open(hook.results)
            = {r.name : r \in hook.results}
      BY DEF Covered, Flagged, Open
    <3> QED  BY <2>1, <2>5, <3>1 DEF Checked
  <2>7. /\ "ownership" \in told'.covered => diff \subseteq OwnPaths
        /\ "ownership" \in told'.flagged => ~(diff \subseteq OwnPaths)
    BY <2>2, <2>3 DEF Covered, Flagged, Sound
  <2>8. /\ "secrets" \in told'.covered => "secret" \notin DiffLines
        /\ "secrets" \in told'.flagged => "secret" \in DiffLines
    BY <2>2, <2>3 DEF Covered, Flagged, Sound
  <2>9. \A tool \in {"types", "lint"} \ hook.broken :
          /\ tool \in told'.covered => {tree[p] : p \in Paths} \cap Complains[tool] = {}
          /\ tool \in told'.flagged => {tree[p] : p \in Paths} \cap Complains[tool] # {}
    BY <2>2, <2>3 DEF Covered, Flagged, Sound
  <2>10. told'.covered \cap {"tests", "ast"} = {}
    BY <2>2, <2>3 DEF Covered, Sound
  <2> QED
    BY <2>2, <2>4, <2>6, <2>7, <2>8, <2>9, <2>10 DEF CoveredHolds, DiffLines
<1>2. CASE told' = told \/ told' = NoWord
  <2>1. CASE told' = NoWord  BY <2>1 DEF CoveredHolds
  <2>2. CASE told' = told /\ told # NoWord
    <3>1. told.of \in 0..Len(commits) /\ 0 \in 0..Len(commits)  BY <2>2, CommitsStay DEF Waited
    <3>2. \A n \in 0..Len(commits) : TreeOf(n)' = TreeOf(n)  BY CommitsStay
    <3>3. \A n \in 0..Len(commits) : told'.of = n => TreeOf(told.of)' = TreeOf(n)'  OBVIOUS
    <3>4. TreeOf(told.of)' = TreeOf(told.of) /\ TreeOf(0)' = TreeOf(0)
      BY <2>2, <3>1, <3>2, <3>3
    <3>5. Changed(0, told.of)' = Changed(0, told.of)  BY <3>4 DEF Changed
    <3> QED  BY <2>2, <3>4, <3>5 DEF CoveredHolds
  <2> QED  BY <1>2, <2>1, <2>2
<1>3. CASE Edit \/ CommitTree \/ ReportWork \/ SpawnReviewer \/ TakeDiff \/ Check
  BY <1>2, <1>3 DEF Edit, CommitTree, ReportWork, SpawnReviewer, TakeDiff, Check
<1>4. CASE GiveUp \/ SendBack \/ ReReview \/ Pass \/ UNCHANGED sieveVars
  BY <1>2, <1>4 DEF GiveUp, SendBack, ReReview, Pass, sieveVars
<1> QED  BY <1>1, <1>3, <1>4 DEF SieveNext

\* What a reviewer is told was checked, or found, is so of the commit it was declared
\* for, over any rounds of the task; of a tool only when it did not break without a word
\* and the worktree it ran in was that commit's tree (CoveredHolds).
THEOREM DeclarationsHold == SieveSpec => []CoveredHolds
<1>1. SieveInit => SieveInv
  <2> SUFFICES ASSUME SieveInit PROVE SieveInv  OBVIOUS
  <2>1. tree \in Trees  BY SieveAssumption DEF SieveInit, Trees, Cut
  <2> QED  BY <2>1 DEF SieveInit, SieveInv, Waited, Checked, CoveredHolds, NoHook
<1>2. SieveInv /\ [SieveNext]_sieveVars => SieveInv'
  BY WaitedKept, CheckedKept, CoveredKept DEF SieveInv
<1>3. SieveInv => CoveredHolds  BY DEF SieveInv
<1> QED  BY <1>1, <1>2, <1>3, PTL DEF SieveSpec

-----------------------------------------------------------------------------
(* The consolidation of one round: two findings and their words. *)

Angles == {"completeness", "consistency", "feasibility"}

\* What the angles are.
LEMMA AnglesAre == Range(AnglePriority) = Angles
  BY DEF Range, AnglePriority, Angles

\* A larger number has larger multiples.
LEMMA Multiples ==
  ASSUME NEW i \in Nat, NEW j \in Nat, i <= j, NEW k \in Nat, NEW l \in Nat, k <= l
  PROVE  i * k <= j * l
<1>1. i * k <= j * k
  <2>1. PICK d \in Nat : j = i + d
    <3>1. j - i \in Nat /\ j = i + (j - i)  OBVIOUS
    <3> QED  BY <3>1
  <2>2. j * k = i * k + d * k  BY <2>1
  <2>3. d * k \in Nat /\ i * k \in Nat  OBVIOUS
  <2> QED  BY <2>2, <2>3
<1>2. j * k <= j * l
  <2>1. PICK d \in Nat : l = k + d
    <3>1. l - k \in Nat /\ l = k + (l - k)  OBVIOUS
    <3> QED  BY <3>1
  <2>2. j * l = j * k + j * d  BY <2>1
  <2>3. j * d \in Nat /\ j * k \in Nat  OBVIOUS
  <2> QED  BY <2>2, <2>3
<1>3. i * k \in Int /\ j * k \in Int /\ j * l \in Int  OBVIOUS
<1> QED  BY <1>1, <1>2, <1>3

\* Findings that dedupe takes for the same are about the same subject: the bar for a
\* merge is no lower than that for a disagreement.
LEMMA SameIsRelated ==
  ASSUME NEW f, NEW g, IsFiniteSet(f.stems), IsFiniteSet(g.stems), Same(f, g)
  PROVE  Related(f, g) /\ f.stems # {} /\ g.stems # {}
<1> DEFINE A == f.stems
           B == g.stems
           i == Size(A \cap B)
           u == Size(A \cup B)
           a == Size(A)
           b == Size(B)
<1>1. /\ i \in Nat /\ u \in Nat /\ a \in Nat /\ b \in Nat /\ a <= u /\ b <= u
      /\ (A = {} \/ B = {} => i = 0)
  <2> HIDE DEF A, B
  <2>1. IsFiniteSet(A \cap B) /\ IsFiniteSet(A \cup B)  BY FS_Subset, FS_Union DEF A, B
  <2>2. IsFiniteSet(A) /\ IsFiniteSet(B)  BY DEF A, B
  <2>3. i \in Nat /\ u \in Nat /\ a \in Nat /\ b \in Nat  BY <2>1, <2>2, FS_CardinalityType DEF Size
  <2>4. a <= u /\ b <= u
    <3>1. A \subseteq A \cup B /\ B \subseteq A \cup B  OBVIOUS
    <3> QED  BY <2>1, <3>1, FS_Subset DEF Size
  <2>5. ASSUME A = {} \/ B = {} PROVE i = 0
    <3>1. A \cap B = {}  BY <2>5
    <3> QED  BY <3>1, FS_EmptySet DEF Size
  <2> QED  BY <2>3, <2>4, <2>5
<1>2. i >= MinSharedStems /\ 100 * i >= MergePercent * u  BY DEF Same
<1> HIDE DEF i, u, a, b
<1>3. MinSharedStems \in Nat \ {0} /\ MergePercent \in Nat /\ RelatedPercent \in Nat /\ RelatedPercent <= MergePercent
  BY FoldAssumption
<1>4. i # 0  BY <1>1, <1>2, <1>3
<1>5. Least(a, b) \in Nat /\ Least(a, b) <= u  BY <1>1 DEF Least
<1>6. RelatedPercent * Least(a, b) <= MergePercent * u  BY <1>1, <1>3, <1>5, Multiples
<1>7. 100 * i >= RelatedPercent * Least(a, b)
  <2>1. RelatedPercent * Least(a, b) \in Int /\ MergePercent * u \in Int /\ 100 * i \in Int
    BY <1>1, <1>3, <1>5
  <2> QED  BY <1>2, <1>6, <2>1
<1>8. A # {} /\ B # {}  BY <1>1, <1>4
<1> QED  BY <1>7, <1>8 DEF Related, i, a, b

\* Being about the same subject, and being opposed, is mutual.
LEMMA Mutual ==
  ASSUME NEW f, NEW g, IsFiniteSet(f.stems), IsFiniteSet(g.stems)
  PROVE  (Related(f, g) <=> Related(g, f)) /\ (Opposed(f, g) <=> Opposed(g, f))
<1>1. f.stems \cap g.stems = g.stems \cap f.stems  OBVIOUS
<1>2. Size(f.stems) \in Nat /\ Size(g.stems) \in Nat  BY FS_CardinalityType DEF Size
<1>3. Least(Size(f.stems), Size(g.stems)) = Least(Size(g.stems), Size(f.stems))  BY <1>2 DEF Least
<1>4. {f.wants, g.wants} = {g.wants, f.wants}  OBVIOUS
<1> QED  BY <1>1, <1>3, <1>4 DEF Related, Opposed

-----------------------------------------------------------------------------
(* One entry *)

\* What an entry of the consolidated list is made of: findings, the stems of one of
\* them; and two of them that make it up alone are about the same subject.
WellMade(e) ==
  /\ e.of \in SUBSET Findings /\ IsFiniteSet(e.of) /\ e.of # {}
  /\ \E h \in e.of : e.stems = h.stems
  /\ \A f, g \in e.of : f # g => f.stems # {} /\ g.stems # {}
  /\ \A f, g \in e.of : f # g /\ e.of = {f, g} => Related(f, g)
  /\ e.conf \in Nat /\ e.len \in Nat /\ IsFiniteSet(e.angles)

\* A finding on its own is such an entry.
LEMMA EntryFormed ==
  ASSUME NEW f \in Findings, NEW a
  PROVE  WellMade(Entry(f, a)) /\ Entry(f, a).of = {f} /\ Entry(f, a).stems = f.stems
<1>1. IsFiniteSet({f}) /\ IsFiniteSet({a, f.angle})
  <2>1. {a, f.angle} = {a} \cup {f.angle}  OBVIOUS
  <2>2. IsFiniteSet({f}) /\ IsFiniteSet({a}) /\ IsFiniteSet({f.angle})  BY FS_Singleton
  <2>3. IsFiniteSet({a} \cup {f.angle})  BY <2>2, FS_Union
  <2> QED  BY <2>1, <2>2, <2>3
<1>2. f.conf \in Nat /\ f.len \in Nat  BY FindingsAssumption
<1> QED  BY <1>1, <1>2 DEF WellMade, Entry

\* And so is an entry with a finding merged into it.
LEMMA MergeFormed ==
  ASSUME NEW e, WellMade(e), NEW f \in Findings, NEW a, Same(e, Entry(f, a))
  PROVE  WellMade(Merge(e, Entry(f, a)))
<1> DEFINE g == Entry(f, a)
           m == Merge(e, g)
<1>1. /\ g.of = {f} /\ g.stems = f.stems /\ g.conf \in Nat /\ g.len \in Nat /\ IsFiniteSet(g.angles)
      /\ IsFiniteSet(f.stems)
  BY EntryFormed, FindingsAssumption DEF WellMade
<1>2. PICK h \in e.of : e.stems = h.stems  BY DEF WellMade
<1>3. e.of \in SUBSET Findings /\ IsFiniteSet(h.stems) /\ h \in Findings  BY <1>2, FindingsAssumption DEF WellMade
<1>4. Related(e, g) /\ e.stems # {} /\ g.stems # {}  BY <1>1, <1>2, <1>3, SameIsRelated
<1>5. Related(h, f) /\ Related(f, h)
  <2>1. Related(h, f)  BY <1>1, <1>2, <1>4 DEF Related
  <2> QED  BY <1>1, <1>3, <2>1, Mutual
<1>6. /\ m.of = e.of \cup {f}
      /\ m.stems = e.stems \/ m.stems = f.stems
      /\ m.conf \in Nat /\ m.len \in Nat /\ m.angles = e.angles \cup g.angles
  BY <1>1 DEF Merge, WellMade
<1> HIDE DEF m, g
<1>7. m.of \in SUBSET Findings /\ IsFiniteSet(m.of) /\ m.of # {} /\ IsFiniteSet(m.angles)
  <2>1. IsFiniteSet({f})  BY FS_Singleton
  <2>2. IsFiniteSet(e.of) /\ IsFiniteSet(e.angles)  BY DEF WellMade
  <2>3. IsFiniteSet(e.of \cup {f}) /\ IsFiniteSet(e.angles \cup g.angles)
    BY <1>1, <2>1, <2>2, FS_Union
  <2> QED  BY <1>2, <1>3, <1>6, <2>3
<1>8. \E x \in m.of : m.stems = x.stems  BY <1>2, <1>6
<1>9. \A x \in e.of : x.stems # {}  BY <1>2, <1>4 DEF WellMade
<1>10. \A x, y \in m.of : x # y => x.stems # {} /\ y.stems # {}  BY <1>1, <1>4, <1>6, <1>9
<1>11. ASSUME NEW x \in m.of, NEW y \in m.of, x # y, m.of = {x, y} PROVE Related(x, y)
  <2>1. CASE f \in e.of
    <3>1. e.of = {x, y}  BY <1>6, <1>11, <2>1
    <3> QED  BY <1>11, <3>1 DEF WellMade
  <2>2. CASE f \notin e.of
    <3>1. (x = h /\ y = f) \/ (x = f /\ y = h)  BY <1>2, <1>6, <1>11, <2>2
    <3> QED  BY <1>5, <3>1
  <2> QED  BY <2>1, <2>2
<1> QED  BY <1>6, <1>7, <1>8, <1>10, <1>11 DEF WellMade, m, g

-----------------------------------------------------------------------------
(* The list *)

Names  == {f.name : f \in Findings}
Issues == {f.issue : f \in Findings}
Fixes  == {f.fix : f \in Findings}

\* The entries that findings can make up.
Entries ==
  [name : Names, issue : Issues, len : Nat, stems : {f.stems : f \in Findings}, conf : Nat,
   wants : {f.wants : f \in Findings}, angles : SUBSET Angles, also : SUBSET Issues,
   fixes : SUBSET Fixes, of : SUBSET Findings]

\* The findings on their own.
Singles == {Entry(p[1], p[2]) : p \in Findings \X Angles}

\* What a list of entries keeps of the findings fs[1], ..., fs[n].
Keeps(es, fs, n) ==
  /\ es \in Seq(Entries)
  /\ \A k \in 1..Len(es) : WellMade(es[k])
  /\ n > 0 => Len(es) > 0
  /\ \A k \in 1..Len(es) : \A f \in es[k].of : \E i \in 1..n : f \in fs[i].of
  /\ \A x : (\E k \in 1..Len(es) : x \in es[k].fixes) <=> (\E i \in 1..n : x \in fs[i].fixes)
  /\ \A x : x # NoText =>
       ((\E k \in 1..Len(es) : x = es[k].issue \/ x \in es[k].also) <=> (\E i \in 1..n : x = fs[i].issue))

\* What a finding on its own says.
LEMMA SingleSays ==
  ASSUME NEW g \in Singles
  PROVE  \E f \in Findings, a \in Angles :
           /\ g = Entry(f, a) /\ g \in Entries /\ WellMade(g) /\ g.stems = f.stems /\ g.wants = f.wants
           /\ g.of = {f} /\ g.fixes = {f.fix} \ {NoText} /\ g.also = {} /\ g.issue = f.issue
<1>1. PICK f \in Findings, a \in Angles : g = Entry(f, a)  BY DEF Singles
<1>2. f.angle \in Angles /\ f.conf \in Nat /\ f.len \in Nat  BY FindingsAssumption, AnglesAre
<1>3. g \in Entries
  <2>1. /\ f.name \in Names /\ f.issue \in Issues /\ f.stems \in {h.stems : h \in Findings}
        /\ f.wants \in {h.wants : h \in Findings} /\ {f.fix} \ {NoText} \in SUBSET Fixes
    BY DEF Names, Issues, Fixes
  <2> QED  BY <1>1, <1>2, <2>1 DEF Entry, Entries
<1>4. WellMade(g)  BY <1>1, EntryFormed
<1>5. /\ g.of = {f} /\ g.fixes = {f.fix} \ {NoText} /\ g.also = {} /\ g.issue = f.issue
      /\ g.stems = f.stems /\ g.wants = f.wants
  BY <1>1 DEF Entry
<1> QED  BY <1>1, <1>3, <1>4, <1>5

\* What a merge says.
LEMMA MergeSays ==
  ASSUME NEW e \in Entries, NEW g \in Entries, g.also = {}
  PROVE  LET m == Merge(e, g)
         IN  /\ m \in Entries
             /\ m.of = e.of \cup g.of
             /\ m.fixes = e.fixes \cup g.fixes
             /\ \A x : x # NoText => ((x = m.issue \/ x \in m.also)
                                        <=> (x = e.issue \/ x \in e.also \/ x = g.issue))
<1> DEFINE m == Merge(e, g)
           w == IF Wins(g, e) THEN g ELSE e
           l == IF Wins(g, e) THEN e ELSE g
<1>1. /\ DOMAIN m = DOMAIN e
      /\ m.name = w.name /\ m.issue = w.issue /\ m.len = w.len /\ m.stems = w.stems
      /\ m.angles = e.angles \cup g.angles /\ m.fixes = e.fixes \cup g.fixes /\ m.of = e.of \cup g.of
      /\ m.also = e.also \cup ({l.issue} \ {NoText, w.issue})
      /\ m.conf = (IF g.conf > e.conf THEN g.conf ELSE e.conf) /\ m.wants = e.wants
  BY DEF Merge, Entries
<1>2. w \in Entries /\ l \in Entries /\ {w, l} = {e, g}  OBVIOUS
<1>3. m \in Entries
  <2> DEFINE c == IF g.conf > e.conf THEN g.conf ELSE e.conf
             also == e.also \cup ({l.issue} \ {NoText, w.issue})
  <2>1. m = [e EXCEPT !.name = w.name, !.issue = w.issue, !.len = w.len, !.stems = w.stems,
                      !.angles = e.angles \cup g.angles, !.fixes = e.fixes \cup g.fixes,
                      !.of = e.of \cup g.of, !.also = also, !.conf = c]
    BY DEF Merge
  <2>2. /\ w.name \in Names /\ w.issue \in Issues /\ w.len \in Nat
        /\ w.stems \in {f.stems : f \in Findings} /\ l.issue \in Issues
    <3> HIDE DEF w, l
    <3> QED  BY <1>2 DEF Entries
  <2>3. /\ e.angles \cup g.angles \in SUBSET Angles /\ e.fixes \cup g.fixes \in SUBSET Fixes
        /\ e.of \cup g.of \in SUBSET Findings /\ c \in Nat /\ e.also \in SUBSET Issues
    BY DEF Entries
  <2>4. also \in SUBSET Issues  BY <2>2, <2>3
  <2> HIDE DEF m, w, l, c, also
  <2> QED  BY <2>1, <2>2, <2>3, <2>4 DEF Entries
<1> HIDE DEF m
<1>4. ASSUME NEW x, x # NoText
      PROVE  (x = m.issue \/ x \in m.also) <=> (x = e.issue \/ x \in e.also \/ x = g.issue)
  BY <1>1, <1>4
<1> QED  BY <1>1, <1>3, <1>4 DEF m

\* The body of dedupe's loop keeps every finding before it and the next one.
LEMMA PlaceKeeps ==
  ASSUME NEW fs \in Seq(Singles), NEW n \in Nat, n + 1 \in 1..Len(fs), NEW es, Keeps(es, fs, n)
  PROVE  Keeps(Place(es, fs[n + 1]), fs, n + 1)
<1> DEFINE g == fs[n + 1]
           r == Place(es, g)
           K == 1..Len(es)
           same == {i \in K : Same(es[i], g)}
<1>0. es \in Seq(Entries) /\ Len(es) \in Nat /\ g \in Singles /\ \A k \in K : es[k] \in Entries
  BY DEF Keeps
<1>1. PICK f \in Findings, a \in Angles :
        /\ g = Entry(f, a) /\ g \in Entries /\ WellMade(g)
        /\ g.of = {f} /\ g.fixes = {f.fix} \ {NoText} /\ g.also = {} /\ g.issue = f.issue
  BY <1>0, SingleSays
<1>2. /\ \A k \in K : WellMade(es[k])
      /\ \A k \in K : \A h \in es[k].of : \E i \in 1..n : h \in fs[i].of
      /\ \A x : (\E k \in K : x \in es[k].fixes) <=> (\E i \in 1..n : x \in fs[i].fixes)
      /\ \A x : x # NoText =>
           ((\E k \in K : x = es[k].issue \/ x \in es[k].also) <=> (\E i \in 1..n : x = fs[i].issue))
  BY DEF Keeps
<1>3. \A i \in 1..(n + 1) : i \in 1..n \/ i = n + 1  OBVIOUS
<1>4. (\A i \in 1..n : i \in 1..(n + 1)) /\ n + 1 \in 1..(n + 1)  OBVIOUS
<1> HIDE DEF g
\* The list grows by one finding: what it keeps follows from what its entries say.
<1>5. ASSUME NEW q \in Seq(Entries), NEW k0 \in 1..Len(q),
             K \subseteq 1..Len(q),
             1..Len(q) \subseteq K \cup {k0},
             \A k \in K \ {k0} : q[k] = es[k],
             WellMade(q[k0]),
             q[k0].of = (IF k0 \in K THEN es[k0].of ELSE {}) \cup {f},
             q[k0].fixes = (IF k0 \in K THEN es[k0].fixes ELSE {}) \cup ({f.fix} \ {NoText}),
             \A x : x # NoText => ((x = q[k0].issue \/ x \in q[k0].also)
                <=> (k0 \in K /\ (x = es[k0].issue \/ x \in es[k0].also)) \/ x = f.issue)
      PROVE  Keeps(q, fs, n + 1)
  <2>1. \A k \in 1..Len(q) : WellMade(q[k])  BY <1>2, <1>5
  <2>2. ASSUME NEW k \in 1..Len(q), NEW h \in q[k].of PROVE \E i \in 1..(n + 1) : h \in fs[i].of
    <3>1. CASE k # k0
      <4>1. k \in K /\ h \in es[k].of  BY <1>5, <2>2, <3>1
      <4> QED  BY <1>2, <1>4, <4>1
    <3>2. CASE k = k0
      <4>1. CASE h = f  BY <1>1, <1>4, <4>1 DEF g
      <4>2. CASE h # f
        <5>1. k0 \in K /\ h \in es[k0].of  BY <1>5, <2>2, <3>2, <4>2
        <5> QED  BY <1>2, <1>4, <5>1
      <4> QED  BY <4>1, <4>2
    <3> QED  BY <3>1, <3>2
  <2>3. ASSUME NEW x
        PROVE  (\E k \in 1..Len(q) : x \in q[k].fixes) <=> (\E i \in 1..(n + 1) : x \in fs[i].fixes)
    <3> DEFINE own == {f.fix} \ {NoText}
    <3>0. q[k0].fixes = (IF k0 \in K THEN es[k0].fixes ELSE {}) \cup own /\ fs[n + 1].fixes = own
      BY <1>1, <1>5 DEF g
    <3> HIDE DEF own
    <3>1. (\E k \in 1..Len(q) : x \in q[k].fixes) <=> (\E k \in K : x \in es[k].fixes) \/ x \in own
      BY <1>5, <3>0
    <3>2. (\E i \in 1..(n + 1) : x \in fs[i].fixes) <=> (\E i \in 1..n : x \in fs[i].fixes) \/ x \in own
      BY <1>3, <1>4, <3>0
    <3> QED  BY <1>2, <3>1, <3>2
  <2>4. ASSUME NEW x, x # NoText
        PROVE  (\E k \in 1..Len(q) : x = q[k].issue \/ x \in q[k].also)
                 <=> (\E i \in 1..(n + 1) : x = fs[i].issue)
    <3>1. (\E k \in 1..Len(q) : x = q[k].issue \/ x \in q[k].also)
            <=> (\E k \in K : x = es[k].issue \/ x \in es[k].also) \/ x = f.issue
      <4>1. ASSUME NEW k \in 1..Len(q), x = q[k].issue \/ x \in q[k].also
            PROVE  (\E j \in K : x = es[j].issue \/ x \in es[j].also) \/ x = f.issue
        BY <1>5, <2>4, <4>1
      <4>2. ASSUME NEW k \in K, x = es[k].issue \/ x \in es[k].also
            PROVE  \E j \in 1..Len(q) : x = q[j].issue \/ x \in q[j].also
        BY <1>5, <2>4, <4>2
      <4>3. x = f.issue => \E j \in 1..Len(q) : x = q[j].issue \/ x \in q[j].also
        BY <1>5, <2>4
      <4> QED  BY <4>1, <4>2, <4>3
    <3>2. (\E i \in 1..(n + 1) : x = fs[i].issue) <=> (\E i \in 1..n : x = fs[i].issue) \/ x = f.issue
      BY <1>1, <1>3, <1>4 DEF g
    <3> QED  BY <1>2, <2>4, <3>1, <3>2
  <2>5. Len(q) > 0
    <3>1. Len(q) \in Nat /\ k0 \in 1..Len(q)  BY <1>5
    <3> QED  BY <3>1
  <2> QED  BY <1>5, <2>1, <2>2, <2>3, <2>4, <2>5 DEF Keeps
<1>6. CASE same = {}
  <2>1. r = Append(es, g)  BY <1>6 DEF Place
  <2>2. /\ r \in Seq(Entries) /\ Len(r) = Len(es) + 1
        /\ (\A k \in K : r[k] = es[k]) /\ r[Len(es) + 1] = g
    BY <1>0, <1>1, <2>1, AppendProperties
  <2>3. /\ Len(es) + 1 \in 1..Len(r) /\ Len(es) + 1 \notin K /\ K \subseteq 1..Len(r)
        /\ 1..Len(r) \subseteq K \cup {Len(es) + 1}
    BY <1>0, <2>2
  <2> HIDE DEF K, r, same
  <2>4. Keeps(r, fs, n + 1)  BY <1>1, <1>5, <2>2, <2>3
  <2> QED  BY <2>4 DEF r, g
<1>7. CASE same # {}
  <2> DEFINE i == CHOOSE k \in same : \A j \in same : k <= j
             m == Merge(es[i], g)
  <2>1. i \in same
    <3>1. same \in SUBSET Int /\ same \subseteq K  OBVIOUS
    <3>2. IsFiniteSet(K)  BY <1>0, FS_Interval
    <3> HIDE DEF same, K
    <3>3. IsFiniteSet(same)  BY <3>1, <3>2, FS_Subset
    <3> QED  BY <1>7, <3>1, <3>3, SmallestExists
  <2>2. r = [es EXCEPT ![i] = m]  BY <1>7 DEF Place
  <2>3. i \in K /\ Same(es[i], g)  BY <2>1
  <2> HIDE DEF i
  <2>4. /\ m \in Entries /\ m.of = es[i].of \cup g.of /\ m.fixes = es[i].fixes \cup g.fixes
        /\ \A x : x # NoText => ((x = m.issue \/ x \in m.also)
                                   <=> (x = es[i].issue \/ x \in es[i].also \/ x = g.issue))
    BY <1>0, <1>1, <2>3, MergeSays
  <2>5. WellMade(m)  BY <1>1, <1>2, <2>3, MergeFormed
  <2> HIDE DEF m, same
  <2>6. r \in Seq(Entries) /\ Len(r) = Len(es) /\ r[i] = m /\ \A k \in K \ {i} : r[k] = es[k]
    BY <1>0, <2>2, <2>3, <2>4
  <2> HIDE DEF r
  <2>7. 1..Len(r) = K  BY <2>6
  <2> HIDE DEF K
  <2>8. Keeps(r, fs, n + 1)
    BY <1>1, <1>5, <2>3, <2>4, <2>5, <2>6, <2>7
  <2> QED  BY <2>8 DEF r, g
<1> QED  BY <1>6, <1>7

\* The loop body of dedupe makes a list of entries of one.
LEMMA PlaceType ==
  ASSUME NEW es \in Seq(Entries), NEW g \in Singles
  PROVE  Place(es, g) \in Seq(Entries)
<1> DEFINE same == {i \in 1..Len(es) : Same(es[i], g)}
<1>1. g \in Entries /\ g.also = {}  BY SingleSays
<1>2. CASE same = {}
  <2>1. Place(es, g) = Append(es, g)  BY <1>2 DEF Place
  <2> QED  BY <1>1, <2>1
<1>3. CASE same # {}
  <2> DEFINE i == CHOOSE k \in same : \A j \in same : k <= j
             m == Merge(es[i], g)
  <2>1. Place(es, g) = [es EXCEPT ![i] = m]  BY <1>3 DEF Place
  <2>2. CASE i \in 1..Len(es)
    <3> HIDE DEF i, same
    <3>1. es[i] \in Entries  BY <2>2
    <3>2. m \in Entries  BY <1>1, <3>1, MergeSays
    <3> HIDE DEF m
    <3> QED  BY <2>1, <2>2, <3>2
  <2>3. CASE i \notin 1..Len(es)
    <3> HIDE DEF i, m, same
    <3>1. [es EXCEPT ![i] = m] = es  BY <2>3
    <3> QED  BY <2>1, <3>1
  <2> QED  BY <2>2, <2>3
<1> QED  BY <1>2, <1>3

\* dedupe goes through the findings in the order of their files.
LEMMA DedupeIterates ==
  ASSUME NEW fs \in Seq(Singles)
  PROVE  \E g \in [0..Len(fs) -> Seq(Entries)] :
           /\ g[0] = <<>> /\ Dedupe(fs) = g[Len(fs)]
           /\ \A i \in 1..Len(fs) : g[i] = Place(g[i - 1], fs[i])
<1> DEFINE n == Len(fs)
           I == 1..n
           V == Seq(Entries)
           it == CHOOSE g : g = [s \in SUBSET DOMAIN fs |-> IF s = {} THEN <<>>
                   ELSE Place(g[s \ {CHOOSE x \in s : \A y \in s : x >= y}],
                              fs[CHOOSE x \in s : \A y \in s : x >= y])]
           F == [p \in I \X V |-> Place(p[2], fs[p[1]])]
           pick == LargestOf(I)
<1>1. DOMAIN fs = I /\ n \in Nat  OBVIOUS
<1>2. \A i \in I : fs[i] \in Singles  OBVIOUS
<1>3. IsFiniteSet(I) /\ I \in SUBSET Int
  <2>1. IsFiniteSet(1..n)  BY <1>1, FS_Interval
  <2>2. \A i \in 1..n : i \in Int  OBVIOUS
  <2> QED  BY <2>1, <2>2
<1>4. F \in [I \X V -> V] /\ \A i \in I, v \in V : F[<<i, v>>] = Place(v, fs[i])
  <2>1. \A p \in I \X V : Place(p[2], fs[p[1]]) \in V
    <3>1. \A p \in I \X V : p[1] \in I /\ p[2] \in Seq(Entries)  OBVIOUS
    <3> HIDE DEF I
    <3> QED  BY <1>2, <3>1, PlaceType
  <2> HIDE DEF V, I
  <2> QED  BY <2>1
<1>5. pick \in Picks(I)  BY <1>3, LargestPicks
<1>6. \A s \in SUBSET I : s # {} =>
        pick[s] = (CHOOSE x \in s : \A y \in s : x >= y) /\ pick[s] \in s
  BY <1>5 DEF LargestOf, Picks
<1>7. <<>> \in V  OBVIOUS
<1> HIDE DEF F, pick, I, V
<1>8. PICK g \in Iterations(I, V, <<>>, pick, F) : TRUE  BY <1>3, <1>4, <1>5, <1>7, FoldExists
<1>9. g = [s \in SUBSET I |-> IF s = {} THEN <<>>
             ELSE Place(g[s \ {CHOOSE x \in s : \A y \in s : x >= y}],
                        fs[CHOOSE x \in s : \A y \in s : x >= y])]
  <2>1. g \in [SUBSET I -> V] /\ g = [s \in SUBSET I |-> IF s = {} THEN <<>> ELSE F[<<pick[s], g[s \ {pick[s]}]>>]]
    BY <1>8 DEF Iterations
  <2>2. \A s \in SUBSET I : s # {} => F[<<pick[s], g[s \ {pick[s]}]>>]
          = Place(g[s \ {CHOOSE x \in s : \A y \in s : x >= y}],
                  fs[CHOOSE x \in s : \A y \in s : x >= y])
    BY <1>4, <1>6, <2>1
  <2> QED  BY <2>1, <2>2
<1>10. it = [s \in SUBSET I |-> IF s = {} THEN <<>>
             ELSE Place(it[s \ {CHOOSE x \in s : \A y \in s : x >= y}],
                        fs[CHOOSE x \in s : \A y \in s : x >= y])]
  BY <1>1, <1>9
<1>11. Dedupe(fs) = it[I]
  <2>1. Dedupe(fs) = it[DOMAIN fs]
    BY DEF Dedupe, FoldLeft, MapThenFoldSet, Max
  <2> QED  BY <1>1, <2>1
<1> HIDE DEF it
<1>12. Unfolds(it, I, V, <<>>, pick, F)
  <2>1. it = [s \in SUBSET I |-> it[s]]  BY <1>10
  <2>2. it[{}] = <<>>  BY <1>10
  <2>3. ASSUME NEW s \in (SUBSET I) \ {{}}, it[s \ {pick[s]}] \in V
        PROVE  it[s] = F[<<pick[s], it[s \ {pick[s]}]>>]
    <3>1. it[s] = Place(it[s \ {pick[s]}], fs[pick[s]])  BY <1>6, <1>10
    <3> QED  BY <1>4, <1>6, <2>3, <3>1
  <2> QED  BY <2>1, <2>2, <2>3 DEF Unfolds
<1>13. it \in Iterations(I, V, <<>>, pick, F)
  BY <1>3, <1>4, <1>5, <1>7, <1>12, FoldUnfolds
<1>14. /\ it[{}] = <<>>
       /\ \A k \in 1..n : it[1..k] = F[<<k, it[1..(k - 1)]>>]
  <2>1. it \in Iterations(1..n, V, <<>>, LargestOf(1..n), F)  BY <1>13 DEF I, pick
  <2> QED  BY <1>1, <2>1, FoldPrefixes
<1>15. \A s \in SUBSET I : it[s] \in V  BY <1>13 DEF Iterations
<1> DEFINE h == [k \in 0..n |-> it[1..k]]
<1>16. \A k \in 0..n : 1..k \in SUBSET I  BY <1>1 DEF I
<1>17. h \in [0..n -> V]  BY <1>15, <1>16
<1>18. 1..0 = {} /\ 0 \in 0..n /\ n \in 0..n  BY <1>1
<1>19. h[0] = <<>> /\ h[n] = it[I]  BY <1>14, <1>18 DEF I
<1>20. ASSUME NEW k \in 1..n PROVE h[k] = Place(h[k - 1], fs[k])
  <2>1. k \in 0..n /\ k - 1 \in 0..n /\ k \in I  BY <1>1 DEF I
  <2>2. it[1..k] = F[<<k, it[1..(k - 1)]>>]  BY <1>14
  <2>3. it[1..(k - 1)] \in V  BY <1>15, <1>16, <2>1
  <2> QED  BY <1>4, <2>1, <2>2, <2>3
<1> HIDE DEF h
<1>21. h \in [0..Len(fs) -> Seq(Entries)]  BY <1>17 DEF V
<1> QED  BY <1>11, <1>19, <1>20, <1>21

\* dedupe keeps every finding of the round.
LEMMA DedupeKeeps ==
  ASSUME NEW fs \in Seq(Singles)
  PROVE  Keeps(Dedupe(fs), fs, Len(fs))
<1> DEFINE n == Len(fs)
<1>1. n \in Nat  OBVIOUS
<1>2. PICK g \in [0..n -> Seq(Entries)] :
        /\ g[0] = <<>> /\ Dedupe(fs) = g[n]
        /\ \A i \in 1..n : g[i] = Place(g[i - 1], fs[i])
  BY DedupeIterates
<1> DEFINE N == {k \in Nat : k <= n => Keeps(g[k], fs, k)}
<1>3. 0 \in N
  <2>1. Len(<<>>) = 0 /\ 1..0 = {} /\ <<>> \in Seq(Entries)  OBVIOUS
  <2>2. Keeps(<<>>, fs, 0)  BY <2>1 DEF Keeps
  <2> QED  BY <1>2, <2>2
<1>4. ASSUME NEW k \in N PROVE k + 1 \in N
  <2> SUFFICES ASSUME k + 1 <= n PROVE Keeps(g[k + 1], fs, k + 1)  OBVIOUS
  <2>1. k \in Nat /\ k + 1 \in 1..n /\ k <= n /\ (k + 1) - 1 = k  BY <1>1
  <2>2. Keeps(g[k], fs, k)  BY <2>1
  <2>3. g[k + 1] = Place(g[k], fs[k + 1])  BY <1>2, <2>1
  <2> HIDE DEF N
  <2> QED  BY <2>1, <2>2, <2>3, PlaceKeeps
<1>5. N = Nat
  <2>1. N \in SUBSET Nat  OBVIOUS
  <2> HIDE DEF N
  <2> QED  BY <1>3, <1>4, <2>1, Induct
<1>6. n \in N  BY <1>1, <1>5
<1> QED  BY <1>1, <1>2, <1>6

\* Ranking loses no entry: the number of entries before one is its place.
LEMMA RankedKeeps ==
  ASSUME NEW es \in Seq(Entries), \A k \in 1..Len(es) : WellMade(es[k])
  PROVE  /\ Len(Ranked(es)) = Len(es)
         /\ Range(Ranked(es)) = {es[k] : k \in 1..Len(es)}
<1> DEFINE n == Len(es)
           K == 1..n
           Out(j, i) == Outranks(es[j], es[i], j, i)
           B(i) == Before(es, i)
           f == [i \in K |-> Size(B(i)) + 1]
<1>0. n \in Nat /\ IsFiniteSet(K) /\ Cardinality(K) = n /\ \A k \in K : k \in Int
  <2>1. n \in Nat /\ 1 \in Int /\ n \in Int  OBVIOUS
  <2>2. IsFiniteSet(1..n) /\ Cardinality(1..n) = IF 1 > n THEN 0 ELSE n - 1 + 1  BY <2>1, FS_Interval
  <2> QED  BY <2>1, <2>2
<1>1. \A k \in K : ScoreOf(es[k]) \in Int
  <2> SUFFICES ASSUME NEW k \in K PROVE ScoreOf(es[k]) \in Int  OBVIOUS
  <2>1. es[k].conf \in Nat /\ IsFiniteSet(es[k].angles)  BY DEF WellMade
  <2>2. Size(es[k].angles) \in Nat /\ CorroborationBonus \in Nat
    BY <2>1, FS_CardinalityType, FoldAssumption DEF Size
  <2> QED  BY <2>1, <2>2 DEF ScoreOf
<1>2. \A i, j, l \in K : /\ ~Out(i, i)
                         /\ i # j => Out(i, j) \/ Out(j, i)
                         /\ Out(i, j) /\ Out(j, l) => Out(i, l)
  BY <1>0, <1>1 DEF Outranks
<1>3. \A i \in K : B(i) = {j \in K : Out(j, i)}  BY DEF Before
<1> HIDE DEF Out, B, K
<1>4. \A i \in K : B(i) \subseteq K /\ i \notin B(i) /\ IsFiniteSet(B(i)) /\ Size(B(i)) \in Nat
  <2> SUFFICES ASSUME NEW i \in K PROVE B(i) \subseteq K /\ i \notin B(i) /\ IsFiniteSet(B(i)) /\ Size(B(i)) \in Nat
    OBVIOUS
  <2>1. B(i) \subseteq K /\ i \notin B(i)  BY <1>2, <1>3
  <2>2. IsFiniteSet(B(i))  BY <1>0, <2>1, FS_Subset
  <2> QED  BY <2>1, <2>2, FS_CardinalityType DEF Size
<1>5. \A i \in K : Size(B(i)) < n
  <2> SUFFICES ASSUME NEW i \in K PROVE Size(B(i)) < n  OBVIOUS
  <2>1. Cardinality(B(i)) <= Cardinality(K) /\ (Cardinality(K) = Cardinality(B(i)) => K = B(i))
    BY <1>0, <1>4, FS_Subset
  <2>2. K # B(i)  BY <1>4
  <2> QED  BY <1>0, <1>4, <2>1, <2>2 DEF Size
<1>6. \A i, j \in K : Out(i, j) => Size(B(i)) < Size(B(j))
  <2> SUFFICES ASSUME NEW i \in K, NEW j \in K, Out(i, j) PROVE Size(B(i)) < Size(B(j))  OBVIOUS
  <2>1. B(i) \subseteq B(j) /\ i \in B(j) /\ i \notin B(i)  BY <1>2, <1>3
  <2>2. Cardinality(B(i)) <= Cardinality(B(j)) /\ (Cardinality(B(j)) = Cardinality(B(i)) => B(j) = B(i))
    BY <1>4, <2>1, FS_Subset
  <2> QED  BY <1>4, <2>1, <2>2 DEF Size
<1>7. f \in Injection(K, K)
  <2>1. \A i \in K : Size(B(i)) + 1 \in K  BY <1>0, <1>4, <1>5 DEF K
  <2>2. \A i, j \in K : Size(B(i)) + 1 = Size(B(j)) + 1 => i = j  BY <1>2, <1>4, <1>6
  <2> QED  BY <2>1, <2>2 DEF Injection, IsInjective
<1>8. f \in Surjection(K, K)
  <2> HIDE DEF f
  <2> QED  BY <1>0, <1>7, FS_Injection
<1> DEFINE at(k) == CHOOSE i \in K : Size(B(i)) = k - 1
<1>9. \A k \in K : at(k) \in K /\ Size(B(at(k))) = k - 1
  <2> SUFFICES ASSUME NEW k \in K PROVE \E i \in K : Size(B(i)) = k - 1  OBVIOUS
  <2>1. PICK i \in K : f[i] = k  BY <1>8 DEF Surjection
  <2>2. Size(B(i)) = k - 1  BY <1>0, <1>4, <2>1
  <2> QED  BY <2>2
<1>10. \A i \in K : \E k \in K : at(k) = i
  <2> SUFFICES ASSUME NEW i \in K PROVE \E k \in K : at(k) = i  OBVIOUS
  <2>1. f[i] \in K /\ Size(B(i)) = f[i] - 1  BY <1>4, <1>7 DEF Injection
  <2>2. at(f[i]) \in K /\ Size(B(at(f[i]))) = Size(B(i))  BY <1>9, <2>1
  <2>3. at(f[i]) = i
    <3> HIDE DEF at, f
    <3> QED  BY <1>2, <1>4, <1>6, <2>2
  <2> QED  BY <2>1, <2>3
<1>11. Ranked(es) = [k \in K |-> es[at(k)]]  BY DEF Ranked, K, B
<1> HIDE DEF at, f
<1>12. Len(Ranked(es)) = n /\ DOMAIN Ranked(es) = K  BY <1>0, <1>11 DEF K
<1>13. Range(Ranked(es)) = {Ranked(es)[k] : k \in K}  BY <1>12 DEF Range
<1>14. {Ranked(es)[k] : k \in K} = {es[i] : i \in K}  BY <1>9, <1>10, <1>11
<1> QED  BY <1>12, <1>13, <1>14 DEF K

-----------------------------------------------------------------------------
(* The files of a round *)

\* What files hold findings.
Carries(files) == DOMAIN files \subseteq Angles /\ \A r \in DOMAIN files : files[r].list \in Seq(Findings)

\* A parsed file.
LEMMA ParsedSays ==
  ASSUME NEW file, file.list \in Seq(Findings), NEW a \in Angles
  PROVE  /\ Parsed(file, a) \in Seq(Singles) /\ Len(Parsed(file, a)) = Len(file.list)
         /\ \A i \in 1..Len(file.list) : Parsed(file, a)[i] = Entry(file.list[i], a)
<1> DEFINE n == Len(file.list)
           p == Parsed(file, a)
<1>1. n \in Nat /\ \A i \in 1..n : file.list[i] \in Findings  OBVIOUS
<1>2. p = [i \in 1..n |-> Entry(file.list[i], a)]  BY DEF Parsed
<1>3. \A i \in 1..n : p[i] \in Singles
  <2> SUFFICES ASSUME NEW i \in 1..n PROVE p[i] \in Singles  OBVIOUS
  <2>1. p[i] = Entry(file.list[i], a)  BY <1>2
  <2>2. <<file.list[i], a>> \in Findings \X Angles  BY <1>1
  <2> HIDE DEF p
  <2>3. p[i] = Entry(<<file.list[i], a>>[1], <<file.list[i], a>>[2])  BY <2>1
  <2> QED  BY <2>2, <2>3 DEF Singles
<1> HIDE DEF p
<1>4. p \in [1..n -> Singles]  BY <1>2, <1>3
<1>5. p \in Seq(Singles) /\ Len(p) = n  BY <1>1, <1>4
<1> QED  BY <1>2, <1>5 DEF p

\* All findings of the round, in the order of their files: each is an entry that
\* speaks for one that was reported, and each that was reported has one.
LEMMA AllParsedSays ==
  ASSUME NEW files, Carries(files)
  PROVE  /\ AllParsed(files) \in Seq(Singles)
         /\ \A i \in 1..Len(AllParsed(files)) : \E f \in UNION {Range(files[r].list) : r \in DOMAIN files} :
              \E a \in Angles : AllParsed(files)[i] = Entry(f, a)
         /\ \A f \in UNION {Range(files[r].list) : r \in DOMAIN files} :
              \E i \in 1..Len(AllParsed(files)) : \E a \in Angles : AllParsed(files)[i] = Entry(f, a)
<1> DEFINE R == UNION {Range(files[r].list) : r \in DOMAIN files}
           of(a) == IF a \in DOMAIN files THEN Parsed(files[a], a) ELSE <<>>
           Says(s) == \A i \in 1..Len(s) : \E f \in R : \E a \in Angles : s[i] = Entry(f, a)
           Has(s, f) == \E i \in 1..Len(s) : \E a \in Angles : s[i] = Entry(f, a)
<1>1. ASSUME NEW a \in Angles
      PROVE  /\ of(a) \in Seq(Singles) /\ Says(of(a))
             /\ a \in DOMAIN files => \A f \in Range(files[a].list) : Has(of(a), f)
  <2>1. CASE a \in DOMAIN files
    <3> DEFINE l == files[a].list
    <3>1. l \in Seq(Findings) /\ DOMAIN l = 1..Len(l)  BY <2>1 DEF Carries
    <3>2. /\ of(a) \in Seq(Singles) /\ Len(of(a)) = Len(l)
          /\ \A i \in 1..Len(l) : of(a)[i] = Entry(l[i], a)
      BY <2>1, <3>1, ParsedSays
    <3>3. Range(l) \subseteq R /\ Range(l) = {l[i] : i \in 1..Len(l)}  BY <2>1, <3>1 DEF Range
    <3> HIDE DEF of, R, l
    <3>4. Says(of(a))  BY <3>2, <3>3
    <3>5. \A f \in Range(l) : Has(of(a), f)  BY <3>2, <3>3
    <3> QED  BY <3>2, <3>4, <3>5 DEF l
  <2>2. CASE a \notin DOMAIN files
    <3>1. of(a) = <<>> /\ Len(<<>>) = 0 /\ 1..0 = {}  BY <2>2
    <3> QED  BY <2>2, <3>1
  <2> QED  BY <2>1, <2>2
<1> HIDE DEF R
\* two lists one after the other
<1>2. ASSUME NEW s \in Seq(Singles), NEW t \in Seq(Singles), Says(s), Says(t)
      PROVE  /\ s \o t \in Seq(Singles) /\ Says(s \o t)
             /\ \A f : Has(s, f) \/ Has(t, f) => Has(s \o t, f)
  <2> DEFINE m == Len(s)
             n == Len(t)
             u == s \o t
  <2>1. m \in Nat /\ n \in Nat /\ u \in Seq(Singles) /\ Len(u) = m + n  OBVIOUS
  <2>2. (\A i \in 1..m : u[i] = s[i]) /\ (\A i \in 1..n : u[m + i] = t[i])  OBVIOUS
  <2>3. \A i \in 1..(m + n) : i \in 1..m \/ (i - m \in 1..n /\ i = m + (i - m))  BY <2>1
  <2>4. (\A i \in 1..m : i \in 1..(m + n)) /\ (\A i \in 1..n : m + i \in 1..(m + n))  BY <2>1
  <2> HIDE DEF u, m, n
  <2>5. ASSUME NEW i \in 1..Len(u) PROVE \E f \in R : \E a \in Angles : u[i] = Entry(f, a)
    <3>1. CASE i \in 1..m  BY <2>2, <3>1, <1>2 DEF m
    <3>2. CASE i - m \in 1..n /\ i = m + (i - m)  BY <2>2, <3>2, <1>2 DEF n
    <3> QED  BY <2>1, <2>3, <3>1, <3>2
  <2>6. ASSUME NEW f, Has(s, f) PROVE Has(u, f)
    <3>1. PICK i \in 1..m : \E a \in Angles : s[i] = Entry(f, a)  BY <2>6 DEF m
    <3> QED  BY <2>1, <2>2, <2>4, <3>1
  <2>7. ASSUME NEW f, Has(t, f) PROVE Has(u, f)
    <3>1. PICK i \in 1..n : \E a \in Angles : t[i] = Entry(f, a)  BY <2>7 DEF n
    <3> QED  BY <2>1, <2>2, <2>4, <3>1
  <2> QED  BY <2>1, <2>5, <2>6, <2>7 DEF u
<1>3. "completeness" \in Angles /\ "consistency" \in Angles /\ "feasibility" \in Angles  BY DEF Angles
<1> DEFINE c == of("completeness")
           d == of("consistency")
           e == of("feasibility")
<1>4. AllParsed(files) = (c \o d) \o e  BY DEF AllParsed
<1>5. c \in Seq(Singles) /\ d \in Seq(Singles) /\ e \in Seq(Singles) /\ Says(c) /\ Says(d) /\ Says(e)
  BY <1>1, <1>3
<1>6. \A r \in DOMAIN files : r \in {"completeness", "consistency", "feasibility"}  BY DEF Carries, Angles
<1>7. \A f \in R : Has(c, f) \/ Has(d, f) \/ Has(e, f)
  <2> SUFFICES ASSUME NEW f \in R PROVE Has(c, f) \/ Has(d, f) \/ Has(e, f)  OBVIOUS
  <2>1. PICK r \in DOMAIN files : f \in Range(files[r].list)  BY DEF R
  <2>2. Has(of(r), f)  BY <1>1, <1>3, <1>6, <2>1
  <2> HIDE DEF Has, of
  <2> QED  BY <1>6, <2>2
<1> HIDE DEF of, Says, Has, c, d, e
<1>8. /\ c \o d \in Seq(Singles) /\ Says(c \o d)
      /\ \A f : Has(c, f) \/ Has(d, f) => Has(c \o d, f)
  BY <1>2, <1>5
<1>9. /\ (c \o d) \o e \in Seq(Singles) /\ Says((c \o d) \o e)
      /\ \A f : Has(c \o d, f) \/ Has(e, f) => Has((c \o d) \o e, f)
  BY <1>2, <1>5, <1>8
<1>10. \A f \in R : Has((c \o d) \o e, f)  BY <1>7, <1>8, <1>9
<1> QED  BY <1>4, <1>9, <1>10 DEF Says, Has, R

\* Findings about different subjects share little.
LEMMA StrangersShareLittle ==
  ASSUME NEW f, NEW g, IsFiniteSet(f.stems), IsFiniteSet(g.stems), f.stems # {}, g.stems # {},
         ~Related(f, g)
  PROVE  Size(f.stems \cap g.stems) * 100 < RelatedPercent * Least(Size(f.stems), Size(g.stems))
<1> DEFINE s == Size(f.stems \cap g.stems)
           l == Least(Size(f.stems), Size(g.stems))
<1>1. s \in Nat /\ l \in Nat /\ RelatedPercent \in Nat
  <2>1. f.stems \cap g.stems \subseteq f.stems  OBVIOUS
  <2>2. IsFiniteSet(f.stems \cap g.stems)  BY <2>1, FS_Subset
  <2>3. Size(f.stems) \in Nat /\ Size(g.stems) \in Nat /\ s \in Nat
    BY <2>2, FS_CardinalityType DEF Size
  <2>4. \A x, y \in Nat : Least(x, y) \in Nat  BY DEF Least
  <2>5. RelatedPercent \in Nat  BY FoldAssumption
  <2> QED  BY <2>3, <2>4, <2>5
<1>2. ~(100 * s >= RelatedPercent * l)  BY DEF Related
<1> HIDE DEF s, l
<1>3. s * 100 < RelatedPercent * l  BY <1>1, <1>2
<1> QED  BY <1>3 DEF s, l

\* A set with two elements that is not the pair of them has a third.
LEMMA MoreThanTwo ==
  ASSUME NEW S, IsFiniteSet(S), NEW x \in S, NEW y \in S, x # y, S # {x, y}
  PROVE  Size(S) > 2
<1>1. IsFiniteSet({x}) /\ Cardinality({x}) = 1  BY FS_Singleton
<1>2. {x, y} = {x} \cup {y} /\ y \notin {x} /\ {x, y} \subseteq S  OBVIOUS
<1>3. Cardinality({x} \cup {y}) = Cardinality({x}) + 1  BY <1>1, <1>2, FS_AddElement
<1>4. Cardinality({x, y}) = 2  BY <1>1, <1>2, <1>3
<1>5. Cardinality({x, y}) <= Cardinality(S) /\ (Cardinality(S) = Cardinality({x, y}) => S = {x, y})
  BY <1>2, FS_Subset
<1>6. Cardinality(S) \in Nat  BY FS_CardinalityType
<1> QED  BY <1>4, <1>5, <1>6 DEF Size

\* What Fold hands on when it does not decline: no issue text and no resolution is lost
\* or added, and of two opposed findings in one entry each has words and a third one brought them
\* together.
THEOREM ConsolidatedKeeps ==
  ASSUME NEW files, Carries(files), ~Declines(files)
  PROVE  LET out == Range(Consolidated(files))
             in  == UNION {Range(files[r].list) : r \in DOMAIN files}
         IN  /\ Len(Consolidated(files)) \in Nat
             /\ Len(Consolidated(files)) = 0 => in = {}
             /\ UNION {e.fixes : e \in out} = {f.fix : f \in in} \ {NoText}
             /\ (UNION {{e.issue} \cup e.also : e \in out}) \ {NoText} = {f.issue : f \in in} \ {NoText}
             /\ \A e \in out : \A f, g \in e.of : Opposed(f, g) =>
                  /\ Size(f.stems \cap g.stems) * 100
                       < RelatedPercent * Least(Size(f.stems), Size(g.stems))
                  /\ Size(e.of) > 2
<1> DEFINE in == UNION {Range(files[r].list) : r \in DOMAIN files}
           fs == AllParsed(files)
           n == Len(fs)
           es == Dedupe(fs)
           out == Range(Consolidated(files))
<1>1. /\ fs \in Seq(Singles)
      /\ \A i \in 1..n : \E f \in in : \E a \in Angles : fs[i] = Entry(f, a)
      /\ \A f \in in : \E i \in 1..n : \E a \in Angles : fs[i] = Entry(f, a)
  BY AllParsedSays
<1>2. Keeps(es, fs, n)
  <2> HIDE DEF fs
  <2> QED  BY <1>1, DedupeKeeps
<1>3. /\ es \in Seq(Entries)
      /\ \A k \in 1..Len(es) : WellMade(es[k])
      /\ \A k \in 1..Len(es) : \A f \in es[k].of : \E i \in 1..n : f \in fs[i].of
      /\ n > 0 => Len(es) > 0
      /\ \A x : (\E k \in 1..Len(es) : x \in es[k].fixes) <=> (\E i \in 1..n : x \in fs[i].fixes)
      /\ \A x : x # NoText =>
           ((\E k \in 1..Len(es) : x = es[k].issue \/ x \in es[k].also) <=> (\E i \in 1..n : x = fs[i].issue))
  BY <1>2 DEF Keeps
<1>4. Consolidated(files) = Ranked(es)  BY DEF Consolidated
<1>5. ~Disagree(fs)  BY DEF Declines
<1> HIDE DEF fs, es, in
<1>6. Len(Ranked(es)) = Len(es) /\ out = {es[k] : k \in 1..Len(es)}  BY <1>3, <1>4, RankedKeeps
<1>7. in \subseteq Findings
  <2>1. \A r \in DOMAIN files : Range(files[r].list) \subseteq Findings
    BY DEF Carries, Range
  <2> QED  BY <2>1 DEF in
<1>a. ASSUME NEW f, NEW a
      PROVE  /\ Entry(f, a).fixes = {f.fix} \ {NoText} /\ Entry(f, a).issue = f.issue /\ Entry(f, a).of = {f}
             /\ Entry(f, a).stems = f.stems /\ Entry(f, a).wants = f.wants
  BY DEF Entry
<1>8. ASSUME NEW i \in 1..n
      PROVE  \E f \in in : fs[i].fixes = {f.fix} \ {NoText} /\ fs[i].issue = f.issue /\ fs[i].of = {f}
                           /\ fs[i].stems = f.stems /\ fs[i].wants = f.wants
  <2>1. PICK f \in in : \E a \in Angles : fs[i] = Entry(f, a)  BY <1>1, Zenon
  <2>2. PICK a \in Angles : fs[i] = Entry(f, a)  BY <2>1
  <2> QED  BY <2>2, <1>a
<1>9. ASSUME NEW f \in in
      PROVE  \E i \in 1..n : fs[i].fixes = {f.fix} \ {NoText} /\ fs[i].issue = f.issue /\ fs[i].of = {f}
  <2>1. PICK i \in 1..n : \E a \in Angles : fs[i] = Entry(f, a)  BY <1>1, Zenon
  <2>2. PICK a \in Angles : fs[i] = Entry(f, a)  BY <2>1
  <2> QED  BY <2>2, <1>a
<1> HIDE DEF out
<1>10. Len(es) = 0 => in = {}
  <2> SUFFICES ASSUME Len(es) = 0, NEW f \in in PROVE FALSE  OBVIOUS
  <2>1. n \in Nat  BY <1>1
  <2>2. PICK i \in 1..n : fs[i].of = {f}  BY <1>9, Zenon
  <2>3. n > 0  BY <2>1, <2>2
  <2> QED  BY <1>3, <2>3
<1>11. UNION {e.fixes : e \in out} = {f.fix : f \in in} \ {NoText}
  <2>0. \A x : x \in UNION {e.fixes : e \in out} <=> \E k \in 1..Len(es) : x \in es[k].fixes
    BY <1>6
  <2>1. \A x : x \in UNION {e.fixes : e \in out} <=> \E i \in 1..n : x \in fs[i].fixes
    BY <1>3, <2>0
  <2> DEFINE S == UNION {e.fixes : e \in out}
             T == {f.fix : f \in in} \ {NoText}
  <2>2. ASSUME NEW x \in T PROVE \E i \in 1..n : x \in fs[i].fixes
    <3>1. PICK f \in in : x = f.fix /\ x # NoText  BY <2>2
    <3>2. PICK i \in 1..n : fs[i].fixes = {f.fix} \ {NoText}  BY <1>9
    <3> QED  BY <3>1, <3>2
  <2>3. ASSUME NEW i \in 1..n, NEW x \in fs[i].fixes PROVE x \in T
    <3>1. PICK f \in in : fs[i].fixes = {f.fix} \ {NoText}  BY <1>8
    <3> QED  BY <2>3, <3>1
  <2> HIDE DEF T
  <2>4. \A x : x \in S <=> \E i \in 1..n : x \in fs[i].fixes  BY <2>1
  <2> HIDE DEF S
  <2>5. S = T  BY <2>2, <2>3, <2>4
  <2> QED  BY <2>5 DEF S, T
<1>12. (UNION {{e.issue} \cup e.also : e \in out}) \ {NoText} = {f.issue : f \in in} \ {NoText}
  <2>1. \A x : x \in UNION {{e.issue} \cup e.also : e \in out}
                 <=> \E k \in 1..Len(es) : x = es[k].issue \/ x \in es[k].also
    BY <1>6
  <2>2. \A x : x \in {f.issue : f \in in} <=> \E i \in 1..n : x = fs[i].issue  BY <1>8, <1>9
  <2>3. \A x : x # NoText => (x \in UNION {{e.issue} \cup e.also : e \in out} <=> x \in {f.issue : f \in in})
    BY <1>3, <2>1, <2>2
  <2> DEFINE S == UNION {{e.issue} \cup e.also : e \in out}
             T == {f.issue : f \in in}
  <2>4. \A x : x # NoText => (x \in S <=> x \in T)  BY <2>3
  <2> SUFFICES S \ {NoText} = T \ {NoText}  OBVIOUS
  <2> HIDE DEF S, T
  <2> QED  BY <2>4
<1>13. ASSUME NEW e \in out, NEW f \in e.of, NEW g \in e.of, Opposed(f, g)
       PROVE  /\ Size(f.stems \cap g.stems) * 100 < RelatedPercent * Least(Size(f.stems), Size(g.stems))
              /\ Size(e.of) > 2
  <2>1. PICK k \in 1..Len(es) : e = es[k]  BY <1>6
  <2>2. WellMade(e) /\ f \in Findings /\ g \in Findings  BY <1>3, <2>1 DEF WellMade
  <2>3. IsFiniteSet(f.stems) /\ IsFiniteSet(g.stems)  BY <2>2, FindingsAssumption
  <2>4. f # g /\ Opposed(g, f)
    <3>1. f # g
      <4>1. {f.wants, g.wants} = {"add", "remove"}  BY <1>13 DEF Opposed
      <4>2. \A x : {x, x} # {"add", "remove"}  OBVIOUS
      <4> QED  BY <4>1, <4>2
    <3> QED  BY <1>13, <2>3, <3>1, Mutual
  <2>5. f.stems # {} /\ g.stems # {}  BY <2>2, <2>4 DEF WellMade
  <2>6. ~Related(f, g)
    <3>1. PICK i \in 1..n : f \in fs[i].of  BY <1>3, <2>1
    <3>2. PICK j \in 1..n : g \in fs[j].of  BY <1>3, <2>1
    <3>3. /\ fs[i].stems = f.stems /\ fs[i].wants = f.wants /\ fs[i].of = {f}
          /\ fs[j].stems = g.stems /\ fs[j].wants = g.wants /\ fs[j].of = {g}
      BY <1>8, <3>1, <3>2
    <3>4. i # j /\ n \in Nat
      <4>1. {f} # {g}  BY <2>4
      <4>2. n \in Nat  BY <1>1
      <4> QED  BY <3>3, <4>1, <4>2
    <3>5. /\ Opposed(fs[i], fs[j]) /\ Opposed(fs[j], fs[i])
          /\ (Related(fs[i], fs[j]) <=> Related(f, g)) /\ (Related(fs[j], fs[i]) <=> Related(g, f))
      BY <1>13, <2>4, <3>3 DEF Opposed, Related
    <3>6. ~(\E p, q \in 1..n : p < q /\ Related(fs[p], fs[q]) /\ Opposed(fs[p], fs[q]))
      BY <1>5 DEF Disagree
    <3>7. CASE i < j  BY <3>5, <3>6, <3>7
    <3>8. CASE j < i  BY <2>3, <3>5, <3>6, <3>8, Mutual
    <3> QED  BY <3>4, <3>7, <3>8
  <2>7. Size(f.stems \cap g.stems) * 100 < RelatedPercent * Least(Size(f.stems), Size(g.stems))
    BY <2>3, <2>5, <2>6, StrangersShareLittle
  <2>8. Size(e.of) > 2
    <3>1. IsFiniteSet(e.of) /\ e.of # {f, g}  BY <2>2, <2>4, <2>6 DEF WellMade
    <3> QED  BY <2>4, <3>1, MoreThanTwo
  <2> QED  BY <2>7, <2>8
<1>14. Len(es) \in Nat  BY <1>3
<1> QED  BY <1>4, <1>6, <1>10, <1>11, <1>12, <1>13, <1>14 DEF in, out

-----------------------------------------------------------------------------
(* The rounds *)

\* What a reviewer may leave: its file holds findings only as a list of some.
Left(report) ==
  /\ report.line \in {"clean", "findings", "none"}
  /\ report.file.kind \in Kinds
  /\ report.file.list \in Seq(Findings)
  /\ report.file.kind = "findings" => report.file.list # <<>>

Stages == {"size", "review", "fold", "agent", "revise", "done"}
Ends   == {"open", "clean", "empty", "settled", "concern"}
Panels == {Panel(n, b) : n \in 1..3, b \in BOOLEAN} \cup {NoPanel}

ReviewTypes ==
  /\ stage \in Stages /\ closed \in Ends
  /\ round \in 1..Cap(run.mode)
  /\ panel \in Panels
  /\ DOMAIN reports \subseteq Reviewers
  /\ \A r \in DOMAIN reports : Left(reports[r])
  /\ list.count \in Nat

\* How the stages of a round follow from each other: only a round that was not all
\* clean is consolidated, and only what Fold did not decline is its list.
InRound ==
  /\ closed # "open" => stage = "done"
  /\ stage \in {"fold", "agent"} => DOMAIN reports = Reviewers /\ ~AllClean
  /\ stage = "revise" /\ list.by = "fold" => list.entries = Consolidated(Files) /\ ~Declines(Files)

ReviewInv == ReviewTypes /\ InRound /\ CleanIsEarned

\* The reviewers of a panel are angles.
LEMMA ReviewersAreAngles ==
  ASSUME panel \in Panels
  PROVE  Reviewers \subseteq Angles /\ \A r \in Reviewers : AnglesOf(r) \in SUBSET Angles
<1> DEFINE p == panel.angles
<1>1. p \in Seq(Angles) /\ (panel.single => p # <<>>)
  <2>1. ASSUME NEW n \in 0..3
        PROVE  SubSeq(AnglePriority, 1, n) \in Seq(Angles) /\ Len(SubSeq(AnglePriority, 1, n)) = n
    <3>1. \A i \in 1..n : AnglePriority[i] \in Angles
      <4>1. \A i \in 1..n : i = 1 \/ i = 2 \/ i = 3  OBVIOUS
      <4> QED  BY <4>1 DEF AnglePriority, Angles
    <3>2. n \in Int /\ 1 \in Int  OBVIOUS
    <3> QED  BY <3>1, <3>2, SubSeqProperties
  <2>2. CASE panel = NoPanel
    <3>1. p = SubSeq(AnglePriority, 1, 0) /\ panel.single = FALSE  BY <2>2 DEF NoPanel, Panel
    <3> QED  BY <2>1, <3>1
  <2>3. CASE panel # NoPanel
    <3>1. PICK n \in 1..3, b \in BOOLEAN : panel = Panel(n, b)  BY <2>3 DEF Panels
    <3>2. p = SubSeq(AnglePriority, 1, n)  BY <3>1 DEF Panel
    <3>3. n \in 0..3 /\ n # 0  OBVIOUS
    <3>4. p \in Seq(Angles) /\ Len(p) = n  BY <2>1, <3>2, <3>3
    <3> HIDE DEF p
    <3> QED  BY <3>3, <3>4, EmptySeq
  <2> QED  BY <2>2, <2>3
<1> HIDE DEF p
<1>2. \A i \in 1..Len(p) : p[i] \in Angles  BY <1>1
<1>3. panel.single => p[1] \in Angles
  <2>1. p # <<>> => 1 \in 1..Len(p)  BY <1>1, EmptySeq
  <2> QED  BY <1>1, <1>2, <2>1
<1>4. Reviewers \subseteq Angles  BY <1>2, <1>3 DEF Reviewers, p
<1>5. ASSUME NEW r \in Reviewers PROVE AnglesOf(r) \in SUBSET Angles
  BY <1>2, <1>4 DEF AnglesOf, p
<1> QED  BY <1>4, <1>5

\* Gauge asks for one to three reviewers.
LEMMA GaugePanels ==
  ASSUME NEW text, NEW p \in GaugeLines(text, run, round, prior)
  PROVE  p \in Panels
<1> DEFINE c == Ceiling(run.mode)
           w == Worth(Score(text, run.risk, round, prior), run.mode)
           a == Assess(text, run, round, prior)
           m == LesserOf(MinReviewers, c)
<1>1. c \in 1..3  BY DEF Ceiling
<1>2. w \in 1..3  BY <1>1 DEF Worth, LesserOf
<1>3. m \in 1..3  BY <1>1, GaugeAssumption DEF LesserOf
<1>4. \A n \in 1..3, b \in BOOLEAN : Panel(n, b) \in Panels  BY DEF Panels
<1>5. Panel(c, FALSE) \in Panels /\ Panel(m, FALSE) \in Panels  BY <1>1, <1>3, <1>4
<1>6. a \in Panels
  <2>1. Panel(w, w = 2 /\ Small(text) /\ run.risk # "high") \in Panels  BY <1>2, <1>4
  <2> QED  BY <1>5, <2>1 DEF Assess
<1>7. Raised(a, run.mode) \in Panels  BY <1>5, <1>6 DEF Raised
<1> QED  BY <1>5, <1>7 DEF GaugeLines, Fallback

\* What a reviewer of some angles leaves is what one may leave.
LEMMA ReportsLeft ==
  ASSUME NEW angles \in SUBSET Angles, NEW report \in Reports[angles]
  PROVE  Left(report)
<1>1. \A s \in FindingSeqs(angles) : s \in Seq(Findings) /\ s # <<>>
  <2> SUFFICES ASSUME NEW s \in FindingSeqs(angles) PROVE s \in Seq(Findings) /\ s # <<>>  OBVIOUS
  <2>1. PICK n \in 1..MaxFile : s \in [1..n -> {f \in Findings : f.angle \in angles}]
    BY DEF FindingSeqs
  <2>2. CASE n \in Nat
    <3>1. s \in Seq(Findings) /\ Len(s) = n  BY <2>1, <2>2
    <3>2. n # 0  BY <2>1
    <3> QED  BY <3>1, <3>2, EmptySeq
  <2>3. n \in Nat  BY <2>1
  <2> QED  BY <2>2, <2>3
<1>2. angles \in SUBSET Range(AnglePriority)  BY AnglesAre
<1> DEFINE Bare(kinds) == {[kind |-> k, list |-> <<>>] : k \in kinds}
           Full == [kind : {"findings"}, list : FindingSeqs(angles)]
<1>3. report \in [line : {"clean"}, file : Bare({"missing", "blank", "prose"})]
        \cup [line : {"findings", "none"}, file : Bare({"missing", "blank", "prose"}) \cup Full]
  BY <1>2 DEF Reports
<1>4. \A x \in Full : x.kind = "findings" /\ x.list \in Seq(Findings) /\ x.list # <<>>  BY <1>1
<1>5. ASSUME NEW kinds, NEW x \in Bare(kinds) PROVE x.kind \in kinds /\ x.list = <<>>  OBVIOUS
<1>6. <<>> \in Seq(Findings)  OBVIOUS
<1> HIDE DEF Bare, Full
<1>7. /\ report.line \in {"clean", "findings", "none"}
      /\ report.file \in Bare({"missing", "blank", "prose"}) \cup Full
  BY <1>3
<1>8. CASE report.file \in Full  BY <1>4, <1>7, <1>8 DEF Left, Kinds
<1>9. CASE report.file \in Bare({"missing", "blank", "prose"})
  <2>1. report.file.kind \in {"missing", "blank", "prose"} /\ report.file.list = <<>>  BY <1>5, <1>9
  <2> QED  BY <1>6, <1>7, <2>1 DEF Left, Kinds
<1> QED  BY <1>7, <1>8, <1>9

\* The files of reviewers hold findings.
LEMMA FilesHold == ReviewTypes => Carries(Files)
<1> SUFFICES ASSUME ReviewTypes PROVE Carries(Files)  OBVIOUS
<1>1. DOMAIN Files = DOMAIN reports /\ \A r \in DOMAIN reports : Files[r] = reports[r].file
  BY DEF Files
<1>2. DOMAIN reports \subseteq Angles  BY ReviewersAreAngles DEF ReviewTypes
<1> QED  BY <1>1, <1>2 DEF Carries, ReviewTypes, Left

\* When Fold finds nothing to answer, no file held anything it could have.
LEMMA EmptyIsLost ==
  ASSUME ReviewTypes, Reported = {}, ~Declines(Files), NEW r \in DOMAIN reports
  PROVE  reports[r].file.kind \in {"missing", "blank"}
<1>1. Left(reports[r]) /\ Files[r] = reports[r].file /\ DOMAIN Files = DOMAIN reports
  BY DEF ReviewTypes, Files
<1>2. reports[r].file.kind # "prose"  BY <1>1 DEF Declines
<1>3. reports[r].file.kind # "findings"
  <2>1. ASSUME reports[r].file.kind = "findings" PROVE FALSE
    <3> DEFINE l == Files[r].list
    <3>1. l \in Seq(Findings) /\ l # <<>>  BY <1>1, <2>1 DEF Left
    <3>2. Range(l) \subseteq Reported  BY <1>1 DEF Reported
    <3>3. l[1] \in Range(l)
      <4> HIDE DEF l
      <4>1. 1 \in DOMAIN l  BY <3>1, EmptySeq
      <4> QED  BY <4>1 DEF Range
    <3> QED  BY <3>2, <3>3
  <2> QED  BY <2>1
<1> QED  BY <1>1, <1>2, <1>3 DEF Left, Kinds

\* The end of either path: a list, or nothing to answer.
LEMMA HandKeeps ==
  ASSUME ReviewInv, NEW by, NEW entries, NEW count \in Nat, Hand(by, entries, count),
         stage \in {"fold", "agent"},
         by = "fold" => entries = Consolidated(Files) /\ ~Declines(Files),
         by = "fold" /\ count = 0 =>
           \A r \in DOMAIN reports : reports[r].file.kind \in {"missing", "blank"}
  PROVE  ReviewInv'
<1> DEFINE n == count + (IF Gaps = {} THEN 0 ELSE 1)
<1>1. n \in Nat /\ (n = 0 => count = 0 /\ Gaps = {})  OBVIOUS
<1>2. /\ list' = [by |-> by, entries |-> entries, count |-> n]
      /\ IF n = 0 THEN stage' = "done" /\ closed' = "empty" ELSE stage' = "revise" /\ closed' = closed
      /\ UNCHANGED <<run, round, prior, panel, reports>>
  BY DEF Hand, Done
<1> HIDE DEF n
<1>3. /\ Files' = Files /\ Reviewers' = Reviewers /\ (AllClean <=> AllClean')
      /\ list'.count = n /\ list'.by = by /\ list'.entries = entries
  BY <1>2 DEF Files, Reviewers, AllClean
<1>4. ReviewTypes'
  BY <1>1, <1>2, <1>3 DEF ReviewInv, ReviewTypes, Stages, Ends
<1>5. closed = "open" /\ DOMAIN reports = Reviewers  BY DEF ReviewInv, InRound
<1>6. InRound'
  <2>1. closed' # "open" => stage' = "done"  BY <1>2, <1>5
  <2>2. stage' \notin {"fold", "agent"}  BY <1>2
  <2>3. stage' = "revise" /\ list'.by = "fold" => list'.entries = Consolidated(Files') /\ ~Declines(Files')
    BY <1>3
  <2> QED  BY <2>1, <2>2, <2>3 DEF InRound
<1>7. CleanIsEarned'
  <2>1. CASE n = 0
    <3>1. count = 0 /\ Gaps = {} /\ closed' = "empty"  BY <1>1, <1>2, <2>1
    <3>2. \A r \in Reviewers' : r \in DOMAIN reports' /\ reports'[r].line # "none"
      BY <1>2, <1>3, <1>5, <3>1 DEF Gaps
    <3>3. list'.by = "fold" => \A r \in Reviewers' : reports'[r].file.kind \in {"missing", "blank"}
      BY <1>2, <1>3, <1>5, <3>1
    <3> QED  BY <3>1, <3>2, <3>3 DEF CleanIsEarned
  <2>2. CASE n # 0
    <3>1. closed' = "open"  BY <1>2, <1>5, <2>2
    <3> QED  BY <3>1 DEF CleanIsEarned
  <2> QED  BY <2>1, <2>2
<1> QED  BY <1>4, <1>6, <1>7 DEF ReviewInv

\* Every step of the loop keeps the invariant.
LEMMA ReviewSteps == ReviewInv /\ [ReviewNext]_reviewVars => ReviewInv'
<1> SUFFICES ASSUME ReviewInv, [ReviewNext]_reviewVars PROVE ReviewInv'  OBVIOUS
<1>0. /\ stage \in Stages /\ closed \in Ends /\ round \in 1..Cap(run.mode) /\ panel \in Panels
      /\ DOMAIN reports \subseteq Reviewers
      /\ \A r \in DOMAIN reports : Left(reports[r])
      /\ list.count \in Nat
  BY DEF ReviewInv, ReviewTypes
<1>a. stage # "done" => closed = "open"  BY DEF ReviewInv, InRound
<1>b. Cap(run.mode) \in Nat  BY DEF Cap
<1>1. CASE SizeRound
  <2>1. panel' \in Panels  BY <1>1, GaugePanels DEF SizeRound
  <2>2. /\ DOMAIN reports' = {} /\ list'.count = 0 /\ list'.by = "nobody" /\ stage' = "review" /\ closed' = closed
        /\ run' = run /\ round' = round
    BY <1>1 DEF SizeRound, NoList
  <2>3. closed' = "open"  BY <1>1, <1>a, <2>2 DEF SizeRound
  <2>4. ReviewTypes'  BY <1>0, <2>1, <2>2 DEF ReviewTypes, Stages
  <2>5. InRound'  BY <2>2, <2>3 DEF InRound
  <2> QED  BY <2>3, <2>4, <2>5 DEF ReviewInv, CleanIsEarned
<1>2. ASSUME NEW r \in Reviewers, Answer(r) PROVE ReviewInv'
  <2>1. PICK report \in Reports[AnglesOf(r)] :
          reports' = [q \in DOMAIN reports \cup {r} |-> IF q = r THEN report ELSE reports[q]]
    BY <1>2 DEF Answer
  <2>2. Left(report)
    <3>1. AnglesOf(r) \in SUBSET Angles  BY <1>0, ReviewersAreAngles
    <3> QED  BY <3>1, ReportsLeft
  <2>3. /\ stage = "review" /\ stage' = stage /\ closed' = closed /\ panel' = panel /\ list' = list
        /\ run' = run /\ round' = round
    BY <1>2 DEF Answer
  <2>4. Reviewers' = Reviewers  BY <2>3 DEF Reviewers
  <2>5. DOMAIN reports' \subseteq Reviewers' /\ \A q \in DOMAIN reports' : Left(reports'[q])
    BY <1>0, <2>1, <2>2, <2>4
  <2>6. ReviewTypes'  BY <1>0, <2>3, <2>5 DEF ReviewTypes
  <2>7. InRound' /\ CleanIsEarned'  BY <1>a, <2>3 DEF InRound, CleanIsEarned
  <2> QED  BY <2>6, <2>7 DEF ReviewInv
<1>3. CASE Verdicts
  <2>1. /\ stage = "review" /\ DOMAIN reports = Reviewers
        /\ UNCHANGED <<run, round, prior, panel, reports, list>>
        /\ IF AllClean THEN stage' = "done" /\ closed' = "clean" ELSE stage' = "fold" /\ closed' = closed
    BY <1>3 DEF Verdicts, Done
  <2>2. Reviewers' = Reviewers /\ (AllClean' <=> AllClean)  BY <2>1 DEF Reviewers, AllClean
  <2>3. closed = "open"  BY <1>a, <2>1
  <2>4. ReviewTypes'  BY <1>0, <2>1, <2>2 DEF ReviewTypes, Stages, Ends
  <2>5. InRound'  BY <2>1, <2>2, <2>3 DEF InRound
  <2>6. CleanIsEarned'
    <3>1. CASE AllClean
      <4>1. \A r \in Reviewers' : r \in DOMAIN reports' /\ reports'[r].line = "clean"
        BY <2>1, <2>2, <3>1 DEF AllClean
      <4>2. closed' = "clean"  BY <2>1, <3>1
      <4> QED  BY <4>1, <4>2 DEF CleanIsEarned
    <3>2. CASE ~AllClean  BY <2>1, <2>3, <3>2 DEF CleanIsEarned
    <3> QED  BY <3>1, <3>2
  <2> QED  BY <2>4, <2>5, <2>6 DEF ReviewInv
<1>4. CASE FoldRound
  <2> DEFINE c == Consolidated(Files)
  <2>1. stage = "fold" /\ ~Declines(Files) /\ Hand("fold", c, Len(c))  BY <1>4 DEF FoldRound
  <2>2. Len(c) \in Nat /\ (Len(c) = 0 => Reported = {})
    <3>1. Carries(Files)  BY FilesHold DEF ReviewInv
    <3> QED  BY <2>1, <3>1, ConsolidatedKeeps DEF Reported
  <2>3. Len(c) = 0 => \A r \in DOMAIN reports : reports[r].file.kind \in {"missing", "blank"}
    <3>1. ReviewTypes  BY DEF ReviewInv
    <3> HIDE DEF c
    <3> QED  BY <2>1, <2>2, <3>1, EmptyIsLost
  <2>4. c = Consolidated(Files)  OBVIOUS
  <2> HIDE DEF c
  <2> QED  BY <2>1, <2>2, <2>3, <2>4, HandKeeps
<1>5. CASE Escalate
  <2>1. stage = "fold" /\ stage' = "agent" /\ UNCHANGED <<run, round, prior, panel, reports, list, closed>>
    BY <1>5 DEF Escalate
  <2>2. Reviewers' = Reviewers /\ (AllClean' <=> AllClean)  BY <2>1 DEF Reviewers, AllClean
  <2>3. ReviewTypes'  BY <1>0, <2>1, <2>2 DEF ReviewTypes, Stages
  <2>4. closed = "open" /\ DOMAIN reports = Reviewers /\ ~AllClean  BY <2>1 DEF ReviewInv, InRound
  <2>5. InRound' /\ CleanIsEarned'  BY <2>1, <2>2, <2>4 DEF InRound, CleanIsEarned
  <2> QED  BY <2>3, <2>5 DEF ReviewInv
<1>6. CASE Consolidator
  <2>1. PICK n \in 0..Most(1, Size(Reported)) : Hand("agent", <<>>, n)
    BY <1>6 DEF Consolidator
  <2>2. n \in Nat /\ stage = "agent" /\ "agent" # "fold"  BY <1>6 DEF Consolidator
  <2> QED  BY <2>1, <2>2, HandKeeps
<1>7. CASE Revise
  <2>1. stage = "revise" /\ UNCHANGED <<run, panel, reports, list>>  BY <1>7 DEF Revise
  <2>2. closed = "open"  BY <1>a, <2>1
  <2>3. \/ stage' = "done" /\ closed' \in {"settled", "concern"} /\ round' = round
        \/ stage' = "size" /\ closed' = closed /\ round # Cap(run.mode) /\ round' = round + 1
    BY <1>7 DEF Revise, Done
  <2>4. round' \in 1..Cap(run'.mode)
    <3>1. round' = round \/ (round # Cap(run.mode) /\ round' = round + 1)  BY <2>3
    <3>2. Cap(run'.mode) = Cap(run.mode)  BY <2>1
    <3> HIDE DEF Cap
    <3> QED  BY <1>0, <1>b, <3>1, <3>2
  <2>5. Reviewers' = Reviewers  BY <2>1 DEF Reviewers
  <2>6. stage' \in Stages /\ closed' \in Ends  BY <2>2, <2>3 DEF Stages, Ends
  <2>7. ReviewTypes'  BY <1>0, <2>1, <2>4, <2>5, <2>6 DEF ReviewTypes
  <2>8. InRound' /\ CleanIsEarned'  BY <2>2, <2>3 DEF InRound, CleanIsEarned
  <2> QED  BY <2>7, <2>8 DEF ReviewInv
<1>8. CASE UNCHANGED reviewVars
  <2>1. /\ run' = run /\ round' = round /\ stage' = stage /\ prior' = prior /\ panel' = panel
        /\ reports' = reports /\ list' = list /\ closed' = closed
    BY <1>8 DEF reviewVars
  <2>2. Files' = Files /\ Reviewers' = Reviewers /\ (AllClean <=> AllClean')
    BY <2>1 DEF Files, Reviewers, AllClean
  <2>3. ReviewTypes'  BY <1>0, <2>1, <2>2 DEF ReviewTypes
  <2>4. InRound'  BY <2>1, <2>2 DEF ReviewInv, InRound
  <2>5. CleanIsEarned'  BY <2>1, <2>2 DEF ReviewInv, CleanIsEarned
  <2> QED  BY <2>3, <2>4, <2>5 DEF ReviewInv
<1>9. CASE Rest  BY <1>8, <1>9 DEF Rest
<1> QED  BY <1>1, <1>2, <1>3, <1>4, <1>5, <1>6, <1>7, <1>8, <1>9 DEF ReviewNext

\* The loop's invariant: its types, with at most as many rounds as the mode allows, and
\* how its stages follow from each other.
THEOREM ReviewInvariant == ReviewSpec => []ReviewInv
<1>1. ReviewInit => ReviewInv
  <2> SUFFICES ASSUME ReviewInit PROVE ReviewInv  OBVIOUS
  <2>1. Cap(run.mode) \in Nat \ {0}  BY DEF Cap
  <2>2. /\ round = 1 /\ stage = "size" /\ panel = NoPanel /\ DOMAIN reports = {}
        /\ list.count = 0 /\ closed = "open"
    BY DEF ReviewInit, NoList
  <2>3. ReviewTypes
    <3> HIDE DEF Cap
    <3> QED  BY <2>1, <2>2 DEF ReviewTypes, Stages, Ends, Panels
  <2> QED  BY <2>2, <2>3 DEF ReviewInv, InRound, CleanIsEarned
<1> QED  BY <1>1, ReviewSteps, PTL DEF ReviewSpec

\* No loop ends without a revision unless every reviewer of its last round gave a
\* verdict and called the deliverable clean, or Fold found no file with anything to read
\* in it, or an agent said that nothing was left of what was reported.
THEOREM NothingClosesUnread == ReviewSpec => []CleanIsEarned
<1>1. ReviewInv => CleanIsEarned  BY DEF ReviewInv
<1> QED  BY <1>1, ReviewInvariant, PTL

\* Whatever the reviewers write, the list that Fold hands to the specialist has each of
\* their issue texts and resolutions, no others, and opposed findings meet in an entry
\* only by way of a third.
THEOREM FoldIsFaithful == ReviewSpec => []FoldKeeps
<1>1. ReviewInv => FoldKeeps
  <2> SUFFICES ASSUME ReviewInv, stage = "revise", list.by = "fold"
               PROVE  LET entries == Range(list.entries) IN
                      /\ UNION {e.fixes : e \in entries} = {f.fix : f \in Reported} \ {NoText}
                      /\ (UNION {{e.issue} \cup e.also : e \in entries}) \ {NoText}
                           = {f.issue : f \in Reported} \ {NoText}
                      /\ \A e \in entries : \A f, g \in e.of : Opposed(f, g) =>
                           /\ Size(f.stems \cap g.stems) * 100
                                < RelatedPercent * Least(Size(f.stems), Size(g.stems))
                           /\ Size(e.of) > 2
    BY DEF FoldKeeps
  <2>1. list.entries = Consolidated(Files) /\ ~Declines(Files) /\ Carries(Files)
    BY FilesHold DEF ReviewInv, InRound
  <2> QED  BY <2>1, ConsolidatedKeeps DEF Reported
<1> QED  BY <1>1, ReviewInvariant, PTL
=============================================================================
