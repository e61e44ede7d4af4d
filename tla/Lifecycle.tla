------------------------------ MODULE Lifecycle ------------------------------
(***************************************************************************)
(* One daemon per machine, refcounted per session: scripts/meter-boot.py   *)
(* (SessionStart), scripts/meter-hook.py (SessionEnd), the daemon process  *)
(* (meter/daemon.py) and `dag-meter off`.                                  *)
(*                                                                         *)
(* The hooks are processes of their own.  They share the refcount file,    *)
(* which each reads and writes in two steps; only boots hold boot.lock.    *)
(***************************************************************************)
EXTENDS Naturals, FiniteSets

CONSTANTS
  Sessions,
  Disabled,    \* sessions whose config or environment turns the meter off
  NoSession,   \* boot.lock is free
  MaxReboots   \* bound: SessionStart fired again in a live session (compaction)

ASSUME LifecycleAssumption ==
  /\ IsFiniteSet(Sessions)
  /\ Disabled \subseteq Sessions
  /\ NoSession \notin Sessions
  /\ MaxReboots \in Nat

VARIABLES
  pc,        \* where each session and its hook process is
  seen,      \* the refcount a hook process has read
  refcount,  \* the file `refcount`
  lock,      \* holder of the flock on boot.lock
  server,    \* the process holding the port: none, serving, closing
  starting,  \* daemon processes that have not bound the port yet
  reboots,
  upset      \* history: the kinds of disorder that have happened

vars == <<pc, seen, refcount, lock, server, starting, reboots, upset>>

Upsets == {"overlap", "compaction", "crash", "timeout", "failure", "off", "disabled"}

BootPcs == {"lock", "health", "wait", "bootread", "bootwrite"}
EndPcs  == {"endread", "endwrite", "shutdown"}

Init ==
  /\ pc = [s \in Sessions |-> "new"]
  /\ seen = [s \in Sessions |-> 0]
  /\ refcount = 0
  /\ lock = NoSession
  /\ server = "none" /\ starting = 0
  /\ reboots = 0 /\ upset = {}

Booting == {s \in Sessions : pc[s] \in BootPcs}
Ending  == {s \in Sessions : pc[s] \in EndPcs}

\* History: a hook starts while others run or the daemon is closing.
Overlap(hooks) == IF hooks # {} \/ server = "closing" THEN {"overlap"} ELSE {}

(* meter-boot.py *)

\* SessionStart; a disabled session is told nothing and counts nowhere.
SessionStart(s) ==
  /\ pc[s] = "new"
  /\ pc' = [pc EXCEPT ![s] = IF s \in Disabled THEN "live" ELSE "lock"]
  /\ upset' = upset \cup Overlap(Ending)
  /\ UNCHANGED <<seen, refcount, lock, server, starting, reboots>>

\* The hook has no matcher: it fires again when a live session is compacted, and
\* `dag-meter on` runs the same script.
SessionRestart(s) ==
  /\ pc[s] = "live" /\ s \notin Disabled
  /\ reboots < MaxReboots
  /\ reboots' = reboots + 1
  /\ upset' = upset \cup {"compaction"} \cup Overlap(Ending)
  /\ pc' = [pc EXCEPT ![s] = "lock"]
  /\ UNCHANGED <<seen, refcount, lock, server, starting>>

\* fcntl.flock(LOCK_EX)
Lock(s) ==
  /\ pc[s] = "lock" /\ lock = NoSession
  /\ lock' = s
  /\ pc' = [pc EXCEPT ![s] = "health"]
  /\ UNCHANGED <<seen, refcount, server, starting, reboots, upset>>

\* A closing daemon still answers until serve_forever notices, then no more.
Healthy == CASE server = "serving" -> {TRUE}
             [] server = "closing" -> {TRUE, FALSE}
             [] server = "none"    -> {FALSE}

\* /health answers: nothing to start.
HealthUp(s) ==
  /\ pc[s] = "health" /\ TRUE \in Healthy
  /\ pc' = [pc EXCEPT ![s] = "bootread"]
  /\ UNCHANGED <<seen, refcount, lock, server, starting, reboots, upset>>

\* It does not: start a daemon.
HealthDown(s) ==
  /\ pc[s] = "health" /\ FALSE \in Healthy
  /\ starting' = starting + 1
  /\ pc' = [pc EXCEPT ![s] = "wait"]
  /\ UNCHANGED <<seen, refcount, lock, server, reboots, upset>>

\* Popen raises: return at once, uncounted; `finally` releases the lock.
SpawnFails(s) ==
  /\ pc[s] = "health" /\ FALSE \in Healthy
  /\ lock' = NoSession
  /\ pc' = [pc EXCEPT ![s] = "live"]
  /\ upset' = upset \cup {"failure"}
  /\ UNCHANGED <<seen, refcount, server, starting, reboots>>

\* Up to 3 s for the daemon to answer; the boot goes on either way.
Wait(s) ==
  /\ pc[s] = "wait"
  /\ \/ TRUE \in Healthy /\ UNCHANGED upset
     \/ upset' = upset \cup {"timeout"}
  /\ pc' = [pc EXCEPT ![s] = "bootread"]
  /\ UNCHANGED <<seen, refcount, lock, server, starting, reboots>>

\* _bump_refcount(+1), still under the lock: read ...
BootRead(s) ==
  /\ pc[s] = "bootread"
  /\ seen' = [seen EXCEPT ![s] = refcount]
  /\ pc' = [pc EXCEPT ![s] = "bootwrite"]
  /\ UNCHANGED <<refcount, lock, server, starting, reboots, upset>>

BootWriteSet(s) ==                                              \* mutant
  /\ pc[s] = "bootwrite"
  /\ refcount' = 1
  /\ lock' = NoSession
  /\ pc' = [pc EXCEPT ![s] = "live"]
  /\ UNCHANGED <<seen, server, starting, reboots, upset>>

\* ... write and release.
BootWrite(s) ==
  /\ pc[s] = "bootwrite"
  /\ refcount' = seen[s] + 1
  /\ lock' = NoSession
  /\ pc' = [pc EXCEPT ![s] = "live"]
  /\ UNCHANGED <<seen, server, starting, reboots, upset>>

(* meter-hook.py sessionend: no lock, and no look at the configuration. *)

SessionEnd(s) ==
  /\ pc[s] = "live"
  /\ pc' = [pc EXCEPT ![s] = "endread"]
  /\ upset' = upset \cup Overlap(Ending \cup Booting) \cup {"disabled" : d \in {s} \cap Disabled}
  /\ UNCHANGED <<seen, refcount, lock, server, starting, reboots>>

EndRead(s) ==
  /\ pc[s] = "endread"
  /\ seen' = [seen EXCEPT ![s] = refcount]
  /\ pc' = [pc EXCEPT ![s] = "endwrite"]
  /\ UNCHANGED <<refcount, lock, server, starting, reboots, upset>>

\* The count less one, never below zero.
Remaining(s) == IF seen[s] = 0 THEN 0 ELSE seen[s] - 1

EndWriteLate(s) ==                                              \* mutant
  /\ pc[s] = "endwrite"
  /\ refcount' = Remaining(s)
  /\ pc' = [pc EXCEPT ![s] = IF seen[s] <= 0 THEN "shutdown" ELSE "ended"]
  /\ UNCHANGED <<seen, lock, server, starting, reboots, upset>>

EndWriteEarly(s) ==                                             \* mutant
  /\ pc[s] = "endwrite"
  /\ refcount' = Remaining(s)
  /\ pc' = [pc EXCEPT ![s] = IF Remaining(s) <= 1 THEN "shutdown" ELSE "ended"]
  /\ UNCHANGED <<seen, lock, server, starting, reboots, upset>>

\* _bump_refcount(-1), floored at zero; the last one out asks for a shutdown.
EndWrite(s) ==
  /\ pc[s] = "endwrite"
  /\ refcount' = Remaining(s)
  /\ pc' = [pc EXCEPT ![s] = IF Remaining(s) <= 0 THEN "shutdown" ELSE "ended"]
  /\ UNCHANGED <<seen, lock, server, starting, reboots, upset>>

\* POST /shutdown; nobody listening is not an error.
RequestShutdown(s) ==
  /\ pc[s] = "shutdown"
  /\ server' = IF server = "serving" THEN "closing" ELSE server
  /\ pc' = [pc EXCEPT ![s] = "ended"]
  /\ UNCHANGED <<seen, refcount, lock, starting, reboots, upset>>

\* The session's process is gone without any hook.
Crash(s) ==
  /\ pc[s] = "live"
  /\ pc' = [pc EXCEPT ![s] = "gone"]
  /\ upset' = upset \cup {"crash"}
  /\ UNCHANGED <<seen, refcount, lock, server, starting, reboots>>

\* dag-meter off stops the daemon of every session and leaves the refcount.
StopDaemon ==
  /\ server = "serving"
  /\ server' = "closing"
  /\ upset' = upset \cup {"off"}
  /\ UNCHANGED <<pc, seen, refcount, lock, starting, reboots>>

(* meter/daemon.py *)

\* Bind the port and serve, or find it held and exit.
Bind ==
  /\ starting > 0
  /\ starting' = starting - 1
  /\ server' = IF server = "none" THEN "serving" ELSE server
  /\ UNCHANGED <<pc, seen, refcount, lock, reboots, upset>>

\* server.shutdown, server_close, exit.
Close ==
  /\ server = "closing"
  /\ server' = "none"
  /\ UNCHANGED <<pc, seen, refcount, lock, starting, reboots, upset>>

BootStep(s) ==
  \/ Lock(s) \/ HealthUp(s) \/ HealthDown(s) \/ SpawnFails(s) \/ Wait(s)
  \/ BootRead(s) \/ BootWrite(s)
EndStep(s) == EndRead(s) \/ EndWrite(s) \/ RequestShutdown(s)
Daemon == Bind \/ Close

Next ==
  \/ \E s \in Sessions : \/ SessionStart(s) \/ SessionRestart(s) \/ SessionEnd(s)
                         \/ BootStep(s) \/ EndStep(s) \/ Crash(s)
  \/ Daemon
  \/ StopDaemon

Spec == Init /\ [][Next]_vars

\* Started hook scripts and daemon processes run.  flock queues its waiters, so
\* a boot that wants the lock gets it when it is free often enough.
Fairness ==
  /\ \A s \in Sessions : WF_vars(BootStep(s)) /\ SF_vars(Lock(s)) /\ WF_vars(EndStep(s))
  /\ WF_vars(Bind) /\ WF_vars(Close)

FairSpec == Spec /\ Fairness

-----------------------------------------------------------------------------
TypeOK ==
  /\ pc \in [Sessions -> {"new", "live", "ended", "gone"} \cup BootPcs \cup EndPcs]
  /\ seen \in [Sessions -> Nat] /\ refcount \in Nat /\ reboots \in Nat
  /\ lock \in Sessions \cup {NoSession}
  /\ server \in {"none", "serving", "closing"} /\ starting \in Nat
  /\ upset \subseteq Upsets

Live == {s \in Sessions : pc[s] = "live"}
Never(kinds) == upset \cap kinds = {}

\* With every hook at rest the file counts the live sessions: no update of two
\* concurrent boots is lost (_bump_refcount under boot.lock), whatever becomes of the
\* daemon.  Compactions and crashed sessions leave the count too high; ends that
\* overlap, which take no lock, failed starts and disabled sessions too low.
CountsSessions ==
  Booting = {} /\ Ending = {} =>
    LET n == Cardinality(Live \ Disabled) IN
    /\ Never(Upsets \ {"timeout", "off"}) => refcount = n
    /\ Never({"overlap", "failure", "disabled"}) => refcount >= n

HasDaemon == Live \ Disabled # {} => server = "serving" \/ starting > 0

\* "One process shared by every session on this machine (refcounted per session)".
\* A session whose boot is over has a daemon, serving or about to, also when other
\* sessions crashed, were compacted, or gave up waiting for it; a boot that overlaps
\* an end can lose it, since the end takes no lock.  And concurrent boots start one
\* daemon between them.
OneDaemon ==
  /\ Never({"overlap", "failure", "off", "disabled"}) => HasDaemon
  /\ Never({"overlap", "timeout", "off"}) => starting + (IF server = "none" THEN 0 ELSE 1) <= 1

\* Every boot comes to an end: none waits for ever on boot.lock or the daemon.  And
\* when the last session has ended the daemon goes away, also after failed starts.
NothingHangs ==
  /\ \A s \in Sessions : pc[s] = "lock" ~> pc[s] = "live"
  /\ (\A s \in Sessions : pc[s] = "ended") /\ Never({"overlap", "compaction", "timeout", "off"})
       ~> server = "none" /\ starting = 0
=============================================================================
