------------------------------ MODULE MCReview ------------------------------
(***************************************************************************)
(* A run over its phases (Phases) and the two reviews inside of it, that   *)
(* of Phase 2 (Review) and that of a task in Phase 5 (Sieve), in small     *)
(* instances for TLC.  They share nothing; a behaviour is one of one.      *)
(***************************************************************************)
EXTENDS Review, Sieve, Phases

CONSTANTS own, other, core, sec, ux

VARIABLE phase   \* 2 or 5: the review this behaviour is about; 0: the whole run

Finding(name, issue, len, stems, conf, angle, fix, wants) ==
  [name |-> name, issue |-> issue, len |-> len, stems |-> stems, conf |-> conf,
   angle |-> angle, fix |-> fix, wants |-> wants]

\* wide is the same as left and as right, which are opposed but share too little;
\* against opposes left on its subject; titled is like left and has only a title.
MCFindings ==
  {Finding("wide",    "w",    3, 1..7,         90, "completeness", "fix", "none"),
   Finding("titled",  NoText, 0, 1..4,         80, "completeness", NoText, "none"),
   Finding("left",    "l",    1, 1..4,         80, "consistency",  "more", "add"),
   Finding("right",   "r",    4, 4..7,         90, "feasibility",  "less", "remove"),
   Finding("against", "a",    1, {1, 2, 3, 8}, 90, "feasibility",  "drop", "remove")}

MCTexts ==
  {[words |-> 300, hedges |-> 0], [words |-> 1000, hedges |-> 20], [words |-> 3000, hedges |-> 0]}

MCRuns ==
  [mode : {"full"}, risk : {"high", "low"}, all : BOOLEAN]
    \cup [mode : {"lite"}, risk : {"high", "medium"}, all : {FALSE}]

MCContents  == [p \in Paths |-> IF p = own THEN {"base", "fine", "illtyped", "secret"}
                                ELSE {"base", "fine"}]
MCComplains == [tool \in {"types", "lint"} |-> {"illtyped"}]
MCCheckers  == <<"types", "lint", "tests", "spelling", "ownership", "secrets">>

Request(mode, all, touches, planOnly, fullRun, unattended, perPass) ==
  [mode |-> mode, all |-> all, touches |-> touches, planOnly |-> planOnly, fullRun |-> fullRun,
   unattended |-> unattended, perPass |-> perPass]

\* One to plan, with a specialist more than fits; two unattended; one of all specialists,
\* in which no session dies; one refused.
MCRequests ==
  {Request("lite",  FALSE, {sec, ux}, TRUE,  FALSE, FALSE, 0),
   Request("lite",  FALSE, {},        FALSE, TRUE,  TRUE,  3),
   Request("micro", FALSE, {},        TRUE,  FALSE, TRUE,  4),
   Request("micro", TRUE,  {},        FALSE, FALSE, FALSE, 0),
   Request("micro", TRUE,  {},        TRUE,  TRUE,  FALSE, 0)}

Setting(loads, enabled, compile) == [loads |-> loads, enabled |-> enabled, compile |-> compile]
MCDistill ==
  {Setting(FALSE, TRUE, TRUE), Setting(TRUE, FALSE, FALSE), Setting(TRUE, TRUE, FALSE),
   Setting(TRUE, TRUE, TRUE)}

MCOptional == <<sec, ux>>

MCInit ==
  /\ phase \in {0, 2, 5}
  /\ ReviewInit /\ (phase # 2 => run = CHOOSE r \in Runs : TRUE)
  /\ SieveInit
  /\ PhasesInit
  /\ phase # 0 => /\ request  = CHOOSE r \in Requests : TRUE
                  /\ settings = CHOOSE d \in Distill : TRUE
  /\ phase = 0 /\ request.all => settings = Setting(TRUE, TRUE, TRUE)

MCNext ==
  \/ phase = 2 /\ ReviewNext /\ UNCHANGED <<phase, sieveVars, phasesVars>>
  \/ phase = 5 /\ SieveNext /\ UNCHANGED <<phase, reviewVars, phasesVars>>
  \/ phase = 5 /\ worker = "done" /\ UNCHANGED <<phase, reviewVars, sieveVars, phasesVars>>
  \/ phase = 0 /\ PhasesNext /\ (request.all => turns' = 0)
     /\ UNCHANGED <<phase, reviewVars, sieveVars>>
  \/ phase = 0 /\ session.at = "end" /\ UNCHANGED <<phase, reviewVars, sieveVars, phasesVars>>

MCSpec == MCInit /\ [][MCNext]_<<phase, reviewVars, sieveVars, phasesVars>>
=============================================================================
