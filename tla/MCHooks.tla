------------------------------- MODULE MCHooks -------------------------------
(***************************************************************************)
(* Small instances for TLC of what the hooks of tool calls decide: the     *)
(* gates of an agent (Gates) and the cache of Grep answers (Oracle).  They *)
(* share nothing; a behaviour is one of the one or one of the other.       *)
(***************************************************************************)
EXTENDS Gates, Oracle, TLC

CONSTANTS a1, s1, s2, p1,
          c1, c2, c3, r1, main, wt, f1, foo, bar, is

VARIABLE part   \* "gates" or "oracle": what this behaviour is about

\* c1 and c2 are calls of one agent, at work in a worktree, and may be of one message.
\* c3 is of an agent without a ledger row of a run, the main thread, in the checkout.
MCRunOf  == [c \in Calls |-> IF c = c3 THEN NoRun ELSE r1]
MCTreeOf == [c \in Calls |-> IF c = c3 THEN main ELSE wt]

Q(words) == [words |-> words, scope |-> Files]
MCQueries == {Q({foo}), Q({bar, is})}

\* A file answers both searches, or only the first.
MCContents == {{foo}, {foo, bar, is}}

Symmetry == Permutations(Slots) \cup Permutations({c1, c2})

MCInit ==
  /\ part \in {"gates", "oracle"}
  /\ Init
  /\ OracleInit /\ (part = "gates" => content = [t \in Trees |-> [f \in Files |-> {foo}]])

MCNext ==
  \/ part = "gates"  /\ Next       /\ UNCHANGED <<part, oracleVars>>
  \/ part = "oracle" /\ OracleNext /\ UNCHANGED <<part, vars>>

MCSpec == MCInit /\ [][MCNext]_<<part, vars, oracleVars>>
=============================================================================
