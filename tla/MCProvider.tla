---------------------------- MODULE MCProvider ----------------------------
(***************************************************************************)
(* The provider's side in one run: the agent behind its relay, the driver  *)
(* that provisions itself, and the proof of work.  They share no state, so *)
(* a behaviour is one of the three with the others at rest.                *)
(***************************************************************************)
EXTENDS Agent, Provision, Bench

VARIABLE part    \* the part this behaviour is about

partVars == <<part, allVars, provVars, benchVars>>

AgentRests == AgentInit /\ host = "manager"
BenchRests == BenchInit /\ size = 1 /\ nonce = "this"

MCInit ==
  \/ part = "agent" /\ AgentInit /\ ProvInit /\ BenchRests
  \/ part = "provision" /\ AgentRests /\ ProvInit /\ BenchRests
  \/ part = "bench" /\ AgentRests /\ ProvInit /\ BenchInit

MCNext ==
  \/ part = "agent" /\ AgentNext /\ UNCHANGED <<part, provVars, benchVars>>
  \/ part = "provision" /\ ProvNext /\ UNCHANGED <<part, allVars, benchVars>>
  \/ part = "bench" /\ BenchNext /\ UNCHANGED <<part, allVars, provVars>>

MCSpec == MCInit /\ [][MCNext]_partVars

Sym == Permutations(Driver)
=============================================================================
