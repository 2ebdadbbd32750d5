---------------------------- MODULE CallChannel ----------------------------
(***************************************************************************)
(* What the agent may count on when it calls the registry through files: a *)
(* call that answers was executed at least once, an answer or a failure is *)
(* final, and nothing is executed that was not asked for.  A failure says  *)
(* nothing: the call may have been executed, or may yet be.                *)
(***************************************************************************)
EXTENDS Naturals

CONSTANT Call
VARIABLES execs,     \* how often the registry executed each call
          outcome    \* "unsent", "pending", "ok" or "failed"

ChannelInit == execs = [c \in Call |-> 0] /\ outcome = [c \in Call |-> "unsent"]

Send(c) ==
  /\ outcome[c] = "unsent" /\ outcome' = [outcome EXCEPT ![c] = "pending"]
  /\ UNCHANGED execs

\* A request file left behind is served whether or not anybody still waits.
Execute(c) ==
  /\ outcome[c] # "unsent" /\ execs' = [execs EXCEPT ![c] = @ + 1]
  /\ UNCHANGED outcome

Answer(c) ==
  /\ outcome[c] = "pending" /\ execs[c] > 0
  /\ outcome' = [outcome EXCEPT ![c] = "ok"] /\ UNCHANGED execs

Fail(c) ==
  /\ outcome[c] \in {"unsent", "pending"}
  /\ outcome' = [outcome EXCEPT ![c] = "failed"] /\ UNCHANGED execs

ChannelNext == \E c \in Call : Send(c) \/ Execute(c) \/ Answer(c) \/ Fail(c)

ChannelSpec == ChannelInit /\ [][ChannelNext]_<<execs, outcome>>
=============================================================================
