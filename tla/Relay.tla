------------------------------- MODULE Relay -------------------------------
(***************************************************************************)
(* The file relay between an agent without network and the registry.  The  *)
(* agent writes req-<runId>-<n>.json and polls for resp-<runId>-<n>.json   *)
(* (file_transport.rs); a host lists the requests in name order, forwards  *)
(* each and writes its answer.  The host is manager.py, with the agent in  *)
(* a container, or vm-driver, with the agent in a VM.                      *)
(*                                                                         *)
(* A run of the agent is numbered; its files carry RunId, its start time.  *)
(* Files appear and vanish atomically (written aside, then renamed).       *)
(***************************************************************************)
EXTENDS Integers, FiniteSets

CONSTANTS
  MaxRuns,     \* bound: starts of the agent
  MaxCalls,    \* bound: calls of one run
  MaxFaults    \* bound: crashes, failed writes and transport failures

Run == 1..MaxRuns
Call == Run \X (1..MaxCalls)

ASSUME RelayAssumption ==
  MaxRuns \in Nat \ {0} /\ MaxCalls \in Nat \ {0} /\ MaxFaults \in Nat

VARIABLES
  host,       \* "manager" or "driver"
  run,        \* the agent's current run, 0 before the first
  n,          \* its counter: calls issued in this run
  agent,      \* "off", "ready", "wait", "exited"
  relay,      \* where the host is: "down", "swept", "removed", "scan", "take",
              \* "forward", "hung", "write", "unlink" or "zombie"
  todo,       \* the requests of the listing still to be taken
  cur,        \* the request at hand and what came of it: [req, status]
  reqs,       \* req-*.json: [name, call]
  resps,      \* resp-*.json: [name, call, status]
  waiter,     \* vm-driver's wait for the agent: "none", "lookup", "armed", "done"
  reported,   \* the runtime reported the agent's exit
  execs,      \* how often the registry executed each call
  outcome,    \* what each call has come to
  taken,      \* history: the answer consumed last: the call awaited, the call it was made for
  faults      \* faults so far

Nobody == <<0, 0>>
files == <<reqs, resps>>
wait == <<waiter, reported>>
relayVars == <<host, run, n, agent, relay, todo, cur, files, wait, execs, outcome, taken, faults>>

Name == (0..MaxRuns) \X (1..MaxCalls)
Request == [name: Name, call: Call]
Response == [name: Name, call: Call, status: {"ok", "failed"}]
NothingTaken == [awaited |-> Nobody, made |-> Nobody]
NoRequest == [req |-> [name |-> Nobody, call |-> Nobody], status |-> "none"]

RelayTypeOK ==
  /\ host \in {"manager", "driver"} /\ run \in 0..MaxRuns /\ n \in 0..MaxCalls
  /\ agent \in {"off", "ready", "wait", "exited"}
  /\ relay \in {"down", "swept", "removed", "scan", "take", "forward", "hung",
               "write", "unlink", "zombie"}
  /\ todo \subseteq Name
  /\ cur \in {NoRequest} \cup [req: Request, status: {"none", "ok", "failed"}]
  /\ reqs \subseteq Request /\ resps \subseteq Response
  /\ waiter \in {"none", "lookup", "armed", "done"} /\ reported \in BOOLEAN
  /\ execs \in [Call -> Nat]
  /\ outcome \in [Call -> {"unsent", "pending", "ok", "failed"}]
  /\ taken \in {NothingTaken} \cup [awaited: Call, made: Call] /\ faults \in 0..MaxFaults

RelayInit ==
  /\ host \in {"manager", "driver"} /\ run = 0 /\ n = 0 /\ agent = "off" /\ relay = "down"
  /\ todo = {} /\ cur = NoRequest /\ reqs = {} /\ resps = {}
  /\ waiter = "none" /\ reported = FALSE
  /\ execs = [c \in Call |-> 0] /\ outcome = [c \in Call |-> "unsent"]
  /\ taken = NothingTaken /\ faults = 0

Fault == faults < MaxFaults /\ faults' = faults + 1

-----------------------------------------------------------------------------
(* FileTransport::request                                                  *)

RunIdFixed(r) == 0   \* faulty: every run uses the same id

\* The start time in ms; runs are further apart than that.
RunId(r) == r

This == <<run, n>>
FileName(c) == <<RunId(c[1]), c[2]>>

Issue ==
  /\ agent = "ready" /\ n < MaxCalls /\ n' = n + 1
  /\ LET c == <<run, n + 1>>
     IN  \/ /\ reqs' = {q \in reqs : q.name # FileName(c)} \cup {[name |-> FileName(c), call |-> c]}
            /\ outcome' = [outcome EXCEPT ![c] = "pending"] /\ agent' = "wait"
            /\ UNCHANGED faults
         \/ /\ Fault     \* the file cannot be written
            /\ outcome' = [outcome EXCEPT ![c] = "failed"] /\ UNCHANGED <<agent, reqs>>
  /\ UNCHANGED <<host, run, relay, todo, cur, resps, wait, execs, taken>>

\* The answer is there: it is read and its file removed.
Receive ==
  /\ agent = "wait"
  /\ \E a \in resps :
       /\ a.name = FileName(This)
       /\ resps' = resps \ {a} /\ taken' = [awaited |-> This, made |-> a.call]
       /\ outcome' = [outcome EXCEPT ![This] = a.status]
  /\ agent' = "ready"
  /\ UNCHANGED <<host, run, n, relay, todo, cur, reqs, wait, execs, faults>>

Served == relay \notin {"down", "swept", "removed", "zombie", "hung"}

TimeoutOnlyWhenServed ==   \* faulty: no deadline while nobody serves the request
  /\ agent = "wait" /\ \A a \in resps : a.name # FileName(This)
  /\ Served /\ Fault
  /\ reqs' = {q \in reqs : q.name # FileName(This)}
  /\ outcome' = [outcome EXCEPT ![This] = "failed"] /\ agent' = "ready"
  /\ UNCHANGED <<host, run, n, relay, todo, cur, resps, wait, execs, taken>>

\* The deadline passes without an answer: the agent takes its request back.  It
\* is far longer than a round of the relay, so with a relay at work it is a fault.
Timeout ==
  /\ agent = "wait" /\ \A a \in resps : a.name # FileName(This)
  /\ IF Served THEN Fault ELSE UNCHANGED faults
  /\ reqs' = {q \in reqs : q.name # FileName(This)}
  /\ outcome' = [outcome EXCEPT ![This] = "failed"] /\ agent' = "ready"
  /\ UNCHANGED <<host, run, n, relay, todo, cur, resps, wait, execs, taken>>

\* The agent ends, after --once or on a fatal error.
AgentExit ==
  /\ agent = "ready" /\ agent' = "exited"
  /\ UNCHANGED <<host, run, n, relay, todo, cur, files, wait, execs, outcome, taken, faults>>

-----------------------------------------------------------------------------
(* relay_pending and forward                                               *)

Lower(x, y) == x[1] < y[1] \/ (x[1] = y[1] /\ x[2] < y[2])

\* One listing of the directory.
Scan ==
  /\ relay = "scan" /\ reqs # {}
  /\ todo' = {q.name : q \in reqs} /\ relay' = "take"
  /\ UNCHANGED <<host, run, n, agent, cur, files, wait, execs, outcome, taken, faults>>

ChosenAny(S) == S   \* faulty: requests are taken in no order

\* Names sort by run and then by number.
Chosen(S) == {x \in S : \A y \in S : ~ Lower(y, x)}

\* The next request is read, or skipped when the agent has taken it back.
Take ==
  /\ relay = "take"
  /\ IF todo = {} THEN relay' = "scan" /\ UNCHANGED <<todo, cur>>
     ELSE \E x \in Chosen(todo) :
            /\ todo' = todo \ {x}
            /\ \/ \E q \in reqs : q.name = x /\ cur' = [req |-> q, status |-> "none"] /\ relay' = "forward"
               \/ (\A q \in reqs : q.name # x) /\ UNCHANGED <<cur, relay>>
  /\ UNCHANGED <<host, run, n, agent, files, wait, execs, outcome, taken, faults>>

\* vm-driver sets no deadline on its HTTP call: the relay thread may hang in it.
Hang ==
  /\ relay = "forward" /\ host = "driver" /\ Fault /\ relay' = "hung"
  /\ UNCHANGED <<host, run, n, agent, todo, cur, files, wait, execs, outcome, taken>>

\* The registry executes the request.  Its answer may still be lost.
Forward ==
  /\ relay \in {"forward", "hung"}
  /\ execs' = [execs EXCEPT ![cur.req.call] = @ + 1]
  /\ \/ cur' = [cur EXCEPT !.status = "ok"] /\ UNCHANGED faults
     \/ cur' = [cur EXCEPT !.status = "failed"] /\ Fault
  /\ relay' = "write"
  /\ UNCHANGED <<host, run, n, agent, todo, files, wait, outcome, taken>>

ForwardFailsAsOk ==   \* faulty: an unreachable registry is answered like a reachable one
  /\ relay = "forward" /\ Fault
  /\ cur' = [cur EXCEPT !.status = "ok"] /\ relay' = "write"
  /\ UNCHANGED <<host, run, n, agent, todo, files, wait, execs, outcome, taken>>

\* The registry was not reached: status 0.
ForwardFails ==
  /\ relay = "forward" /\ Fault
  /\ cur' = [cur EXCEPT !.status = "failed"] /\ relay' = "write"
  /\ UNCHANGED <<host, run, n, agent, todo, files, wait, execs, outcome, taken>>

WriteResp ==
  /\ relay = "write"
  /\ resps' = {a \in resps : a.name # cur.req.name}
                \cup {[name |-> cur.req.name, call |-> cur.req.call, status |-> cur.status]}
  /\ relay' = "unlink"
  /\ UNCHANGED <<host, run, n, agent, todo, cur, reqs, wait, execs, outcome, taken, faults>>

\* The answer cannot be written.  vm-driver starts over with a new listing; in
\* manager.py the error leaves the loop, and main waits for the container to end.
WriteFails ==
  /\ relay = "write" /\ Fault
  /\ relay' = IF host = "driver" THEN "scan" ELSE "zombie"
  /\ todo' = {} /\ cur' = NoRequest
  /\ UNCHANGED <<host, run, n, agent, files, wait, execs, outcome, taken>>

Unlink ==
  /\ relay = "unlink"
  /\ reqs' = {q \in reqs : q.name # cur.req.name}
  /\ cur' = NoRequest /\ relay' = "take"
  /\ UNCHANGED <<host, run, n, agent, todo, resps, wait, execs, outcome, taken, faults>>

-----------------------------------------------------------------------------
(* Starting: main of manager.py and of vm-driver                           *)

\* manager.py clears the directory first.
Sweep ==
  /\ relay = "down" /\ host = "manager" /\ run < MaxRuns
  /\ reqs' = {} /\ resps' = {} /\ relay' = "swept"
  /\ UNCHANGED <<host, run, n, agent, todo, cur, wait, execs, outcome, taken, faults>>

Abandon == [c \in Call |-> IF outcome[c] = "pending" THEN "failed" ELSE outcome[c]]

\* docker rm -f: only now a container of an earlier run is gone.
RemoveContainer ==
  /\ relay = "swept" /\ agent' = "off" /\ relay' = "removed" /\ outcome' = Abandon
  /\ UNCHANGED <<host, run, n, todo, cur, files, wait, execs, taken, faults>>

\* vm-driver's relay thread runs before the VM is up, on whatever files it finds.
StartRelay ==
  /\ relay = "down" /\ host = "driver" /\ run < MaxRuns /\ relay' = "scan"
  /\ UNCHANGED <<host, run, n, agent, todo, cur, files, wait, execs, outcome, taken, faults>>

\* docker run, or run_process in the booted VM.
StartAgent ==
  /\ run < MaxRuns /\ agent = "off"
  /\ \/ relay = "removed" /\ relay' = "scan" /\ waiter' = "none"
     \/ host = "driver" /\ relay # "down" /\ waiter = "none" /\ relay' = relay /\ waiter' = "lookup"
  /\ agent' = "ready" /\ run' = run + 1 /\ n' = 0 /\ taken' = NothingTaken /\ reported' = FALSE
  /\ UNCHANGED <<host, todo, cur, files, execs, outcome, faults>>

-----------------------------------------------------------------------------
(* Noticing the end of the agent                                           *)

ReportSilently ==   \* faulty: the exit code is stored, nobody is woken
  /\ host = "driver" /\ agent = "exited" /\ ~ reported /\ reported' = TRUE
  /\ UNCHANGED <<host, run, n, agent, relay, todo, cur, files, waiter, execs, outcome, taken, faults>>

\* on_process_status: the code is stored and a waiter that is armed looks again.
Report ==
  /\ host = "driver" /\ agent = "exited" /\ ~ reported /\ reported' = TRUE
  /\ waiter' = IF waiter = "armed" THEN "lookup" ELSE waiter
  /\ UNCHANGED <<host, run, n, agent, relay, todo, cur, files, execs, outcome, taken, faults>>

\* The lookup and the arming of the waiter are one poll of the only thread.
Lookup ==
  /\ waiter = "lookup"
  /\ waiter' = IF reported THEN "done" ELSE "armed"
  /\ UNCHANGED <<host, run, n, agent, relay, todo, cur, files, reported, execs, outcome, taken, faults>>

Stopped == /\ relay' = "down" /\ todo' = {} /\ cur' = NoRequest /\ waiter' = "none"

\* vm-driver saw the code: it stops the VM and exits.
DriverExit ==
  /\ waiter = "done" /\ Stopped /\ agent' = "off"
  /\ UNCHANGED <<host, run, n, files, reported, execs, outcome, taken, faults>>

\* Ctrl-C: either host stops the agent and exits.
Interrupt ==
  /\ Fault /\ agent \in {"ready", "wait"} /\ relay \notin {"down", "swept"} /\ Stopped
  /\ agent' = "off" /\ outcome' = Abandon
  /\ UNCHANGED <<host, run, n, files, reported, execs, taken>>

\* manager.py polls the container between two rounds, or only waits for it.
ManagerExit ==
  /\ host = "manager" /\ relay \in {"scan", "zombie"} /\ agent = "exited" /\ Stopped
  /\ agent' = "off"
  /\ UNCHANGED <<host, run, n, files, reported, execs, outcome, taken, faults>>

\* The host process dies.  A VM dies with its driver; a container lives on.
HostCrash ==
  /\ Fault /\ relay # "down" /\ Stopped
  /\ IF host = "driver" THEN agent' = "off" /\ outcome' = Abandon ELSE UNCHANGED <<agent, outcome>>
  /\ UNCHANGED <<host, run, n, files, reported, execs, taken>>

AgentStep == Issue \/ Receive \/ Timeout \/ AgentExit
HostStep ==
  \/ Scan \/ Take \/ Hang \/ Forward \/ ForwardFails \/ WriteResp \/ WriteFails \/ Unlink
  \/ Sweep \/ RemoveContainer \/ StartRelay \/ StartAgent
  \/ Report \/ Lookup \/ DriverExit \/ ManagerExit \/ Interrupt \/ HostCrash

RelayNext == AgentStep \/ HostStep
RelaySpec == RelayInit /\ [][RelayNext]_relayVars

\* Three sequential processes that are never stuck by themselves: the agent, the
\* relay loop and whoever waits for the agent's end.  Nothing makes a hung request
\* return, starts a host or makes the agent end.
RelayFairness ==
  /\ WF_relayVars(Receive \/ Timeout)
  /\ WF_relayVars(Scan \/ Take \/ (relay = "forward" /\ Forward) \/ WriteResp \/ Unlink \/ RemoveContainer)
  /\ WF_relayVars(Report \/ Lookup \/ DriverExit \/ ManagerExit)

FairRelaySpec == RelaySpec /\ RelayFairness

-----------------------------------------------------------------------------
\* An answer the agent consumes was made for the very call it waits for: not for
\* a call of an earlier run whose files were left behind, nor for an earlier call
\* of this run that timed out and was answered late.
AnswersAreOwn == taken.made = taken.awaited

Channel == INSTANCE CallChannel
ChannelSpec == Channel!ChannelSpec

\* A call of the agent returns, even from a relay that hangs or has died.
CallsReturn == agent = "wait" ~> agent # "wait"

\* The end of the agent is noticed: a host that is up does not stay up without it,
\* though the runtime's report may come before, between or after its waiter's
\* lookups, and though its relay may be stuck in a request or have lost its loop.
ExitSeen == agent = "exited" ~> (agent = "off" \/ relay = "down")
=============================================================================
