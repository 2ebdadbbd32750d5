---------------------------- MODULE RelayProofs ----------------------------
(***************************************************************************)
(* Proofs about Relay, for every number of runs, calls and faults:         *)
(*                                                                         *)
(*   RelayTypeCorrect    the state is well typed;                          *)
(*   OwnAnswers          the agent consumes only answers to its own call;  *)
(*   RelayIsAChannel     the files implement CallChannel.                  *)
(*                                                                         *)
(* All three rest on RelayInv: a file's name says whose it is, whatever is *)
(* on its way was asked for, calls that were not made yet are unsent, and  *)
(* the only call that is pending is the one the agent waits for.           *)
(***************************************************************************)
EXTENDS Relay, TLAPS

USE DEF RunId

-----------------------------------------------------------------------------
(* The inductive invariant                                                 *)

Holding == {"forward", "hung", "write", "unlink"}

\* A request on its way is named after its call, and the call was made.
Asked(q) == q.name = FileName(q.call) /\ outcome[q.call] # "unsent"

RequestsAsked == \A q \in reqs : Asked(q)

\* A good answer was given by the registry.
ResponsesBacked ==
  \A a \in resps : Asked(a) /\ (a.status = "ok" => execs[a.call] > 0)

\* So is the request the host has at hand, and it is answered once forwarded.
CurBacked ==
  relay \in Holding =>
    /\ cur \in [req: Request, status: {"none", "ok", "failed"}]
    /\ Asked(cur.req)
    /\ relay \in {"write", "unlink"} => cur.status \in {"ok", "failed"}
    /\ cur.status = "ok" => execs[cur.req.call] > 0

\* Calls still to be made, of this run and of later ones.
Ahead(c) == c[1] > run \/ (c[1] = run /\ c[2] > n)
AheadUnsent == \A c \in Call : Ahead(c) => outcome[c] = "unsent"

\* A call is pending exactly while the agent waits for it.
PendingAwaited == \A c \in Call : outcome[c] = "pending" => agent = "wait" /\ c = This
AwaitedPending == agent = "wait" => This \in Call /\ outcome[This] = "pending"
Started == agent # "off" => run \in Run

\* The exit the waiter has seen is the current run's.
ExitReal == (reported => agent \in {"exited", "off"}) /\ (waiter = "done" => reported)

RelayInv ==
  /\ RelayTypeOK
  /\ RequestsAsked /\ ResponsesBacked /\ CurBacked
  /\ AheadUnsent /\ PendingAwaited /\ AwaitedPending /\ Started
  /\ ExitReal
  /\ AnswersAreOwn

-----------------------------------------------------------------------------
(* Type correctness                                                        *)

LEMMA NameOfCall == \A c \in Call : FileName(c) = c /\ c \in Name /\ c[1] \in Run /\ c[2] \in 1..MaxCalls
BY RelayAssumption DEF Call, FileName, Name, Run

LEMMA NextCall ==
  ASSUME RelayTypeOK, run \in Run, n < MaxCalls
  PROVE  <<run, n + 1>> \in Call
BY RelayAssumption DEF RelayTypeOK, Call, Run

LEMMA FaultType == ASSUME RelayTypeOK, Fault PROVE faults' \in 0..MaxFaults
BY RelayAssumption DEF RelayTypeOK, Fault

LEMMA AgentType ==
  ASSUME RelayInv, AgentStep
  PROVE  RelayTypeOK'
<1> USE DEF RelayInv
<1>1. CASE Issue
  <2> DEFINE c == <<run, n + 1>>
  <2>1. c \in Call
    BY <1>1, NextCall DEF Issue, Started, RelayTypeOK
  <2>2. [name |-> FileName(c), call |-> c] \in Request
    BY <2>1, NameOfCall DEF Request
  <2> QED BY <1>1, <2>1, <2>2, FaultType, RelayAssumption DEF Issue, RelayTypeOK, wait
<1>2. CASE Receive
  BY <1>2, RelayAssumption DEF Receive, RelayTypeOK, AwaitedPending, wait, Response
<1>3. CASE Timeout
  BY <1>3, FaultType DEF Timeout, RelayTypeOK, wait
<1>4. CASE AgentExit
  BY <1>4 DEF AgentExit, RelayTypeOK, wait, files
<1> QED BY <1>1, <1>2, <1>3, <1>4 DEF AgentStep

LEMMA HostType ==
  ASSUME RelayInv, HostStep
  PROVE  RelayTypeOK'
<1> USE DEF RelayInv
<1> USE DEF wait, files
<1>1. CASE Scan
  BY <1>1 DEF Scan, RelayTypeOK, Request
<1>2. CASE Take
  BY <1>2 DEF Take, Chosen, RelayTypeOK
<1>3. CASE Hang
  BY <1>3, FaultType DEF Hang, RelayTypeOK
<1>4. CASE Forward
  <2>1. cur \in [req: Request, status: {"none", "ok", "failed"}]
    BY <1>4 DEF Forward, CurBacked, Holding
  <2>2. execs' \in [Call -> Nat]
    BY <1>4, <2>1 DEF Forward, RelayTypeOK, Request
  <2>3. cur' \in [req: Request, status: {"none", "ok", "failed"}]
    BY <1>4, <2>1 DEF Forward
  <2> QED BY <1>4, <2>2, <2>3, FaultType DEF Forward, RelayTypeOK
<1>5. CASE ForwardFails
  <2>1. cur \in [req: Request, status: {"none", "ok", "failed"}]
    BY <1>5 DEF ForwardFails, CurBacked, Holding
  <2>2. cur' \in [req: Request, status: {"none", "ok", "failed"}]
    BY <1>5, <2>1 DEF ForwardFails
  <2> QED BY <1>5, <2>2, FaultType DEF ForwardFails, RelayTypeOK
<1>6. CASE WriteResp
  <2>1. [name |-> cur.req.name, call |-> cur.req.call, status |-> cur.status] \in Response
    BY <1>6 DEF WriteResp, CurBacked, Holding, Request, Response
  <2> QED BY <1>6, <2>1 DEF WriteResp, RelayTypeOK
<1>7. CASE WriteFails
  BY <1>7, FaultType DEF WriteFails, RelayTypeOK
<1>8. CASE Unlink
  BY <1>8 DEF Unlink, RelayTypeOK
<1>9. CASE Sweep
  BY <1>9 DEF Sweep, RelayTypeOK
<1>10. CASE RemoveContainer
  BY <1>10 DEF RemoveContainer, RelayTypeOK, Abandon
<1>11. CASE StartRelay
  BY <1>11 DEF StartRelay, RelayTypeOK
<1>12. CASE StartAgent
  <2>1. run' \in 0..MaxRuns /\ n' \in 0..MaxCalls
    BY <1>12, RelayAssumption DEF StartAgent, RelayTypeOK
  <2>2. taken' \in {NothingTaken}
    BY <1>12 DEF StartAgent
  <2> QED BY <1>12, <2>1, <2>2 DEF StartAgent, RelayTypeOK
<1>13. CASE Report
  BY <1>13 DEF Report, RelayTypeOK
<1>14. CASE Lookup
  BY <1>14 DEF Lookup, RelayTypeOK
<1>15. CASE DriverExit
  BY <1>15 DEF DriverExit, Stopped, RelayTypeOK
<1>16. CASE ManagerExit
  BY <1>16 DEF ManagerExit, Stopped, RelayTypeOK
<1>17. CASE Interrupt
  BY <1>17, FaultType DEF Interrupt, Stopped, RelayTypeOK, Abandon
<1>18. CASE HostCrash
  BY <1>18, FaultType DEF HostCrash, Stopped, RelayTypeOK, Abandon
<1> QED
  BY <1>1, <1>2, <1>3, <1>4, <1>5, <1>6, <1>7, <1>8, <1>9, <1>10, <1>11, <1>12,
     <1>13, <1>14, <1>15, <1>16, <1>17, <1>18 DEF HostStep

-----------------------------------------------------------------------------
(* Files and the request at hand                                           *)

\* What a step of the host does to the outcomes: nothing, or it ends the agent.
LEMMA HostOutcome ==
  ASSUME HostStep
  PROVE  outcome' = outcome \/ (outcome' = Abandon /\ agent' = "off")
BY DEF HostStep, Scan, Take, Hang, Forward, ForwardFails, WriteResp, WriteFails, Unlink, Sweep,
       RemoveContainer, StartRelay, StartAgent, Report, Lookup, DriverExit, ManagerExit,
       Interrupt, HostCrash

\* Executions are counted by Forward alone.
LEMMA ExecsChange ==
  ASSUME RelayNext, ~ Forward
  PROVE  execs' = execs
BY DEF RelayNext, AgentStep, Issue, Receive, Timeout, AgentExit,
       HostStep, Scan, Take, Hang, ForwardFails, WriteResp, WriteFails, Unlink, Sweep,
       RemoveContainer, StartRelay, StartAgent, Report, Lookup, DriverExit, ManagerExit,
       Interrupt, HostCrash

LEMMA IssueFresh ==
  ASSUME RelayInv, Issue
  PROVE  <<run, n + 1>> \in Call /\ outcome[<<run, n + 1>>] = "unsent"
<1> USE DEF RelayInv
<1>1. run \in Run /\ n < MaxCalls /\ n \in Nat
  BY DEF Issue, Started, RelayTypeOK
<1>2. <<run, n + 1>> \in Call
  BY <1>1, NextCall
<1>3. Ahead(<<run, n + 1>>)
  BY <1>1 DEF Ahead
<1> QED BY <1>2, <1>3 DEF AheadUnsent

\* The agent moves the outcome of one call: of the next one, or of the one it waits for.
LEMMA AgentOutcome ==
  ASSUME RelayInv, AgentStep
  PROVE  \/ outcome' = outcome
         \/ /\ Issue /\ <<run, n + 1>> \in Call /\ outcome[<<run, n + 1>>] = "unsent"
            /\ \/ outcome' = [outcome EXCEPT ![<<run, n + 1>>] = "pending"] /\ agent' = "wait"
               \/ outcome' = [outcome EXCEPT ![<<run, n + 1>>] = "failed"] /\ agent' = agent
         \/ /\ Receive \/ Timeout
            /\ This \in Call /\ outcome[This] = "pending" /\ agent' = "ready"
            /\ \E r \in {"ok", "failed"} : outcome' = [outcome EXCEPT ![This] = r]
<1> USE DEF RelayInv
<1>1. CASE Issue
  BY <1>1, IssueFresh DEF Issue
<1>2. CASE Receive
  BY <1>2 DEF Receive, AwaitedPending, RelayTypeOK, Response
<1>3. CASE Timeout
  BY <1>3 DEF Timeout, AwaitedPending
<1>4. CASE AgentExit
  BY <1>4 DEF AgentExit
<1> QED BY <1>1, <1>2, <1>3, <1>4 DEF AgentStep

\* A call that was made stays made, and an execution is never undone.
LEMMA MadeStays ==
  ASSUME RelayInv, RelayNext
  PROVE  \A c \in Call : /\ outcome[c] # "unsent" => outcome'[c] # "unsent"
                         /\ execs[c] > 0 => execs'[c] > 0
<1> USE DEF RelayInv
<1>1. ASSUME NEW c \in Call, outcome[c] # "unsent" PROVE outcome'[c] # "unsent"
  <2>1. CASE AgentStep
    BY <1>1, <2>1, AgentOutcome DEF RelayTypeOK
  <2>2. CASE HostStep
    BY <1>1, <2>2, HostOutcome DEF Abandon
  <2> QED BY <2>1, <2>2 DEF RelayNext
<1>2. ASSUME NEW c \in Call, execs[c] > 0 PROVE execs'[c] > 0
  <2>1. CASE Forward
    BY <1>2, <2>1 DEF Forward, RelayTypeOK
  <2>2. CASE ~ Forward
    BY <1>2, <2>2, ExecsChange
  <2> QED BY <2>1, <2>2
<1> QED BY <1>1, <1>2

LEMMA RequestsStep ==
  ASSUME RelayInv, RelayNext
  PROVE  RequestsAsked'
<1> USE DEF RelayInv
<1>1. CASE Issue
  <2> DEFINE c == <<run, n + 1>>
  <2>1. c \in Call /\ (reqs' # reqs => outcome'[c] # "unsent")
    BY <1>1, IssueFresh DEF Issue, RelayTypeOK
  <2>2. SUFFICES ASSUME NEW q \in reqs' PROVE Asked(q)'
    BY DEF RequestsAsked
  <2>3. CASE q \in reqs
    BY <2>3, MadeStays DEF RequestsAsked, Asked, FileName, RelayTypeOK, Request
  <2>4. CASE q \notin reqs
    <3>1. q = [name |-> FileName(c), call |-> c] /\ outcome'[c] # "unsent"
      BY <1>1, <2>1, <2>4 DEF Issue
    <3> QED BY <3>1 DEF Asked, FileName
  <2> QED BY <2>3, <2>4
<1>2. CASE ~ Issue
  <2>1. reqs' \subseteq reqs
    BY <1>2 DEF RelayNext, AgentStep, Receive, Timeout, AgentExit,
       HostStep, Scan, Take, Hang, Forward, ForwardFails, WriteResp, WriteFails, Unlink, Sweep,
       RemoveContainer, StartRelay, StartAgent, Report, Lookup, DriverExit, ManagerExit,
       Interrupt, HostCrash, files
  <2> QED BY <2>1, MadeStays DEF RequestsAsked, Asked, FileName, RelayTypeOK, Request
<1> QED BY <1>1, <1>2

LEMMA ResponsesStep ==
  ASSUME RelayInv, RelayNext
  PROVE  ResponsesBacked'
<1> USE DEF RelayInv
<1>1. CASE WriteResp
  <2>1. Asked(cur.req) /\ cur.req.call \in Call /\ (cur.status = "ok" => execs[cur.req.call] > 0)
    BY <1>1 DEF WriteResp, CurBacked, Holding, Request
  <2> QED BY <1>1, <2>1, MadeStays DEF WriteResp, ResponsesBacked, Asked, FileName, RelayTypeOK, Response
<1>2. CASE ~ WriteResp
  <2>1. resps' \subseteq resps
    BY <1>2 DEF RelayNext, AgentStep, Issue, Receive, Timeout, AgentExit,
       HostStep, Scan, Take, Hang, Forward, ForwardFails, WriteFails, Unlink, Sweep,
       RemoveContainer, StartRelay, StartAgent, Report, Lookup, DriverExit, ManagerExit,
       Interrupt, HostCrash, files
  <2> QED BY <2>1, MadeStays DEF ResponsesBacked, Asked, FileName, RelayTypeOK, Response
<1> QED BY <1>1, <1>2

LEMMA CurStep ==
  ASSUME RelayInv, RelayNext
  PROVE  CurBacked'
<1> USE DEF RelayInv, Holding
<1> DEFINE Record == [req: Request, status: {"none", "ok", "failed"}]
<1>1. CASE Take
  <2>1. CASE relay' \notin Holding
    BY <2>1 DEF CurBacked
  <2>2. CASE relay' \in Holding
    <3>1. PICK q \in reqs : cur' = [req |-> q, status |-> "none"] /\ relay' = "forward"
      BY <1>1, <2>2 DEF Take
    <3>2. q \in Request /\ Asked(q)
      BY DEF RelayTypeOK, RequestsAsked
    <3>3. cur' \in Record
      BY <3>1, <3>2
    <3> QED BY <3>1, <3>2, <3>3, MadeStays DEF CurBacked, Asked, FileName, Request
  <2> QED BY <2>1, <2>2
<1>2. CASE Forward \/ ForwardFails
  <2>1. cur \in Record /\ Asked(cur.req) /\ cur.req.call \in Call
    BY <1>2 DEF Forward, ForwardFails, CurBacked, Request
  <2>2. /\ cur' \in Record /\ cur'.req = cur.req /\ cur'.status \in {"ok", "failed"}
        /\ relay' = "write"
    BY <1>2, <2>1 DEF Forward, ForwardFails
  <2>3. cur'.status = "ok" => execs'[cur.req.call] > 0
    BY <1>2, <2>1 DEF Forward, ForwardFails, RelayTypeOK
  <2> QED BY <2>1, <2>2, <2>3, MadeStays DEF CurBacked, Asked, FileName
<1>3. CASE ~ Take /\ ~ Forward /\ ~ ForwardFails
  <2>1. relay' \notin Holding \/ (relay \in Holding /\ cur' = cur
                                /\ (relay' \in {"write", "unlink"} => relay \in {"write", "unlink"}))
    BY <1>3 DEF RelayNext, AgentStep, Issue, Receive, Timeout, AgentExit,
       HostStep, Scan, Hang, WriteResp, WriteFails, Unlink, Sweep,
       RemoveContainer, StartRelay, StartAgent, Report, Lookup, DriverExit, ManagerExit,
       Interrupt, HostCrash, Stopped
  <2> QED BY <2>1, MadeStays DEF CurBacked, Asked, FileName, Request
<1> QED BY <1>1, <1>2, <1>3

-----------------------------------------------------------------------------
(* Calls                                                                   *)

\* Which call is ahead depends on the counters, which a few steps move.
LEMMA CallsStep ==
  ASSUME RelayInv, RelayNext
  PROVE  AheadUnsent' /\ PendingAwaited' /\ AwaitedPending' /\ Started'
<1> USE DEF RelayInv
<1>1. CASE Issue
  <2> DEFINE c == <<run, n + 1>>
  <2>1. c \in Call /\ outcome[c] = "unsent"
    BY <1>1, IssueFresh
  <2>2. run' = run /\ n' = n + 1 /\ run \in Nat /\ n \in Nat /\ agent = "ready" /\ run \in Run
    BY <1>1, RelayAssumption DEF Issue, RelayTypeOK, Started
  <2>3. This' = c
    BY <2>2 DEF This
  <2>4. \A d \in Call : Ahead(d)' => Ahead(d) /\ d # c
    BY <2>2, NameOfCall DEF Ahead, Run
  <2>5. \A d \in Call : d # c => outcome'[d] = outcome[d]
    BY <1>1 DEF Issue, RelayTypeOK
  <2>6. AheadUnsent'
    BY <2>4, <2>5 DEF AheadUnsent
  <2>7. outcome'[c] = "pending" <=> agent' = "wait"
    BY <1>1, <2>1 DEF Issue, RelayTypeOK
  <2>8. \A d \in Call : outcome[d] # "pending"
    BY <2>2 DEF PendingAwaited
  <2>9. PendingAwaited'
    BY <2>3, <2>5, <2>7, <2>8 DEF PendingAwaited
  <2>10. AwaitedPending' /\ Started'
    BY <2>1, <2>2, <2>3, <2>7 DEF AwaitedPending, Started
  <2> QED BY <2>6, <2>9, <2>10
<1>2. CASE Receive \/ Timeout
  <2>1. This \in Call /\ agent = "wait" /\ agent' = "ready" /\ run' = run /\ n' = n
    BY <1>2 DEF Receive, Timeout, AwaitedPending
  <2>2. \A d \in Call : d # This => outcome'[d] = outcome[d]
    BY <1>2 DEF Receive, Timeout, RelayTypeOK
  <2>3. outcome'[This] \in {"ok", "failed"}
    BY <1>2, <2>1 DEF Receive, Timeout, RelayTypeOK, Response
  <2>4. ~ Ahead(This)
    BY <2>1, NameOfCall, RelayAssumption DEF Ahead, This, RelayTypeOK
  <2> QED BY <2>1, <2>2, <2>3, <2>4
          DEF AheadUnsent, PendingAwaited, AwaitedPending, Started, Ahead
<1>3. CASE StartAgent
  <2>1. /\ run' = run + 1 /\ n' = 0 /\ agent = "off" /\ agent' = "ready" /\ outcome' = outcome
        /\ run \in Nat /\ run' \in Run
    BY <1>3, RelayAssumption DEF StartAgent, RelayTypeOK, Run
  <2>2. \A d \in Call : Ahead(d)' => Ahead(d)
    BY <2>1, NameOfCall DEF Ahead, Run
  <2> QED BY <2>1, <2>2 DEF AheadUnsent, PendingAwaited, AwaitedPending, Started
<1>4. CASE ~ Issue /\ ~ Receive /\ ~ Timeout /\ ~ StartAgent
  <2>1. run' = run /\ n' = n
    BY <1>4 DEF RelayNext, AgentStep, AgentExit,
       HostStep, Scan, Take, Hang, Forward, ForwardFails, WriteResp, WriteFails, Unlink, Sweep,
       RemoveContainer, StartRelay, Report, Lookup, DriverExit, ManagerExit,
       Interrupt, HostCrash
  <2>2. \/ outcome' = Abandon /\ agent' = "off"
        \/ outcome' = outcome /\ agent' = agent
        \/ outcome' = outcome /\ agent' \in {"off", "exited"} /\ agent # "wait" /\ (agent = "off" => agent' = "off")
    BY <1>4 DEF RelayNext, AgentStep, AgentExit,
       HostStep, Scan, Take, Hang, Forward, ForwardFails, WriteResp, WriteFails, Unlink, Sweep,
       RemoveContainer, StartRelay, Report, Lookup, DriverExit, ManagerExit,
       Interrupt, HostCrash, ExitReal
  <2>3. \A c \in Call : Ahead(c)' <=> Ahead(c)
    BY <2>1 DEF Ahead
  <2>4. CASE outcome' = Abandon /\ agent' = "off"
    <3>1. \A c \in Call : /\ outcome[c] = "unsent" => outcome'[c] = "unsent"
                          /\ outcome'[c] # "pending"
      BY <2>4 DEF Abandon
    <3> QED BY <2>3, <2>4, <3>1 DEF AheadUnsent, PendingAwaited, AwaitedPending, Started
  <2>5. CASE outcome' = outcome /\ agent' = agent
    BY <2>1, <2>3, <2>5 DEF AheadUnsent, PendingAwaited, AwaitedPending, Started, This
  <2>6. CASE outcome' = outcome /\ agent' \in {"off", "exited"} /\ agent # "wait" /\ (agent = "off" => agent' = "off")
    BY <2>1, <2>3, <2>6 DEF AheadUnsent, PendingAwaited, AwaitedPending, Started
  <2> QED BY <2>2, <2>4, <2>5, <2>6
<1> QED BY <1>1, <1>2, <1>3, <1>4

LEMMA ExitStep ==
  ASSUME RelayInv, RelayNext
  PROVE  ExitReal'
BY DEF RelayInv, ExitReal, RelayTypeOK,
       RelayNext, AgentStep, Issue, Receive, Timeout, AgentExit,
       HostStep, Scan, Take, Hang, Forward, ForwardFails, WriteResp, WriteFails, Unlink, Sweep,
       RemoveContainer, StartRelay, StartAgent, Report, Lookup, DriverExit, ManagerExit,
       Interrupt, HostCrash, Stopped, wait

\* The file the agent reads carries its own call's name, so it answers that call.
LEMMA OwnStep ==
  ASSUME RelayInv, RelayNext
  PROVE  AnswersAreOwn'
<1> USE DEF RelayInv
<1>1. CASE Receive
  <2>1. PICK a \in resps : a.name = FileName(This) /\ taken' = [awaited |-> This, made |-> a.call]
    BY <1>1 DEF Receive
  <2>2. This \in Call /\ a.call \in Call
    BY <1>1 DEF Receive, AwaitedPending, RelayTypeOK, Response
  <2>3. a.call = This
    BY <2>1, <2>2, NameOfCall DEF ResponsesBacked, Asked
  <2> QED BY <2>1, <2>3 DEF AnswersAreOwn
<1>2. CASE StartAgent
  BY <1>2 DEF StartAgent, AnswersAreOwn, NothingTaken
<1>3. CASE ~ Receive /\ ~ StartAgent
  <2>1. taken' = taken
    BY <1>3 DEF RelayNext, AgentStep, Issue, Timeout, AgentExit,
       HostStep, Scan, Take, Hang, Forward, ForwardFails, WriteResp, WriteFails, Unlink, Sweep,
       RemoveContainer, StartRelay, Report, Lookup, DriverExit, ManagerExit,
       Interrupt, HostCrash
  <2> QED BY <2>1 DEF AnswersAreOwn
<1> QED BY <1>1, <1>2, <1>3

-----------------------------------------------------------------------------
(* The theorems                                                            *)

LEMMA RelayInvInit == RelayInit => RelayInv
<1> SUFFICES ASSUME RelayInit PROVE RelayInv
  OBVIOUS
<1>1. RelayTypeOK
  <2>1. run \in 0..MaxRuns /\ n \in 0..MaxCalls /\ faults \in 0..MaxFaults
    BY RelayAssumption DEF RelayInit
  <2>2. execs \in [Call -> Nat] /\ outcome \in [Call -> {"unsent", "pending", "ok", "failed"}]
    BY DEF RelayInit
  <2>3. taken \in {NothingTaken} /\ cur \in {NoRequest}
    BY DEF RelayInit
  <2> QED BY <2>1, <2>2, <2>3 DEF RelayInit, RelayTypeOK
<1> QED BY <1>1 DEF RelayInit, RelayInv, RequestsAsked, ResponsesBacked, CurBacked, Holding,
           AheadUnsent, PendingAwaited, AwaitedPending, Started, ExitReal, AnswersAreOwn, NothingTaken

LEMMA RelayInvNext == RelayInv /\ [RelayNext]_relayVars => RelayInv'
<1> SUFFICES ASSUME RelayInv, [RelayNext]_relayVars PROVE RelayInv'
  OBVIOUS
<1>1. CASE RelayNext
  BY <1>1, AgentType, HostType, RequestsStep, ResponsesStep, CurStep, CallsStep, ExitStep, OwnStep
  DEF RelayInv, RelayNext
<1>2. CASE UNCHANGED relayVars
  <2>1. /\ UNCHANGED <<host, run, n, agent, relay, todo, cur, reqs, resps>>
        /\ UNCHANGED <<waiter, reported, execs, outcome, taken, faults>>
    BY <1>2 DEF relayVars, files, wait
  <2> QED BY <2>1 DEF RelayInv, RelayTypeOK, RequestsAsked, ResponsesBacked, CurBacked, Asked,
              AheadUnsent, Ahead, PendingAwaited, AwaitedPending, Started, This, ExitReal, AnswersAreOwn
<1> QED BY <1>1, <1>2

\* The file names of FileTransport::request are enough to tell the calls apart,
\* through every order of the agent's steps, relay_pending's and the hosts'
\* starts, ends and crashes: RelayInv is inductive.
THEOREM RelayInvariant == RelaySpec => []RelayInv
BY RelayInvInit, RelayInvNext, PTL DEF RelaySpec

\* The relay's state is well typed; in particular the counter of
\* FileTransport::request and the host's request at hand stay in range.
THEOREM RelayTypeCorrect == RelaySpec => []RelayTypeOK
<1>1. RelayInv => RelayTypeOK
  BY DEF RelayInv
<1> QED BY <1>1, RelayInvariant, PTL

\* FileTransport::request returns an answer made for the very call it made:
\* what an earlier run, a killed host or a timed-out call left in the exchange
\* directory is never taken for it, for any number of runs, calls and faults.
THEOREM OwnAnswers == RelaySpec => []AnswersAreOwn
<1>1. RelayInv => AnswersAreOwn
  BY DEF RelayInv
<1> QED BY <1>1, RelayInvariant, PTL

\* A step that ends the agent gives up the one call it waited for, or none.
LEMMA AbandonFails ==
  ASSUME RelayInv, outcome' = Abandon, execs' = execs
  PROVE  Channel!ChannelNext \/ UNCHANGED <<execs, outcome>>
<1> USE DEF RelayInv
<1>1. CASE \E c \in Call : outcome[c] = "pending"
  <2>1. PICK c \in Call : outcome[c] = "pending"
    BY <1>1
  <2>2. \A d \in Call : outcome[d] = "pending" => d = c
    BY <2>1 DEF PendingAwaited
  <2>3. outcome' = [outcome EXCEPT ![c] = "failed"]
    BY <2>1, <2>2 DEF Abandon, RelayTypeOK
  <2>4. Channel!Fail(c)
    BY <2>1, <2>3 DEF Channel!Fail
  <2> QED BY <2>4 DEF Channel!ChannelNext
<1>2. CASE \A c \in Call : outcome[c] # "pending"
  <2>1. outcome' = outcome
    BY <1>2 DEF Abandon, RelayTypeOK
  <2> QED BY <2>1
<1> QED BY <1>1, <1>2

LEMMA ChannelStep ==
  ASSUME RelayInv, RelayNext
  PROVE  Channel!ChannelNext \/ UNCHANGED <<execs, outcome>>
<1> USE DEF RelayInv
<1>1. CASE Forward
  <2>1. cur.req.call \in Call /\ outcome[cur.req.call] # "unsent"
    BY <1>1 DEF Forward, CurBacked, Holding, Asked, Request
  <2>2. Channel!Execute(cur.req.call)
    BY <1>1, <2>1 DEF Forward, Channel!Execute
  <2> QED BY <2>1, <2>2 DEF Channel!ChannelNext
<1>2. CASE HostStep /\ ~ Forward
  BY <1>2, HostOutcome, ExecsChange, AbandonFails DEF RelayNext
<1>3. CASE Issue
  <2> DEFINE c == <<run, n + 1>>
  <2>1. Channel!Send(c) \/ Channel!Fail(c)
    BY <1>3, IssueFresh DEF Issue, Channel!Send, Channel!Fail
  <2> QED BY <1>3, <2>1, IssueFresh DEF Channel!ChannelNext
<1>4. CASE Timeout
  <2>1. This \in Call /\ Channel!Fail(This)
    BY <1>4 DEF Timeout, AwaitedPending, Channel!Fail
  <2> QED BY <2>1 DEF Channel!ChannelNext
<1>5. CASE Receive
  <2>1. PICK a \in resps : /\ a.name = FileName(This)
                           /\ outcome' = [outcome EXCEPT ![This] = a.status]
    BY <1>5 DEF Receive
  <2>2. /\ This \in Call /\ outcome[This] = "pending"
        /\ a.call \in Call /\ a.status \in {"ok", "failed"} /\ execs' = execs
    BY <1>5 DEF Receive, AwaitedPending, RelayTypeOK, Response
  <2>3. a.call = This
    BY <2>1, <2>2, NameOfCall DEF ResponsesBacked, Asked
  <2>4. Channel!Answer(This) \/ Channel!Fail(This)
    BY <2>1, <2>2, <2>3 DEF ResponsesBacked, Channel!Answer, Channel!Fail
  <2> QED BY <2>2, <2>4 DEF Channel!ChannelNext
<1>6. CASE AgentExit
  BY <1>6 DEF AgentExit
<1> QED BY <1>1, <1>2, <1>3, <1>4, <1>5, <1>6 DEF RelayNext, AgentStep

\* Seen from the agent, files and a host that lists, forwards, answers, hangs and
\* crashes are a CallChannel: each call goes from unsent to pending to one final
\* answer or failure, a good answer means that the registry executed the call, and
\* the registry executes nothing that was not asked for.
THEOREM RelayIsAChannel == RelaySpec => ChannelSpec
<1>1. RelayInit => Channel!ChannelInit
  BY DEF RelayInit, Channel!ChannelInit
<1>2. RelayInv /\ [RelayNext]_relayVars => [Channel!ChannelNext]_<<execs, outcome>>
  BY ChannelStep DEF relayVars
<1> QED BY <1>1, <1>2, RelayInvariant, PTL DEF RelaySpec, ChannelSpec, Channel!ChannelSpec
=============================================================================
