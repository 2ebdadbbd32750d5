------------------------------- MODULE Agent -------------------------------
(***************************************************************************)
(* The provider agent (agent/src/main.rs): state, profile, attestation     *)
(* (reused or benchmarked), offer, heartbeats.  Every call goes through    *)
(* the file relay, so it may be executed twice, late, or without the agent *)
(* ever knowing.  The registry is what the agent's flow sees of it; its    *)
(* handlers are the subject of Registration, Attestation and LiveOffers.   *)
(*                                                                         *)
(* Time is counted in days: that is the scale of the challenge quota and   *)
(* of the lives of attestations and offers.                                *)
(***************************************************************************)
EXTENDS Relay

CONSTANTS
  Lanes,        \* lanes of a challenge
  Quota,        \* challenges per day
  AttLife,      \* days an attestation lives
  Margin,       \* days an attestation must still have to be reused
  OfferDays,    \* days an offer lives
  OfferCap,     \* active offers per provider
  MaxDays       \* bound: the clock stops here

ASSUME AgentAssumption ==
  /\ Lanes \in Nat \ {0} /\ Quota \in Nat /\ AttLife \in Nat /\ Margin \in Nat \ {0}
  /\ OfferDays \in Nat /\ OfferCap \in Nat /\ MaxDays \in Nat

VARIABLES
  day,
  prog,       \* the agent's program: where it is and what it knows
  body,       \* what each call asked for
  reply,      \* what the registry last answered to each call
  reg,        \* the registry's state
  effects,    \* history: how often each call changed the registry
  forced,     \* history: runs started with --force-bench
  blind,      \* history: runs whose first GET failed
  wasted      \* history: challenges executed against a reusable attestation

agentVars == <<day, prog, body, reply, reg, effects, forced, blind, wasted>>
allVars == <<relayVars, agentVars>>

NoAtt == [c |-> 0, exp |-> 0]
Att == [c: Nat, exp: Nat]
Challenge == 1..(Quota * (MaxDays + 1))   \* as many as the quota lets be opened
NoBody == [k |-> "none", c |-> 0, l |-> 0, o |-> Nobody]
Body == [k: {"none", "state", "profile", "challenge", "start", "submit", "offer", "terms"},
         c: Nat, l: 0..Lanes, o: Call \cup {Nobody}]
NoReply == [st |-> "none", att |-> NoAtt, c |-> 0]
Fresh == [pc |-> "end", once |-> FALSE, force |-> FALSE, registered |-> FALSE,
          att |-> NoAtt, c |-> 0, l |-> 0, o |-> Nobody]

AgentTypeOK ==
  /\ RelayTypeOK /\ day \in 0..MaxDays
  /\ prog \in [pc: {"state", "profile", "challenge", "fallback", "start", "submit", "offer", "terms", "end"},
               once: BOOLEAN, force: BOOLEAN, registered: BOOLEAN, att: Att,
               c: Nat, l: 0..Lanes, o: Call \cup {Nobody}]
  /\ body \in [Call -> Body]
  /\ reply \in [Call -> [st: {"none", "ok", "stale", "limited", "dead", "error"}, att: Att, c: Nat]]
  /\ reg \in [profile: Nat, used: Nat, issued: Nat, lane: [Challenge -> Nat],
              att: Att, atts: SUBSET Att, offers: SUBSET [id: Call, exp: Nat], seq: [Call -> Nat]]
  /\ effects \in [Call -> Nat] /\ forced \subseteq Run /\ blind \subseteq Run /\ wasted \subseteq Call

AgentInit ==
  /\ RelayInit /\ day = 0 /\ prog = Fresh
  /\ body = [c \in Call |-> NoBody] /\ reply = [c \in Call |-> NoReply]
  /\ reg = [profile |-> 0, used |-> 0, issued |-> 0, lane |-> [c \in Challenge |-> 0],
            att |-> NoAtt, atts |-> {}, offers |-> {}, seq |-> [c \in Call |-> 0]]
  /\ effects = [c \in Call |-> 0] /\ forced = {} /\ blind = {} /\ wasted = {}

-----------------------------------------------------------------------------
(* The registry, as the agent's calls meet it                              *)

\* signedAt and seq are the agent's clock in ms, which grows from call to call.
Stamp(c) == (c[1] - 1) * MaxCalls + c[2]

Says(st) == [NoReply EXCEPT !.st = st]
Refuse(st) == [reply |-> Says(st), reg |-> reg]

ServeState ==
  IF reg.profile = 0 THEN Refuse("error")
  ELSE [reply |-> [Says("ok") EXCEPT !.att = IF reg.att.exp > day THEN reg.att ELSE NoAtt], reg |-> reg]

ServeProfile(c) ==
  IF Stamp(c) > reg.profile
    THEN [reply |-> Says("ok"), reg |-> [reg EXCEPT !.profile = Stamp(c)]]
    ELSE Refuse("stale")

\* Not idempotent: every execution opens a challenge and costs quota.
ServeChallenge ==
  IF reg.profile = 0 THEN Refuse("error")
  ELSE IF reg.used >= Quota THEN Refuse("limited")
  ELSE [reply |-> [Says("ok") EXCEPT !.c = reg.issued + 1],
        reg |-> [reg EXCEPT !.used = @ + 1, !.issued = @ + 1]]

\* The lanes of a challenge start and complete in turn.
ServeStart(b) ==
  IF reg.lane[b.c] = 2 * (b.l - 1)
    THEN [reply |-> Says("ok"), reg |-> [reg EXCEPT !.lane[b.c] = @ + 1]]
    ELSE Refuse("error")

ServeSubmit(b) ==
  LET last == [c |-> b.c, exp |-> day + AttLife]
      done == [reg EXCEPT !.lane[b.c] = @ + 1]
  IN  IF reg.lane[b.c] # 2 * b.l - 1 THEN Refuse("error")
      ELSE IF b.l < Lanes THEN [reply |-> Says("ok"), reg |-> done]
      ELSE [reply |-> [Says("ok") EXCEPT !.att = last],
            reg |-> [done EXCEPT !.att = last, !.atts = @ \cup {last}]]

\* The attestations of a challenge that an offer may still rest on.
Rests(b) == {a \in reg.atts : a.c = b.c /\ a.exp > day}

Sooner(x, y) == IF x < y THEN x ELSE y

ServeOfferAnew(c, b) ==   \* faulty: a repeated submission is a new offer
  IF Rests(b) = {} THEN Refuse("error")
  ELSE [reply |-> Says("ok"),
        reg |-> [reg EXCEPT !.offers = {o \in @ : o.id # c} \cup {[id |-> c, exp |-> day + OfferDays + execs[c]]}]]

Active(o) == o.exp > day

\* An offer names its attestation, which need not be the last one any more.  Its id
\* is the hash of its payload; its expiry is clamped to the attestation's.
ServeOffer(c, b) ==
  IF Rests(b) = {} THEN Refuse("error")
  ELSE IF \E o \in reg.offers : o.id = c THEN Refuse("ok")
  ELSE IF Cardinality({o \in reg.offers : Active(o)}) >= OfferCap THEN Refuse("error")
  ELSE LET exp == Sooner(day + OfferDays, (CHOOSE a \in Rests(b) : TRUE).exp)
       IN  [reply |-> Says("ok"), reg |-> [reg EXCEPT !.offers = @ \cup {[id |-> c, exp |-> exp]}]]

ServeTerms(c, b) ==
  IF ~ \E o \in reg.offers : o.id = b.o /\ Active(o) THEN Refuse("dead")
  ELSE IF Stamp(c) <= reg.seq[b.o] THEN Refuse("error")
  ELSE [reply |-> Says("ok"), reg |-> [reg EXCEPT !.seq[b.o] = Stamp(c)]]

Serve(c) ==
  LET b == body[c]
  IN  CASE b.k = "state" -> ServeState
        [] b.k = "profile" -> ServeProfile(c)
        [] b.k = "challenge" -> ServeChallenge
        [] b.k = "start" -> ServeStart(b)
        [] b.k = "submit" -> ServeSubmit(b)
        [] b.k = "offer" -> ServeOffer(c, b)
        [] b.k = "terms" -> ServeTerms(c, b)

-----------------------------------------------------------------------------
(* run and run_benchmark                                                   *)

\* provider_state: an attestation with less than the margin left is not reused.
Reusable(a) == a # NoAtt /\ a.exp - day >= Margin

End(p) == [p EXCEPT !.pc = "end"]

Repeat(p) == IF p.once THEN End(p) ELSE p

\* run_benchmark: what the agent does with the registry's answer r to a call of it.
RunBenchmark(p, r) ==
  CASE p.pc = "challenge" ->
         IF r.st = "ok" THEN [p EXCEPT !.pc = "start", !.c = r.c, !.l = 1]
         ELSE IF r.st = "limited" THEN [p EXCEPT !.pc = "fallback"] ELSE End(p)
    [] p.pc = "fallback" ->
         IF r.st = "ok" /\ Reusable(r.att) THEN [p EXCEPT !.pc = "offer", !.att = r.att] ELSE End(p)
    [] p.pc = "start" -> IF r.st = "ok" THEN [p EXCEPT !.pc = "submit"] ELSE End(p)
    [] p.pc = "submit" ->
         IF r.st # "ok" THEN End(p)
         ELSE IF p.l < Lanes THEN [p EXCEPT !.pc = "start", !.l = @ + 1]
         ELSE [p EXCEPT !.pc = "offer", !.att = r.att]

\* And to any call.
Proceed(p, r) ==
  CASE p.pc = "state" ->
         [p EXCEPT !.pc = "profile", !.registered = (r.st = "ok"),
                   !.att = IF r.st = "ok" /\ ~ p.force /\ Reusable(r.att) THEN r.att ELSE NoAtt]
    [] p.pc = "profile" ->
         IF r.st \in {"ok", "stale"} \/ (r.st = "limited" /\ p.registered)
           THEN [p EXCEPT !.pc = IF p.att # NoAtt THEN "offer" ELSE "challenge"] ELSE End(p)
    [] p.pc = "offer" -> IF r.st = "ok" THEN [p EXCEPT !.pc = "terms", !.o = This] ELSE End(p)
    [] p.pc = "terms" -> IF r.st = "dead" THEN End(p) ELSE Repeat(p)
    [] OTHER -> RunBenchmark(p, r)

\* A transport failure: fatal, but for the first GET and for heartbeats.
GiveUp(p) ==
  CASE p.pc = "state" -> [p EXCEPT !.pc = "profile", !.registered = FALSE, !.att = NoAtt]
    [] p.pc = "terms" -> Repeat(p)
    [] OTHER -> End(p)

Ask ==
  [k |-> IF prog.pc = "fallback" THEN "state" ELSE prog.pc,
   c |-> IF prog.pc = "offer" THEN prog.att.c ELSE prog.c, l |-> prog.l, o |-> prog.o]

Blinded == blind' = IF prog.pc = "state" THEN blind \cup {run} ELSE blind

AgentIssue ==
  /\ prog.pc # "end" /\ Issue
  /\ body' = [body EXCEPT ![<<run, n + 1>>] = Ask]
  /\ IF agent' = "wait" THEN UNCHANGED <<prog, blind>> ELSE prog' = GiveUp(prog) /\ Blinded
  /\ UNCHANGED <<day, reply, reg, effects, forced, wasted>>

AgentReceive ==
  /\ Receive
  /\ IF outcome'[This] = "ok"
       THEN /\ prog' = Proceed(prog, reply[This])
            /\ IF reply[This].st = "ok" THEN UNCHANGED blind ELSE Blinded
       ELSE prog' = GiveUp(prog) /\ Blinded
  /\ UNCHANGED <<day, body, reply, reg, effects, forced, wasted>>

AgentTimeout ==
  /\ Timeout /\ prog' = GiveUp(prog) /\ Blinded
  /\ UNCHANGED <<day, body, reply, reg, effects, forced, wasted>>

AgentEnds == prog.pc = "end" /\ AgentExit /\ UNCHANGED agentVars

AgentStart ==
  /\ StartAgent
  /\ \E once, force \in BOOLEAN :
       /\ prog' = [Fresh EXCEPT !.pc = "state", !.once = once, !.force = force]
       /\ forced' = IF force THEN forced \cup {run + 1} ELSE forced
  /\ UNCHANGED <<day, body, reply, reg, effects, blind, wasted>>

\* The registry runs the handler.  A profile may also be refused by its rate
\* limit; other refusals end a run just as ForwardFails does.
Executed ==
  /\ Forward
  /\ LET c == cur.req.call
     IN  /\ \/ reply' = [reply EXCEPT ![c] = Serve(c).reply] /\ reg' = Serve(c).reg
            \/ body[c].k = "profile" /\ reply' = [reply EXCEPT ![c] = Says("limited")] /\ UNCHANGED reg
         /\ effects' = IF reg' # reg THEN [effects EXCEPT ![c] = @ + 1] ELSE effects
         /\ wasted' =
              IF body[c].k = "challenge" /\ reg' # reg /\ Reusable(reg.att)
                 /\ execs[c] = 0 /\ c[1] \notin forced \cup blind
              THEN wasted \cup {c} ELSE wasted
  /\ UNCHANGED <<day, prog, body, forced, blind>>

\* A new day: the challenge quota starts over.
NextDay ==
  /\ day < MaxDays /\ day' = day + 1 /\ reg' = [reg EXCEPT !.used = 0]
  /\ UNCHANGED <<relayVars, prog, body, reply, effects, forced, blind, wasted>>

\* Relay steps the program does not see.
HostOnly ==
  \/ Scan \/ Take \/ Hang \/ ForwardFails \/ WriteResp \/ WriteFails \/ Unlink
  \/ Sweep \/ RemoveContainer \/ StartRelay
  \/ Report \/ Lookup \/ DriverExit \/ ManagerExit \/ Interrupt \/ HostCrash

AgentNext ==
  \/ AgentIssue \/ AgentReceive \/ AgentTimeout \/ AgentEnds \/ AgentStart
  \/ Executed \/ NextDay
  \/ HostOnly /\ UNCHANGED agentVars

AgentSpec == AgentInit /\ [][AgentNext]_allVars

-----------------------------------------------------------------------------
\* Whatever the relay repeats, a call changes the registry at most once: a
\* profile, a lane, an offer and a heartbeat forwarded again find their first
\* execution and are refused.  Only a challenge is opened by every execution.
AtMostOneEffect == \A c \in Call : body[c].k # "challenge" => effects[c] <= 1

\* "a crash-looping container must not burn through" the quota: a challenge is
\* executed against an attestation that could be reused only if the run was told
\* to, or its first GET failed, or the relay repeated the call.
ChallengesNotWasted == wasted = {}
=============================================================================
