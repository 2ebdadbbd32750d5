----------------------------- MODULE RateLimit -----------------------------
(***************************************************************************)
(* redis.rateLimit for one scope and key: a counter per fixed window, read *)
(* by INCR, given its TTL by a second command, and judged after both.      *)
(* Calls of several requests interleave at every await.                    *)
(***************************************************************************)
EXTENDS Naturals

CONSTANTS
  Slot,         \* requests in flight
  Limit,        \* max
  WindowLen,    \* windowMs
  MaxPerWindow, \* bound: counted calls of a window
  MaxClock,     \* bound: the clock stops here
  MaxOutages    \* bound: commands that fail to reach Redis

ASSUME RateAssumption ==
  /\ Limit \in Nat \ {0} /\ WindowLen \in Nat \ {0} /\ MaxClock \in Nat
  /\ MaxPerWindow \in Nat /\ MaxOutages \in Nat

VARIABLES
  rlClock,
  rlKeys,     \* rl:{scope}:{key}:{windowStart}, by window: [n, ttl], ttl 0 for none
  rlSlots,    \* the calls
  outages,
  arrived,    \* history: INCRs of each window
  admitted,   \* history: calls let through within their window by a counter
  refused,    \* history: windows with a call refused
  untimed     \* history: windows whose PEXPIRE was lost

rlVars == <<rlClock, rlKeys, rlSlots, outages, arrived, admitted, refused, untimed>>

Windows == 0..(MaxClock \div WindowLen)
NoKey == [n |-> 0, ttl |-> 0]
Free == [pc |-> "free", w |-> 0, n |-> 0]

RateInit ==
  /\ rlClock = 0 /\ rlKeys = [w \in Windows |-> NoKey] /\ rlSlots = [s \in Slot |-> Free]
  /\ outages = 0 /\ arrived = [w \in Windows |-> 0] /\ admitted = [w \in Windows |-> 0]
  /\ refused = {} /\ untimed = {}

KeyOfScope(t) == 0   \* faulty: the key does not name the window

\* windowStart, as the number of the window.
KeyOf(t) == t \div WindowLen

Outage == outages < MaxOutages /\ outages' = outages + 1

\* The call reads the clock and sends INCR.
RateCall(s) ==
  /\ rlSlots[s] = Free /\ arrived[KeyOf(rlClock)] < MaxPerWindow
  /\ rlSlots' = [rlSlots EXCEPT ![s] = [pc |-> "incr", w |-> KeyOf(rlClock), n |-> 0]]
  /\ UNCHANGED <<rlClock, rlKeys, outages, arrived, admitted, refused, untimed>>

RateIncr(s) ==
  LET w == rlSlots[s].w
      k == rlKeys[w].n + 1
  IN  /\ rlSlots[s].pc = "incr"
      /\ rlKeys' = [rlKeys EXCEPT ![w].n = k]
      /\ rlSlots' = [rlSlots EXCEPT ![s].pc = IF k = 1 THEN "expire" ELSE "judge", ![s].n = k]
      /\ arrived' = [arrived EXCEPT ![w] = @ + 1]
      /\ UNCHANGED <<rlClock, outages, admitted, refused, untimed>>

\* INCR gets no answer, executed or not: the call is let through uncounted.
RateDegraded(s) ==
  /\ rlSlots[s].pc = "incr" /\ Outage
  /\ \/ UNCHANGED rlKeys
     \/ rlKeys' = [rlKeys EXCEPT ![rlSlots[s].w].n = @ + 1]
  /\ arrived' = IF rlKeys' = rlKeys THEN arrived ELSE [arrived EXCEPT ![rlSlots[s].w] = @ + 1]
  /\ rlSlots' = [rlSlots EXCEPT ![s] = Free]
  /\ untimed' = IF rlKeys'[rlSlots[s].w].n = 1 /\ rlKeys' # rlKeys THEN untimed \cup {rlSlots[s].w} ELSE untimed
  /\ UNCHANGED <<rlClock, admitted, refused>>

\* PEXPIRE; its failure goes unnoticed.
RateExpire(s) ==
  LET w == rlSlots[s].w
  IN  /\ rlSlots[s].pc = "expire"
      /\ \/ /\ rlKeys' = [rlKeys EXCEPT ![w].ttl = IF rlKeys[w].n = 0 THEN 0 ELSE rlClock + WindowLen]
            /\ UNCHANGED <<outages, untimed>>
         \/ Outage /\ untimed' = untimed \cup {w} /\ UNCHANGED rlKeys
      /\ rlSlots' = [rlSlots EXCEPT ![s].pc = "judge"]
      /\ UNCHANGED <<rlClock, arrived, admitted, refused>>

\* windowStart + windowMs - Date.now(): not positive once the window is over,
\* and callers refuse on a positive delay only.
RetryAfter(w) ==
  IF (w + 1) * WindowLen > rlClock THEN (w + 1) * WindowLen - rlClock ELSE 0

Over(k) == k > Limit

RateJudge(s) ==
  LET w == rlSlots[s].w
  IN  /\ rlSlots[s].pc = "judge"
      /\ IF Over(rlSlots[s].n) /\ RetryAfter(w) > 0
           THEN refused' = refused \cup {w} /\ UNCHANGED admitted
           ELSE /\ admitted' = IF KeyOf(rlClock) = w THEN [admitted EXCEPT ![w] = @ + 1] ELSE admitted
                /\ UNCHANGED refused
      /\ rlSlots' = [rlSlots EXCEPT ![s] = Free]
      /\ UNCHANGED <<rlClock, rlKeys, outages, arrived, untimed>>

\* Redis drops a key at its time.
RateTick ==
  /\ rlClock < MaxClock /\ rlClock' = rlClock + 1
  /\ rlKeys' = [w \in Windows |-> IF rlKeys[w].ttl # 0 /\ rlKeys[w].ttl <= rlClock + 1 THEN NoKey ELSE rlKeys[w]]
  /\ UNCHANGED <<rlSlots, outages, arrived, admitted, refused, untimed>>

RateNext ==
  \/ RateTick
  \/ \E s \in Slot : RateCall(s) \/ RateIncr(s) \/ RateDegraded(s) \/ RateExpire(s) \/ RateJudge(s)

RateSpec == RateInit /\ [][RateNext]_rlVars

-----------------------------------------------------------------------------
\* The limiter is exact inside a window, whatever Redis loses: a call is refused
\* only after Limit others of its window, no more than Limit counted calls pass
\* in time, and a counter that will never expire is one whose PEXPIRE was lost or
\* is still to come.
LimitExact ==
  \A w \in Windows :
    /\ w \in refused => arrived[w] > Limit
    /\ admitted[w] <= Limit
    /\ rlKeys[w].n > 0 /\ rlKeys[w].ttl = 0 =>
         w \in untimed \/ \E s \in Slot : rlSlots[s].pc = "expire" /\ rlSlots[s].w = w
=============================================================================
