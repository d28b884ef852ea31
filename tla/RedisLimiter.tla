----------------------------- MODULE RedisLimiter -----------------------------
(***************************************************************************)
(* The Redis limiter: the counters of one key, shared by several gateways. *)
(*                                                                         *)
(* Each gateway names the minute by its own clock; one script on the       *)
(* server compares and counts, and gives the minute's counters TTL seconds *)
(* to live.  The network may lose the answer: the client then sends the    *)
(* call again or gives up and refuses, and a call it has given up may      *)
(* still reach the server.                                                 *)
(*                                                                         *)
(* Every count sets both expiry times, so the minute's two keys are one    *)
(* counter here.  Time is the server's, in seconds.                        *)
(***************************************************************************)
EXTENDS Integers

CONSTANTS
  Callers,      \* goroutines inside Allow, on any gateway
  TokenCounts,  \* tokDelta; reqDelta is always 1
  ReqLimits,    \* maxReq
  TokLimits,    \* maxTok
  Minute,       \* 60 seconds
  TTL,          \* the script's ttl, 65 seconds
  CallTimeout,  \* seconds from reading the clock to an answer that still counts
  MaxSkew,      \* seconds a gateway's clock may be ahead of the server's
  MaxTime,      \* bound on the clock, for TLC
  MaxStray      \* bound on the runs of the script nobody hears of, for TLC

\* A minute's counters outlive every call that can still be charged to it: with
\* 65 seconds, timeouts and the spread of the clocks have 5 seconds to share.
ASSUME RedisAssumption ==
  /\ TokenCounts \subseteq Nat \ {0}
  /\ ReqLimits \subseteq Int /\ TokLimits \subseteq Int
  /\ Minute \in Nat \ {0} /\ CallTimeout \in Nat /\ MaxSkew \in Nat
  /\ TTL \in Nat /\ Minute + CallTimeout + MaxSkew <= TTL
  /\ MaxTime \in Nat /\ MaxStray \in Nat

VARIABLES
  time,     \* the server's clock
  skew,     \* how far ahead of it the clock of each caller's gateway is
  counter,  \* the counters of each minute, with their expiry time
  pc,       \* "idle", "sent", or "gone": given up, but perhaps still on its way
  call,     \* the arguments of each call
  stamp,    \* the minute each call names
  sent,     \* when it read its clock
  granted,  \* history: what was allowed in each minute
  stray     \* history: what the script has counted in each minute unheard

vars == <<time, skew, counter, pc, call, stamp, sent, granted, stray>>

MinuteOf(t) == t \div Minute

Windows == 0 .. MinuteOf(MaxTime + MaxSkew)

Calls == [tok : TokenCounts, maxReq : ReqLimits, maxTok : TokLimits]

NoCall == [tok |-> 0, maxReq |-> 0, maxTok |-> 0]

Zero == [req |-> 0, tok |-> 0]

Plus(total, c) == [total EXCEPT !.req = @ + 1, !.tok = @ + c.tok]

-----------------------------------------------------------------------------
(* The script.  The definitions marked faulty are forms of the one that    *)
(* follows, which the properties must refuse.                              *)

\* neither limit: Allow returns true and asks nobody
Unlimited(c) == c.maxReq <= 0 /\ c.maxTok <= 0

\* faulty: the counters live for one minute
ExpiryAfterMinute(t) == t + Minute

\* faulty: counters are written already expired
ExpiryBefore(t) == t - TTL

\* when counters written at t are gone
Expiry(t) == t + TTL

Live(m) == time < counter[m].expires

\* GET, and 0 for a key that is not there
Found(m) == IF Live(m) THEN [req |-> counter[m].req, tok |-> counter[m].tok] ELSE Zero

Fits(total, c) ==
  /\ c.maxReq > 0 => total.req + 1 <= c.maxReq
  /\ c.maxTok > 0 => total.tok + c.tok <= c.maxTok

\* INCRBY and EXPIRE
Count(m, c) ==
  [counter EXCEPT ![m] = [req |-> Found(m).req + 1, tok |-> Found(m).tok + c.tok,
                          expires |-> Expiry(time)]]

\* faulty: counts first, then compares
CountThenCompare(m, c) == Count(m, c)

\* the counters after the script has run for the call c in the minute m
Script(m, c) == IF Fits(Found(m), c) THEN Count(m, c) ELSE counter

-----------------------------------------------------------------------------
Init ==
  /\ time = 0
  /\ skew \in [Callers -> 0 .. MaxSkew]
  /\ counter = [m \in Windows |-> [req |-> 0, tok |-> 0, expires |-> 0]]
  /\ pc = [w \in Callers |-> "idle"]
  /\ call = [w \in Callers |-> NoCall]
  /\ stamp = [w \in Callers |-> 0]
  /\ sent = [w \in Callers |-> 0]
  /\ granted = [m \in Windows |-> Zero]
  /\ stray = [m \in Windows |-> Zero]

\* Allow up to script.Run
Call(w, c) ==
  /\ pc[w] = "idle"
  /\ ~Unlimited(c)
  /\ pc' = [pc EXCEPT ![w] = "sent"]
  /\ call' = [call EXCEPT ![w] = c]
  /\ stamp' = [stamp EXCEPT ![w] = MinuteOf(time + skew[w])]
  /\ sent' = [sent EXCEPT ![w] = time]
  /\ UNCHANGED <<time, skew, counter, granted, stray>>

Return(w) ==
  /\ pc' = [pc EXCEPT ![w] = "idle"]
  /\ call' = [call EXCEPT ![w] = NoCall]
  /\ stamp' = [stamp EXCEPT ![w] = 0]
  /\ sent' = [sent EXCEPT ![w] = 0]

InTime(w) == pc[w] = "sent" /\ time <= sent[w] + CallTimeout

\* the script runs and its answer, 1, arrives in time
Allowed(w) ==
  /\ InTime(w)
  /\ Fits(Found(stamp[w]), call[w])
  /\ counter' = Script(stamp[w], call[w])
  /\ granted' = [granted EXCEPT ![stamp[w]] = Plus(@, call[w])]
  /\ Return(w)
  /\ UNCHANGED <<time, skew, stray>>

\* the script runs and its answer, 0, arrives in time
Denied(w) ==
  /\ InTime(w)
  /\ ~Fits(Found(stamp[w]), call[w])
  /\ counter' = Script(stamp[w], call[w])
  /\ Return(w)
  /\ UNCHANGED <<time, skew, granted, stray>>

\* the script runs and nobody hears of it: a call sent again, or given up
RunUnheard(w) ==
  LET m == stamp[w]
  IN  /\ pc[w] \in {"sent", "gone"}
      /\ stray[m].req < MaxStray
      /\ Fits(Found(m), call[w])
      /\ counter' = Script(m, call[w])
      /\ stray' = [stray EXCEPT ![m] = Plus(@, call[w])]
      /\ IF pc[w] = "gone" THEN Return(w) ELSE UNCHANGED <<pc, call, stamp, sent>>
      /\ UNCHANGED <<time, skew, granted>>

\* script.Run returns an error: the call is refused, and may still be on its way
GiveUp(w) ==
  /\ pc[w] = "sent"
  /\ pc' = [pc EXCEPT ![w] = "gone"]
  /\ UNCHANGED <<time, skew, counter, call, stamp, sent, granted, stray>>

\* the call that was given up never reaches the server
Lost(w) ==
  /\ pc[w] = "gone"
  /\ Return(w)
  /\ UNCHANGED <<time, skew, counter, granted, stray>>

Tick ==
  /\ time < MaxTime
  /\ time' = time + 1
  /\ UNCHANGED <<skew, counter, pc, call, stamp, sent, granted, stray>>

Next ==
  \/ \E w \in Callers : \/ \E c \in Calls : Call(w, c)
                        \/ Allowed(w)
                        \/ Denied(w)
                        \/ RunUnheard(w)
                        \/ GiveUp(w)
                        \/ Lost(w)
  \/ Tick

Spec == Init /\ [][Next]_vars

-----------------------------------------------------------------------------
Total == [req : Nat, tok : Nat]

\* Type invariant.
TypeOK ==
  /\ time \in 0 .. MaxTime
  /\ skew \in [Callers -> 0 .. MaxSkew]
  /\ counter \in [Windows -> [req : Nat, tok : Nat, expires : Nat]]
  /\ pc \in [Callers -> {"idle", "sent", "gone"}]
  /\ call \in [Callers -> Calls \cup {NoCall}]
  /\ stamp \in [Callers -> Windows]
  /\ sent \in [Callers -> 0 .. MaxTime]
  /\ granted \in [Windows -> Total]
  /\ stray \in [Windows -> Total]

\* The counters explain themselves: whatever is lost, sent again or late, a minute
\* is never charged for more than the calls it allowed and the runs of the script
\* nobody heard of.
NothingElseCounts ==
  \A m \in Windows : /\ Found(m).req <= granted[m].req + stray[m].req
                     /\ Found(m).tok <= granted[m].tok + stray[m].tok

\* The limiter keeps the promise of a window quota, over all gateways and although
\* the counters expire: a call is allowed only if it fits what its minute has left.
Waiting == [w \in Callers |-> IF pc[w] = "gone" THEN NoCall ELSE call[w]]
Q == INSTANCE WindowQuota WITH call <- Waiting
ImplementsQuota == Q!QuotaSpec
=============================================================================
