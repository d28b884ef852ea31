-------------------------- MODULE RedisLimiterProofs --------------------------
(***************************************************************************)
(* Proofs about RedisLimiter, for any gateways, clocks, timeouts and       *)
(* limits that leave the counters of a minute alive long enough.  The      *)
(* argument: whoever counts in a minute read its clock in that minute, so  *)
(* the counters outlive every call that can still be charged to it, and    *)
(* as long as they do they hold at least what was granted.                 *)
(***************************************************************************)
EXTENDS RedisLimiter, TLAPS

\* From here on nothing can be charged to the minute m.
Deadline(m) == Minute * m + Minute + CallTimeout

\* What is on its way to the server.
CallsSound ==
  \A w \in Callers :
    IF pc[w] = "idle" THEN call[w] = NoCall
    ELSE /\ call[w] \in Calls /\ sent[w] <= time
         /\ stamp[w] = MinuteOf(sent[w] + skew[w])

\* Until the deadline of its minute a counter is no less than what was granted, and
\* one that was granted from lives that long.
CounterCovers ==
  \A m \in Windows :
    time < Deadline(m) =>
      /\ granted[m].req <= counter[m].req /\ granted[m].tok <= counter[m].tok
      /\ granted[m] # Zero => Deadline(m) <= counter[m].expires

\* Nor is it ever more than what was granted and what nobody heard of.
CounterExplained ==
  \A m \in Windows : /\ counter[m].req <= granted[m].req + stray[m].req
                     /\ counter[m].tok <= granted[m].tok + stray[m].tok

LimiterInv == TypeOK /\ CallsSound /\ CounterCovers /\ CounterExplained

Counter == [req : Nat, tok : Nat, expires : Nat]

-----------------------------------------------------------------------------
(* Minutes *)

\* A time lies in its minute.
LEMMA MinuteBounds ==
  ASSUME RedisAssumption, NEW t \in Nat
  PROVE  /\ MinuteOf(t) \in Nat /\ Minute * MinuteOf(t) \in Nat
         /\ Minute * MinuteOf(t) <= t /\ t < Minute * MinuteOf(t) + Minute
<1> DEFINE q == t \div Minute
<1>1. Minute \in Nat \ {0}
  BY DEF RedisAssumption
<1>2. /\ q \in Int /\ t = Minute * q + (t % Minute) /\ t % Minute \in 0 .. Minute - 1
      /\ Minute * q \in Int
  BY <1>1
<1>3. q >= 0
  BY <1>1, <1>2
<1>4. q \in Nat /\ Minute * q <= t /\ t < Minute * q + Minute
  BY <1>1, <1>2, <1>3
<1>5. Minute * q \in Nat
  BY <1>1, <1>3, <1>4
<1>6. QED
  BY <1>4, <1>5 DEF MinuteOf

\* Minutes follow each other.
LEMMA MinutesGrow ==
  ASSUME RedisAssumption, NEW t \in Nat, NEW u \in Nat, t <= u
  PROVE  MinuteOf(t) <= MinuteOf(u)
<1> DEFINE q == MinuteOf(t)
           r == MinuteOf(u)
<1>1. /\ q \in Nat /\ r \in Nat /\ Minute \in Nat \ {0}
      /\ Minute * q <= t /\ u < Minute * r + Minute
      /\ Minute * q \in Nat /\ Minute * r \in Nat
  BY MinuteBounds DEF RedisAssumption
<1> HIDE DEF q, r
<1>2. ASSUME q >= r + 1 PROVE FALSE
  <2>1. Minute * q >= Minute * (r + 1) /\ Minute * (r + 1) = Minute * r + Minute
    BY <1>1, <1>2
  <2>2. QED
    BY <1>1, <2>1
<1>3. QED
  BY <1>1, <1>2 DEF q, r

\* The minute a call names is one of those that are counted.
LEMMA StampIsWindow ==
  ASSUME RedisAssumption, NEW t \in 0 .. MaxTime, NEW s \in 0 .. MaxSkew
  PROVE  MinuteOf(t + s) \in Windows
<1>1. /\ t + s \in Nat /\ MaxTime + MaxSkew \in Nat /\ t + s <= MaxTime + MaxSkew
  BY DEF RedisAssumption
<1>2. MinuteOf(t + s) \in Nat /\ MinuteOf(MaxTime + MaxSkew) \in Nat
  BY <1>1, MinuteBounds
<1>3. QED
  BY <1>1, <1>2, MinutesGrow DEF Windows

\* A window is a number, and so is its deadline.
LEMMA WindowsAreNumbers ==
  ASSUME RedisAssumption, NEW m \in Windows
  PROVE  m \in Nat /\ Minute * m \in Nat /\ Deadline(m) \in Nat
<1>1. MaxTime + MaxSkew \in Nat /\ Minute \in Nat /\ CallTimeout \in Nat
  BY DEF RedisAssumption
<1>2. m \in Nat
  BY <1>1, MinuteBounds DEF Windows
<1>3. Minute * m \in Nat
  BY <1>1, <1>2
<1>4. QED
  BY <1>1, <1>2, <1>3 DEF Deadline

\* Where a call stands: what it counts lives until its minute's deadline, and it is
\* answered in time only before.
LEMMA CallMeetsDeadline ==
  ASSUME RedisAssumption, LimiterInv, NEW w \in Callers, pc[w] # "idle"
  PROVE  /\ stamp[w] \in Windows /\ call[w] \in Calls
         /\ Deadline(stamp[w]) <= time + TTL
         /\ InTime(w) => time < Deadline(stamp[w])
<1>1. /\ stamp[w] \in Windows /\ call[w] \in Calls /\ sent[w] \in 0 .. MaxTime
      /\ skew[w] \in 0 .. MaxSkew /\ time \in 0 .. MaxTime /\ sent[w] <= time
      /\ stamp[w] = MinuteOf(sent[w] + skew[w])
  BY DEF LimiterInv, TypeOK, CallsSound
<1>2. /\ TTL \in Nat /\ Minute \in Nat /\ CallTimeout \in Nat /\ MaxSkew \in Nat
      /\ MaxTime \in Nat /\ Minute + CallTimeout + MaxSkew <= TTL
  BY DEF RedisAssumption
<1>3. sent[w] + skew[w] \in Nat
  BY <1>1, <1>2
<1> DEFINE base == Minute * stamp[w]
<1>4. /\ base \in Nat /\ base <= sent[w] + skew[w] /\ sent[w] + skew[w] < base + Minute
  BY <1>1, <1>3, MinuteBounds
<1>5. Deadline(stamp[w]) = base + Minute + CallTimeout
  BY DEF Deadline
<1> HIDE DEF base
<1>6. Deadline(stamp[w]) <= time + TTL
  BY <1>1, <1>2, <1>4, <1>5
<1>7. InTime(w) => time < Deadline(stamp[w])
  BY <1>1, <1>2, <1>4, <1>5 DEF InTime
<1>8. QED
  BY <1>1, <1>6, <1>7

-----------------------------------------------------------------------------
(* The script *)

\* A total and a call make a total.
LEMMA PlusSound ==
  ASSUME NEW total \in Total, NEW c, c.tok \in Nat
  PROVE  Plus(total, c) = [req |-> total.req + 1, tok |-> total.tok + c.tok]
<1> DEFINE r == total.req + 1
           k == total.tok + c.tok
<1>1. Plus(total, c) = [total EXCEPT !.req = r, !.tok = k]
  BY DEF Plus
<1>2. r \in Nat /\ k \in Nat
  BY DEF Total
<1> HIDE DEF r, k
<1> DEFINE new == [total EXCEPT !.req = r, !.tok = k]
<1>3. new \in [req : Nat, tok : Nat] /\ new.req = r /\ new.tok = k
  BY <1>2 DEF Total
<1> HIDE DEF new
<1>4. new = [req |-> r, tok |-> k]
  BY <1>3
<1>5. QED
  BY <1>1, <1>4 DEF r, k, new

\* A call asks for something.
LEMMA CallFields ==
  ASSUME RedisAssumption, NEW c \in Calls
  PROVE  c.tok \in Nat \ {0} /\ c # NoCall
<1>1. c.tok \in TokenCounts /\ TokenCounts \subseteq Nat \ {0}
  BY DEF Calls, RedisAssumption
<1>2. NoCall.tok = 0
  BY DEF NoCall
<1>3. QED
  BY <1>1, <1>2

\* A counter that is found is a counter, or zero when it is gone.
LEMMA FoundSound ==
  ASSUME LimiterInv, NEW m \in Windows
  PROVE  /\ Found(m).req \in Nat /\ Found(m).tok \in Nat
         /\ Found(m).req <= counter[m].req /\ Found(m).tok <= counter[m].tok
         /\ time < counter[m].expires => /\ Found(m).req = counter[m].req
                                         /\ Found(m).tok = counter[m].tok
<1>1. counter[m].req \in Nat /\ counter[m].tok \in Nat
  BY DEF LimiterInv, TypeOK
<1>2. QED
  BY <1>1 DEF Found, Live, Zero

\* Before its deadline the script finds at least what the minute has granted.
LEMMA FoundCovers ==
  ASSUME RedisAssumption, LimiterInv, NEW m \in Windows, time < Deadline(m)
  PROVE  granted[m].req <= Found(m).req /\ granted[m].tok <= Found(m).tok
<1>1. Found(m).req \in Nat /\ Found(m).tok \in Nat
  BY FoundSound
<1>2. CASE granted[m] = Zero
  BY <1>1, <1>2 DEF Zero
<1>3. CASE granted[m] # Zero
  <2>1. /\ time \in Nat /\ Deadline(m) \in Nat /\ counter[m].expires \in Nat
    BY WindowsAreNumbers DEF LimiterInv, TypeOK, RedisAssumption
  <2>2. /\ granted[m].req <= counter[m].req /\ granted[m].tok <= counter[m].tok
        /\ Deadline(m) <= counter[m].expires
    BY <1>3 DEF LimiterInv, CounterCovers
  <2>3. QED
    BY <2>1, <2>2, FoundSound
<1>4. QED
  BY <1>2, <1>3

\* What one run of the script leaves.
LEMMA ScriptSound ==
  ASSUME RedisAssumption, LimiterInv, NEW m \in Windows, NEW c \in Calls,
         Fits(Found(m), c), counter' = Script(m, c)
  PROVE  /\ counter' \in [Windows -> Counter]
         /\ counter'[m] = [req |-> Found(m).req + 1, tok |-> Found(m).tok + c.tok,
                           expires |-> time + TTL]
         /\ \A n \in Windows \ {m} : counter'[n] = counter[n]
<1> DEFINE new == [req |-> Found(m).req + 1, tok |-> Found(m).tok + c.tok,
                   expires |-> time + TTL]
<1>1. c.tok \in Nat /\ time \in Nat /\ TTL \in Nat
  BY CallFields DEF RedisAssumption, LimiterInv, TypeOK
<1>2. new \in Counter
  BY <1>1, FoundSound DEF Counter
<1>3. counter' = [counter EXCEPT ![m] = new]
  BY DEF Script, Count, Expiry
<1> HIDE DEF new
<1>4. counter \in [Windows -> Counter]
  BY DEF LimiterInv, TypeOK, Counter
<1>5. counter'[m] = new
  BY <1>3, <1>4
<1>6. QED
  BY <1>2, <1>3, <1>4, <1>5 DEF new

-----------------------------------------------------------------------------
(* Every action keeps the invariant *)

LEMMA ReturnSound ==
  ASSUME LimiterInv, RedisAssumption, NEW w \in Callers, Return(w), UNCHANGED <<time, skew>>
  PROVE  /\ pc' \in [Callers -> {"idle", "sent", "gone"}]
         /\ call' \in [Callers -> Calls \cup {NoCall}]
         /\ stamp' \in [Callers -> Windows] /\ sent' \in [Callers -> 0 .. MaxTime]
         /\ CallsSound'
<1>1. 0 \in Windows /\ 0 \in 0 .. MaxTime
  <2>1. MaxTime + MaxSkew \in Nat /\ MaxTime \in Nat
    BY DEF RedisAssumption
  <2>2. MinuteOf(MaxTime + MaxSkew) \in Nat
    BY <2>1, MinuteBounds
  <2>3. QED
    BY <2>1, <2>2 DEF Windows
<1>2. /\ pc' \in [Callers -> {"idle", "sent", "gone"}]
      /\ call' \in [Callers -> Calls \cup {NoCall}]
      /\ stamp' \in [Callers -> Windows] /\ sent' \in [Callers -> 0 .. MaxTime]
  BY <1>1 DEF Return, LimiterInv, TypeOK
<1>3. CallsSound'
  <2> SUFFICES ASSUME NEW u \in Callers
               PROVE  IF pc'[u] = "idle" THEN call'[u] = NoCall
                      ELSE /\ call'[u] \in Calls /\ sent'[u] <= time'
                           /\ stamp'[u] = MinuteOf(sent'[u] + skew'[u])
    BY DEF CallsSound, MinuteOf, Calls, NoCall
  <2>1. CASE u = w
    BY <2>1 DEF Return, LimiterInv, TypeOK
  <2>2. CASE u # w
    <3>1. pc'[u] = pc[u] /\ call'[u] = call[u] /\ stamp'[u] = stamp[u] /\ sent'[u] = sent[u]
      BY <2>2 DEF Return, LimiterInv, TypeOK
    <3>2. QED
      BY <3>1 DEF LimiterInv, CallsSound
  <2>3. QED
    BY <2>1, <2>2
<1>4. QED
  BY <1>2, <1>3

\* A run of the script, with its answer heard or not.
LEMMA RunKeepsCounter ==
  ASSUME RedisAssumption, LimiterInv, NEW w \in Callers, pc[w] # "idle",
         Fits(Found(stamp[w]), call[w]), counter' = Script(stamp[w], call[w]),
         UNCHANGED time,
         \/ /\ InTime(w) /\ stray' = stray
            /\ granted' = [granted EXCEPT ![stamp[w]] = Plus(@, call[w])]
         \/ /\ granted' = granted
            /\ stray' = [stray EXCEPT ![stamp[w]] = Plus(@, call[w])]
  PROVE  /\ counter' \in [Windows -> Counter]
         /\ granted' \in [Windows -> Total] /\ stray' \in [Windows -> Total]
         /\ CounterCovers' /\ CounterExplained'
<1> DEFINE m == stamp[w]
           tok == call[w].tok
<1>1. m \in Windows /\ call[w] \in Calls /\ Deadline(m) <= time + TTL
  BY CallMeetsDeadline
<1>2. tok \in Nat
  BY <1>1, CallFields
<1>3. /\ counter' \in [Windows -> Counter]
      /\ counter'[m].req = Found(m).req + 1 /\ counter'[m].tok = Found(m).tok + tok
      /\ counter'[m].expires = time + TTL
      /\ \A n \in Windows \ {m} : counter'[n] = counter[n]
  <2>1. Fits(Found(m), call[w]) /\ counter' = Script(m, call[w])
    OBVIOUS
  <2> HIDE DEF m
  <2>2. /\ counter' \in [Windows -> Counter]
        /\ counter'[m] = [req |-> Found(m).req + 1, tok |-> Found(m).tok + tok,
                          expires |-> time + TTL]
        /\ \A n \in Windows \ {m} : counter'[n] = counter[n]
    BY <1>1, <2>1, ScriptSound
  <2>3. QED
    BY <2>2
<1>4. /\ granted \in [Windows -> Total] /\ stray \in [Windows -> Total]
      /\ time \in Nat /\ TTL \in Nat
  BY DEF LimiterInv, TypeOK, RedisAssumption
<1>5. /\ granted[m].req \in Nat /\ granted[m].tok \in Nat
      /\ stray[m].req \in Nat /\ stray[m].tok \in Nat
  BY <1>1, <1>4 DEF Total
<1>6. ASSUME NEW f \in [Windows -> Total]
      PROVE  /\ Plus(f[m], call[w]) \in Total
             /\ Plus(f[m], call[w]).req = f[m].req + 1
             /\ Plus(f[m], call[w]).tok = f[m].tok + tok
  <2> HIDE DEF m
  <2>1. f[m] \in [req : Nat, tok : Nat]
    BY <1>1 DEF Total
  <2>2. QED
    <3>1. Plus(f[m], call[w]) = [req |-> f[m].req + 1, tok |-> f[m].tok + tok]
      BY <1>2, <2>1, PlusSound DEF Total
    <3>2. f[m].req + 1 \in Nat /\ f[m].tok + tok \in Nat
      BY <1>2, <2>1
    <3>3. QED
      BY <3>1, <3>2 DEF Total
<1>7. /\ granted' \in [Windows -> Total] /\ stray' \in [Windows -> Total]
      /\ \A n \in Windows \ {m} : granted'[n] = granted[n] /\ stray'[n] = stray[n]
  BY <1>1, <1>4, <1>6
<1>8. \/ /\ InTime(w)
         /\ granted'[m].req = granted[m].req + 1 /\ granted'[m].tok = granted[m].tok + tok
         /\ stray'[m].req = stray[m].req /\ stray'[m].tok = stray[m].tok
      \/ /\ granted'[m].req = granted[m].req /\ granted'[m].tok = granted[m].tok
         /\ stray'[m].req = stray[m].req + 1 /\ stray'[m].tok = stray[m].tok + tok
  BY <1>1, <1>4, <1>6
<1>9. Found(m).req \in Nat /\ Found(m).tok \in Nat
  BY <1>1, FoundSound
<1> HIDE DEF m, tok
<1>10. CounterCovers'
  <2> SUFFICES ASSUME NEW n \in Windows, time < Deadline(n)
               PROVE  /\ granted'[n].req <= counter'[n].req
                      /\ granted'[n].tok <= counter'[n].tok
                      /\ granted'[n] # Zero => Deadline(n) <= counter'[n].expires
    BY DEF CounterCovers, Deadline, Zero
  <2>1. CASE n = m
    <3>1. granted[m].req <= Found(m).req /\ granted[m].tok <= Found(m).tok
      BY <1>1, <2>1, FoundCovers
    <3>2. granted'[m].req <= counter'[m].req /\ granted'[m].tok <= counter'[m].tok
      BY <1>2, <1>3, <1>5, <1>8, <1>9, <3>1
    <3>3. QED
      BY <1>1, <1>3, <2>1, <3>2
  <2>2. CASE n # m
    BY <1>3, <1>7, <2>2 DEF LimiterInv, CounterCovers
  <2>3. QED
    BY <2>1, <2>2
<1>11. CounterExplained'
  <2> SUFFICES ASSUME NEW n \in Windows
               PROVE  /\ counter'[n].req <= granted'[n].req + stray'[n].req
                      /\ counter'[n].tok <= granted'[n].tok + stray'[n].tok
    BY DEF CounterExplained
  <2>1. CASE n = m
    <3>1. /\ Found(m).req <= counter[m].req /\ Found(m).tok <= counter[m].tok
          /\ counter[m].req <= granted[m].req + stray[m].req
          /\ counter[m].tok <= granted[m].tok + stray[m].tok
          /\ counter[m].req \in Nat /\ counter[m].tok \in Nat
      BY <1>1, FoundSound DEF LimiterInv, CounterExplained, TypeOK
    <3>2. /\ Found(m).req + 1 <= granted'[m].req + stray'[m].req
          /\ Found(m).tok + tok <= granted'[m].tok + stray'[m].tok
      BY <1>2, <1>5, <1>8, <1>9, <3>1
    <3>3. QED
      BY <1>3, <2>1, <3>2
  <2>2. CASE n # m
    BY <1>3, <1>7, <2>2 DEF LimiterInv, CounterExplained
  <2>3. QED
    BY <2>1, <2>2
<1>12. QED
  BY <1>3, <1>7, <1>10, <1>11

\* What the invariant says of calls and counters when neither is touched.
LEMMA SameCounters ==
  ASSUME LimiterInv, UNCHANGED <<time, counter, granted, stray>>
  PROVE  /\ counter' \in [Windows -> Counter]
         /\ granted' \in [Windows -> Total] /\ stray' \in [Windows -> Total]
         /\ CounterCovers' /\ CounterExplained'
  BY DEF LimiterInv, TypeOK, Counter, CounterCovers, CounterExplained, Deadline, Zero

LEMMA CallKeepsInv ==
  ASSUME RedisAssumption, LimiterInv, NEW w \in Callers, NEW c \in Calls, Call(w, c)
  PROVE  LimiterInv'
<1>1. /\ time \in 0 .. MaxTime /\ skew[w] \in 0 .. MaxSkew
      /\ MinuteOf(time + skew[w]) \in Windows
  BY StampIsWindow DEF LimiterInv, TypeOK
<1>2. TypeOK'
  BY <1>1 DEF Call, LimiterInv, TypeOK
<1>3. CallsSound'
  <2> SUFFICES ASSUME NEW u \in Callers
               PROVE  IF pc'[u] = "idle" THEN call'[u] = NoCall
                      ELSE /\ call'[u] \in Calls /\ sent'[u] <= time'
                           /\ stamp'[u] = MinuteOf(sent'[u] + skew'[u])
    BY DEF CallsSound, MinuteOf, Calls, NoCall
  <2>1. CASE u = w
    <3>1. /\ pc'[u] = "sent" /\ call'[u] = c /\ sent'[u] = time /\ time' = time
          /\ stamp'[u] = MinuteOf(time + skew[w]) /\ skew' = skew
      BY <2>1 DEF Call, LimiterInv, TypeOK
    <3>2. time <= time
      BY <1>1 DEF RedisAssumption
    <3>3. QED
      BY <2>1, <3>1, <3>2
  <2>2. CASE u # w
    <3>1. /\ pc'[u] = pc[u] /\ call'[u] = call[u] /\ stamp'[u] = stamp[u]
          /\ sent'[u] = sent[u] /\ time' = time /\ skew' = skew
      BY <2>2 DEF Call, LimiterInv, TypeOK
    <3>2. QED
      BY <3>1 DEF LimiterInv, CallsSound
  <2>3. QED
    BY <2>1, <2>2
<1>4. CounterCovers' /\ CounterExplained'
  BY SameCounters DEF Call
<1>5. QED
  BY <1>2, <1>3, <1>4 DEF LimiterInv

\* A call that is answered, given up or gone, whatever became of the counters.
LEMMA AnswerKeepsInv ==
  ASSUME RedisAssumption, LimiterInv, NEW w \in Callers,
         Return(w) \/ UNCHANGED <<pc, call, stamp, sent>>, UNCHANGED <<time, skew>>,
         counter' \in [Windows -> Counter],
         granted' \in [Windows -> Total], stray' \in [Windows -> Total],
         CounterCovers', CounterExplained'
  PROVE  LimiterInv'
<1>1. /\ pc' \in [Callers -> {"idle", "sent", "gone"}]
      /\ call' \in [Callers -> Calls \cup {NoCall}]
      /\ stamp' \in [Callers -> Windows] /\ sent' \in [Callers -> 0 .. MaxTime]
      /\ CallsSound'
  <2>1. CASE Return(w)
    BY <2>1, ReturnSound
  <2>2. CASE UNCHANGED <<pc, call, stamp, sent>>
    BY <2>2 DEF LimiterInv, TypeOK, CallsSound
  <2>3. QED
    BY <2>1, <2>2
<1>2. TypeOK'
  BY <1>1 DEF LimiterInv, TypeOK, Counter
<1>3. QED
  BY <1>1, <1>2 DEF LimiterInv

LEMMA AllowedKeepsInv ==
  ASSUME RedisAssumption, LimiterInv, NEW w \in Callers, Allowed(w)
  PROVE  LimiterInv'
<1>1. /\ pc[w] # "idle" /\ InTime(w) /\ Fits(Found(stamp[w]), call[w])
      /\ counter' = Script(stamp[w], call[w]) /\ UNCHANGED <<time, skew, stray>>
      /\ granted' = [granted EXCEPT ![stamp[w]] = Plus(@, call[w])] /\ Return(w)
  BY DEF Allowed, InTime
<1>2. /\ counter' \in [Windows -> Counter]
      /\ granted' \in [Windows -> Total] /\ stray' \in [Windows -> Total]
      /\ CounterCovers' /\ CounterExplained'
  BY <1>1, RunKeepsCounter
<1>3. QED
  BY <1>1, <1>2, AnswerKeepsInv

LEMMA UnheardKeepsInv ==
  ASSUME RedisAssumption, LimiterInv, NEW w \in Callers, RunUnheard(w)
  PROVE  LimiterInv'
<1>1. /\ pc[w] # "idle" /\ Fits(Found(stamp[w]), call[w])
      /\ counter' = Script(stamp[w], call[w]) /\ UNCHANGED <<time, skew, granted>>
      /\ stray' = [stray EXCEPT ![stamp[w]] = Plus(@, call[w])]
      /\ Return(w) \/ UNCHANGED <<pc, call, stamp, sent>>
  BY DEF RunUnheard
<1>2. /\ counter' \in [Windows -> Counter]
      /\ granted' \in [Windows -> Total] /\ stray' \in [Windows -> Total]
      /\ CounterCovers' /\ CounterExplained'
  BY <1>1, RunKeepsCounter
<1>3. QED
  BY <1>1, <1>2, AnswerKeepsInv

\* A denied call leaves the counters, and so does one that never arrives.
LEMMA DeniedKeepsInv ==
  ASSUME RedisAssumption, LimiterInv, NEW w \in Callers, Denied(w) \/ Lost(w)
  PROVE  LimiterInv'
<1>1. Return(w) /\ UNCHANGED <<time, skew, counter, granted, stray>>
  BY DEF Denied, Lost, Script
<1>2. QED
  BY <1>1, SameCounters, AnswerKeepsInv

LEMMA GiveUpKeepsInv ==
  ASSUME LimiterInv, NEW w \in Callers, GiveUp(w)
  PROVE  LimiterInv'
<1>1. /\ pc' = [pc EXCEPT ![w] = "gone"] /\ pc[w] = "sent"
      /\ UNCHANGED <<time, skew, counter, call, stamp, sent, granted, stray>>
  BY DEF GiveUp
<1>2. TypeOK'
  BY <1>1 DEF LimiterInv, TypeOK
<1>3. \A u \in Callers : pc'[u] = "idle" <=> pc[u] = "idle"
  BY <1>1 DEF LimiterInv, TypeOK
<1>4. CallsSound'
  BY <1>1, <1>3 DEF LimiterInv, CallsSound
<1>5. CounterCovers' /\ CounterExplained'
  BY <1>1, SameCounters
<1>6. QED
  BY <1>2, <1>4, <1>5 DEF LimiterInv

\* Time passes.
LEMMA TickKeepsInv ==
  ASSUME RedisAssumption, LimiterInv, Tick
  PROVE  LimiterInv'
<1>1. /\ time' = time + 1 /\ time \in Nat /\ time < MaxTime /\ MaxTime \in Nat
      /\ UNCHANGED <<skew, counter, pc, call, stamp, sent, granted, stray>>
  BY DEF Tick, LimiterInv, TypeOK, RedisAssumption
<1>2. TypeOK'
  BY <1>1 DEF LimiterInv, TypeOK
<1>3. \A u \in Callers : sent[u] \in Nat
  BY <1>1 DEF LimiterInv, TypeOK
<1>4. CallsSound'
  BY <1>1, <1>3 DEF LimiterInv, CallsSound
<1>5. CounterCovers'
  <2>1. ASSUME NEW m \in Windows, time' < Deadline(m) PROVE time < Deadline(m)
    BY <1>1, <2>1, WindowsAreNumbers
  <2>2. \A m : Deadline(m)' = Deadline(m)
    BY DEF Deadline
  <2>3. QED
    BY <1>1, <2>1, <2>2 DEF LimiterInv, CounterCovers
<1>6. CounterExplained'
  BY <1>1 DEF LimiterInv, CounterExplained
<1>7. QED
  BY <1>2, <1>4, <1>5, <1>6 DEF LimiterInv

LEMMA InitInv ==
  ASSUME RedisAssumption, Init
  PROVE  LimiterInv
<1>1. /\ 0 \in 0 .. MaxTime /\ 0 \in Windows
  <2>1. MaxTime + MaxSkew \in Nat /\ MaxTime \in Nat
    BY DEF RedisAssumption
  <2>2. MinuteOf(MaxTime + MaxSkew) \in Nat
    BY <2>1, MinuteBounds
  <2>3. QED
    BY <2>1, <2>2 DEF Windows
<1>2. Zero \in Total /\ Zero.req = 0 /\ Zero.tok = 0
  BY DEF Zero, Total
<1>3. TypeOK
  BY <1>1, <1>2 DEF Init, TypeOK
<1>4. CallsSound
  BY DEF Init, CallsSound
<1>5. CounterCovers /\ CounterExplained
  BY <1>2 DEF Init, CounterCovers, CounterExplained
<1>6. QED
  BY <1>3, <1>4, <1>5 DEF LimiterInv

-----------------------------------------------------------------------------
\* Every reachable state of the Redis limiter satisfies the inductive invariant: until
\* a minute can no longer be charged its counters live and hold what was granted.
THEOREM InductiveInvariant == Spec => []LimiterInv
<1>1. Init => LimiterInv
  BY RedisAssumption, InitInv
<1>2. LimiterInv /\ [Next]_vars => LimiterInv'
  <2> SUFFICES ASSUME LimiterInv, [Next]_vars PROVE LimiterInv'
    OBVIOUS
  <2>1. ASSUME NEW w \in Callers, NEW c \in Calls, Call(w, c) PROVE LimiterInv'
    BY <2>1, RedisAssumption, CallKeepsInv
  <2>2. ASSUME NEW w \in Callers, Allowed(w) PROVE LimiterInv'
    BY <2>2, RedisAssumption, AllowedKeepsInv
  <2>3. ASSUME NEW w \in Callers, Denied(w) \/ Lost(w) PROVE LimiterInv'
    BY <2>3, RedisAssumption, DeniedKeepsInv
  <2>4. ASSUME NEW w \in Callers, RunUnheard(w) PROVE LimiterInv'
    BY <2>4, RedisAssumption, UnheardKeepsInv
  <2>5. ASSUME NEW w \in Callers, GiveUp(w) PROVE LimiterInv'
    BY <2>5, GiveUpKeepsInv
  <2>6. CASE Tick
    BY <2>6, RedisAssumption, TickKeepsInv
  <2>7. CASE UNCHANGED vars
    BY <2>7 DEF vars, LimiterInv, TypeOK, CallsSound, CounterCovers, CounterExplained,
                Deadline
  <2>8. QED
    BY <2>1, <2>2, <2>3, <2>4, <2>5, <2>6, <2>7 DEF Next
<1>3. QED
  BY <1>1, <1>2, PTL DEF Spec

\* The types of the counters, the calls and the clocks.
THEOREM TypeCorrect == Spec => []TypeOK
  BY InductiveInvariant, PTL DEF LimiterInv

\* A minute is never charged for more than the calls it allowed and the runs of the
\* script nobody heard of.
THEOREM NothingElseCountsHolds == Spec => []NothingElseCounts
<1>1. ASSUME LimiterInv PROVE NothingElseCounts
  <2> SUFFICES ASSUME NEW m \in Windows
               PROVE  /\ Found(m).req <= granted[m].req + stray[m].req
                      /\ Found(m).tok <= granted[m].tok + stray[m].tok
    BY DEF NothingElseCounts
  <2>1. /\ counter[m].req \in Nat /\ counter[m].tok \in Nat
        /\ granted[m].req \in Nat /\ granted[m].tok \in Nat
        /\ stray[m].req \in Nat /\ stray[m].tok \in Nat
    BY <1>1 DEF LimiterInv, TypeOK, Total
  <2>2. /\ counter[m].req <= granted[m].req + stray[m].req
        /\ counter[m].tok <= granted[m].tok + stray[m].tok
    BY <1>1 DEF LimiterInv, CounterExplained
  <2>3. QED
    BY <1>1, <2>1, <2>2, FoundSound
<1>2. QED
  BY <1>1, InductiveInvariant, PTL

-----------------------------------------------------------------------------
\* One step of the limiter is a step of the quota, or none.
LEMMA StepIsAnswer ==
  ASSUME LimiterInv, [Next]_vars
  PROVE  [Q!Answer]_<<Waiting, granted>>
<1> USE RedisAssumption
<1>1. ASSUME NEW w \in Callers, NEW c \in Calls, Call(w, c) PROVE Q!Answer
  <2>1. Waiting[w] = Q!NoCall
    BY <1>1 DEF Call, Waiting, LimiterInv, CallsSound, NoCall, Q!NoCall
  <2>2. Waiting' = [Waiting EXCEPT ![w] = c]
    BY <1>1 DEF Call, Waiting, LimiterInv, TypeOK
  <2>3. Q!Ask(w, c)
    BY <1>1, <2>1, <2>2 DEF Call, Q!Ask
  <2>4. QED
    BY <2>3 DEF Q!Answer, Calls, Q!Calls
<1>2. ASSUME NEW w \in Callers, Allowed(w) PROVE Q!Answer
  <2> DEFINE m == stamp[w]
  <2>1. pc[w] = "sent" /\ InTime(w)
    BY <1>2 DEF Allowed, InTime
  <2>2. m \in Windows /\ call[w] \in Calls /\ time < Deadline(m)
    BY <2>1, CallMeetsDeadline
  <2>3. Waiting[w] = call[w] /\ call[w] # Q!NoCall
    BY <2>1, <2>2, CallFields DEF Waiting, NoCall, Q!NoCall
  <2>4. Waiting' = [Waiting EXCEPT ![w] = Q!NoCall]
    BY <1>2 DEF Allowed, Return, Waiting, LimiterInv, TypeOK, NoCall, Q!NoCall
  <2>5. Q!Fits(granted[m], call[w])
    <3>1. /\ granted[m].req <= Found(m).req /\ granted[m].tok <= Found(m).tok
      BY <2>2, FoundCovers
    <3>2. /\ granted[m].req \in Nat /\ granted[m].tok \in Nat
          /\ Found(m).req \in Nat /\ Found(m).tok \in Nat
      BY <2>2, FoundSound DEF LimiterInv, TypeOK, Total
    <3>3. call[w].tok \in Nat /\ call[w].maxReq \in Int /\ call[w].maxTok \in Int
      BY <2>2, CallFields DEF Calls, RedisAssumption
    <3>4. Fits(Found(m), call[w])
      BY <1>2 DEF Allowed
    <3> HIDE DEF m
    <3>5. QED
      BY <3>1, <3>2, <3>3, <3>4 DEF Fits, Q!Fits
  <2>6. granted' = [granted EXCEPT ![m] = [req |-> @.req + 1, tok |-> @.tok + call[w].tok]]
    <3>1. granted[m] \in [req : Nat, tok : Nat]
      BY <2>2 DEF LimiterInv, TypeOK, Total
    <3>2. Plus(granted[m], call[w])
            = [req |-> granted[m].req + 1, tok |-> granted[m].tok + call[w].tok]
      BY <2>2, <3>1, CallFields, PlusSound DEF Total
    <3>3. granted' = [granted EXCEPT ![m] = Plus(granted[m], call[w])]
      BY <1>2 DEF Allowed
    <3>4. QED
      BY <3>2, <3>3
  <2> HIDE DEF m
  <2>7. Q!Grant(w, m)
    BY <2>3, <2>4, <2>5, <2>6 DEF Q!Grant
  <2>8. QED
    BY <2>2, <2>7 DEF Q!Answer
<1>3. ASSUME NEW w \in Callers, Denied(w) \/ GiveUp(w) PROVE Q!Answer
  <2>1. Waiting' = [u \in Callers |-> IF u \in {w} THEN Q!NoCall ELSE Waiting[u]]
    BY <1>3 DEF Denied, GiveUp, Return, Waiting, LimiterInv, TypeOK, NoCall, Q!NoCall
  <2>2. granted' = granted
    BY <1>3 DEF Denied, GiveUp
  <2>3. Q!Refuse({w})
    BY <2>1, <2>2 DEF Q!Refuse
  <2>4. QED
    BY <2>3 DEF Q!Answer
<1>4. ASSUME NEW w \in Callers, RunUnheard(w) \/ Lost(w)
      PROVE  UNCHANGED <<Waiting, granted>>
  <2>1. CASE UNCHANGED <<pc, call>>
    BY <1>4, <2>1 DEF Waiting, RunUnheard, Lost
  <2>2. CASE pc[w] = "gone" /\ Return(w)
    <3>1. Waiting' = Waiting
      BY <2>2 DEF Return, Waiting, LimiterInv, TypeOK
    <3>2. QED
      BY <1>4, <3>1 DEF RunUnheard, Lost
  <2>3. QED
    BY <1>4, <2>1, <2>2 DEF RunUnheard, Lost
<1>5. CASE Tick \/ UNCHANGED vars
  BY <1>5 DEF Tick, vars, Waiting
<1>6. QED
  BY <1>1, <1>2, <1>3, <1>4, <1>5 DEF Next


\* Over all gateways, and although the counters expire, the limiter grants and refuses
\* as a window quota does.
THEOREM RedisImplementsQuota == Spec => ImplementsQuota
<1> USE RedisAssumption
<1>1. ASSUME Init
      PROVE  /\ Waiting = [w \in Callers |-> Q!NoCall]
             /\ granted = [m \in Windows |-> [req |-> 0, tok |-> 0]]
  BY <1>1 DEF Init, Waiting, Zero, NoCall, Q!NoCall
<1>2. LimiterInv /\ [Next]_vars => [Q!Answer]_<<Waiting, granted>>
  BY StepIsAnswer
<1>3. QED
  BY InductiveInvariant, <1>1, <1>2, PTL DEF Spec, ImplementsQuota, Q!QuotaSpec

\* What one step does to a window: nothing, or the charge of one call that fits.
LEMMA StepCharges ==
  ASSUME LimiterInv, [Next]_vars, NEW m \in Windows
  PROVE  \/ granted'[m] = granted[m]
         \/ \E c \in Calls : /\ Q!Fits(granted[m], c)
                            /\ granted'[m].req = granted[m].req + 1
                            /\ granted'[m].tok = granted[m].tok + c.tok
<1>1. granted \in [Windows -> [req : Nat, tok : Nat]]
  BY DEF LimiterInv, TypeOK, Total
<1>2. CASE granted' = granted
  BY <1>2
<1>3. ASSUME NEW w \in Callers, NEW k \in Windows, Q!Grant(w, k)
      PROVE  \/ granted'[m] = granted[m]
             \/ \E c \in Calls : /\ Q!Fits(granted[m], c)
                                /\ granted'[m].req = granted[m].req + 1
                                /\ granted'[m].tok = granted[m].tok + c.tok
  <2> DEFINE new == [req |-> granted[k].req + 1, tok |-> granted[k].tok + Waiting[w].tok]
  <2>1. /\ Waiting[w] \in Calls /\ Q!Fits(granted[k], Waiting[w])
        /\ granted' = [granted EXCEPT ![k] = new]
    BY <1>3 DEF Q!Grant, Q!NoCall, NoCall, LimiterInv, TypeOK, Waiting
  <2>2. new.req = granted[k].req + 1 /\ new.tok = granted[k].tok + Waiting[w].tok
    OBVIOUS
  <2> HIDE DEF new
  <2>3. granted'[m] = IF m = k THEN new ELSE granted[m]
    BY <1>1, <2>1
  <2>4. QED
    BY <2>1, <2>2, <2>3
<1>4. QED
  BY <1>2, <1>3, StepIsAnswer DEF Q!Answer, Q!Ask, Q!Refuse

\* What an operator relies on who gives every tenant a limit of at most n requests a
\* minute: no number of gateways, no lost or repeated call and no expiry of the counters
\* lets more than n requests through in a minute.
THEOREM RequestsBounded ==
  ASSUME NEW n \in Nat, ReqLimits \subseteq 1 .. n
  PROVE  Spec => [](\A m \in Windows : granted[m].req <= n)
<1> DEFINE Within == \A m \in Windows : granted[m].req <= n
<1>1. Init => Within
  BY DEF Init, Zero
<1>2. ASSUME LimiterInv, [Next]_vars, Within PROVE Within'
  <2> SUFFICES ASSUME NEW m \in Windows PROVE granted'[m].req <= n
    OBVIOUS
  <2>1. ASSUME NEW c \in Calls, Q!Fits(granted[m], c) PROVE granted[m].req + 1 <= n
    <3>1. c.maxReq \in 1 .. n /\ granted[m].req \in Nat
      BY <1>2 DEF Calls, LimiterInv, TypeOK, Total
    <3>2. granted[m].req + 1 <= c.maxReq
      BY <2>1, <3>1 DEF Q!Fits
    <3>3. QED
      BY <3>1, <3>2
  <2>2. QED
    BY <1>2, <2>1, StepCharges
<1>3. QED
  BY <1>1, <1>2, InductiveInvariant, PTL DEF Spec

\* The same of tokens: with token limits of at most n no minute is charged for more.
THEOREM TokensBounded ==
  ASSUME NEW n \in Nat, TokLimits \subseteq 1 .. n
  PROVE  Spec => [](\A m \in Windows : granted[m].tok <= n)
<1> DEFINE Within == \A m \in Windows : granted[m].tok <= n
<1>1. Init => Within
  BY DEF Init, Zero
<1>2. ASSUME LimiterInv, [Next]_vars, Within PROVE Within'
  <2> SUFFICES ASSUME NEW m \in Windows PROVE granted'[m].tok <= n
    OBVIOUS
  <2>1. ASSUME NEW c \in Calls, Q!Fits(granted[m], c) PROVE granted[m].tok + c.tok <= n
    <3>1. c.maxTok \in 1 .. n /\ granted[m].tok \in Nat /\ c.tok \in Nat
      BY <1>2, CallFields, RedisAssumption DEF Calls, LimiterInv, TypeOK, Total, RedisAssumption
    <3>2. granted[m].tok + c.tok <= c.maxTok
      BY <2>1, <3>1 DEF Q!Fits
    <3>3. QED
      BY <3>1, <3>2
  <2>2. QED
    BY <1>2, <2>1, StepCharges
<1>3. QED
  BY <1>1, <1>2, InductiveInvariant, PTL DEF Spec
=============================================================================
