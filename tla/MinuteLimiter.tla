---------------------------- MODULE MinuteLimiter ----------------------------
(***************************************************************************)
(* The in-memory limiter: one bucket per key, shared by every request.     *)
(*                                                                         *)
(* Allow reads the clock before it takes the mutex, so a call can reach    *)
(* the bucket with a minute that is over, and the wall clock can be set    *)
(* back.  The bucket is lost with the process.  Buckets of different keys  *)
(* share nothing: this is the bucket of one user or one provider key.      *)
(***************************************************************************)
EXTENDS Integers

CONSTANTS
  Callers,      \* goroutines inside Allow
  TokenCounts,  \* tokDelta; reqDelta is always 1
  ReqLimits,    \* maxReq
  TokLimits,    \* maxTok
  MaxMinute,    \* bound on the clock, for TLC
  MaxRuns,      \* bound on the process's runs, for TLC
  ClockMayStepBack

ASSUME LimiterAssumption ==
  /\ TokenCounts \subseteq Nat \ {0}
  /\ ReqLimits \subseteq Int /\ TokLimits \subseteq Int
  /\ MaxMinute \in Nat /\ MaxRuns \in Nat \ {0}
  /\ ClockMayStepBack \in BOOLEAN

VARIABLES
  minute,   \* the wall clock, in minutes
  bucket,   \* the minuteBucket, if any
  pc,       \* "idle", or "lock": the clock is read, the mutex is not held
  call,     \* the arguments of each call
  stamp,    \* the minute each call has read
  run,      \* which run of the process this is
  granted   \* history: what was allowed in each minute of each run

vars == <<minute, bucket, pc, call, stamp, run, granted>>

Minutes == 0 .. MaxMinute
Windows == (1 .. MaxRuns) \X Minutes

Calls == [tok : TokenCounts, maxReq : ReqLimits, maxTok : TokLimits]

\* what a goroutine outside Allow holds
NoCall == [tok |-> 0, maxReq |-> 0, maxTok |-> 0]

NoBucket == [start |-> -1, req |-> 0, tok |-> 0]

-----------------------------------------------------------------------------
(* Faulty forms of the definitions below, which the properties must refuse. *)

\* any minute but the bucket's own starts a new one
ResetOnAnyChange(b, now) ==
  IF b.start # now THEN [start |-> now, req |-> 0, tok |-> 0] ELSE b

\* the new bucket keeps the old counts
KeepCounts(b, now) ==
  IF b.start < now THEN [b EXCEPT !.start = now] ELSE b

\* the counts are what is left, not what is used
CountDown(b, c) == [b EXCEPT !.req = @ - 1, !.tok = @ - c.tok]

-----------------------------------------------------------------------------
\* neither limit: Allow returns true and counts nothing
Unlimited(c) == c.maxReq <= 0 /\ c.maxTok <= 0

\* the bucket a call with the minute now finds or starts
Current(b, now) ==
  IF b.start < now THEN [start |-> now, req |-> 0, tok |-> 0] ELSE b

Fits(b, c) ==
  /\ c.maxReq > 0 => b.req + 1 <= c.maxReq
  /\ c.maxTok > 0 => b.tok + c.tok <= c.maxTok

Counted(b, c) == [b EXCEPT !.req = @ + 1, !.tok = @ + c.tok]

-----------------------------------------------------------------------------
Init ==
  /\ minute = 0
  /\ bucket = NoBucket
  /\ pc = [w \in Callers |-> "idle"]
  /\ call = [w \in Callers |-> NoCall]
  /\ stamp = [w \in Callers |-> 0]
  /\ run = 1
  /\ granted = [m \in Windows |-> [req |-> 0, tok |-> 0]]

\* Allow up to the mutex
Call(w, c) ==
  /\ pc[w] = "idle"
  /\ ~Unlimited(c)
  /\ pc' = [pc EXCEPT ![w] = "lock"]
  /\ call' = [call EXCEPT ![w] = c]
  /\ stamp' = [stamp EXCEPT ![w] = minute]
  /\ UNCHANGED <<minute, bucket, run, granted>>

Return(w) ==
  /\ pc' = [pc EXCEPT ![w] = "idle"]
  /\ call' = [call EXCEPT ![w] = NoCall]
  /\ stamp' = [stamp EXCEPT ![w] = 0]

\* the critical section: it fits, it is counted
Allowed(w) ==
  LET b == Current(bucket, stamp[w])
      c == call[w]
  IN  /\ pc[w] = "lock"
      /\ Fits(b, c)
      /\ bucket' = Counted(b, c)
      /\ granted' = [granted EXCEPT ![<<run, b.start>>] = [req |-> @.req + 1, tok |-> @.tok + c.tok]]
      /\ Return(w)
      /\ UNCHANGED <<minute, run>>

\* the critical section: it does not fit; a new bucket stays all the same
Denied(w) ==
  /\ pc[w] = "lock"
  /\ ~Fits(Current(bucket, stamp[w]), call[w])
  /\ bucket' = Current(bucket, stamp[w])
  /\ Return(w)
  /\ UNCHANGED <<minute, run, granted>>

\* the wall clock goes on, or is corrected
Clock ==
  /\ minute' \in {minute + 1} \cup (IF ClockMayStepBack THEN {minute - 1} ELSE {})
  /\ minute' \in Minutes
  /\ UNCHANGED <<bucket, pc, call, stamp, run, granted>>

\* NewServer makes a new limiter
Restart ==
  /\ run < MaxRuns
  /\ run' = run + 1
  /\ bucket' = NoBucket
  /\ pc' = [w \in Callers |-> "idle"]
  /\ call' = [w \in Callers |-> NoCall]
  /\ stamp' = [w \in Callers |-> 0]
  /\ UNCHANGED <<minute, granted>>

Next ==
  \/ \E w \in Callers : \/ \E c \in Calls : Call(w, c)
                        \/ Allowed(w)
                        \/ Denied(w)
  \/ Clock
  \/ Restart

Spec == Init /\ [][Next]_vars

-----------------------------------------------------------------------------
\* Type invariant.
TypeOK ==
  /\ minute \in Minutes
  /\ bucket \in [start : Minutes \cup {-1}, req : Nat, tok : Nat]
  /\ pc \in [Callers -> {"idle", "lock"}]
  /\ call \in [Callers -> Calls \cup {NoCall}]
  /\ stamp \in [Callers -> Minutes]
  /\ run \in 1 .. MaxRuns
  /\ granted \in [Windows -> [req : Nat, tok : Nat]]

\* The limiter keeps the promise of a window quota.  Whatever order the callers reach the mutex in, and whatever the clock does in
\* between, a call is allowed only if it fits what its minute has left under its limits.
Q == INSTANCE WindowQuota
ImplementsQuota == Q!QuotaSpec

\* A call is denied only if the minute it read or a later one is charged so much
\* that the call would exceed its limits: nothing is counted that was not allowed,
\* and what earlier minutes were charged never counts.
DeniedForCause ==
  [][\A w \in Callers :
       Denied(w) => \E m \in stamp[w] .. MaxMinute : ~Fits(granted[<<run, m>>], call[w])]_vars
=============================================================================
