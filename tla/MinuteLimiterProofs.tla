------------------------- MODULE MinuteLimiterProofs -------------------------
(***************************************************************************)
(* Proofs about MinuteLimiter, for any callers, limits and behaviour of    *)
(* the clock.  The argument: the bucket is the ledger of its minute, and   *)
(* the minutes after it are still empty, so what Allow compares is what    *)
(* the minute has been charged.                                            *)
(***************************************************************************)
EXTENDS MinuteLimiter, TLAPS

Sum    == [req : Nat, tok : Nat]
Empty  == [req |-> 0, tok |-> 0]
Bucket == [start : Minutes \cup {-1}, req : Nat, tok : Nat]

\* Only a call between the clock and the mutex has arguments and a minute.
CallsSound ==
  \A w \in Callers : /\ pc[w] = "lock" => call[w] \in Calls
                     /\ pc[w] = "idle" => call[w] = NoCall

\* The bucket has counted what its minute has been charged in this run.
BucketIsLedger ==
  bucket.start # -1 =>
    /\ bucket.req = granted[<<run, bucket.start>>].req
    /\ bucket.tok = granted[<<run, bucket.start>>].tok

\* Nothing is charged to a minute after the bucket's, nor to a run to come.
LaterIsEmpty ==
  \A r \in 1 .. MaxRuns, m \in Minutes :
    (r > run \/ (r = run /\ m > bucket.start)) => granted[<<r, m>>] = Empty

LimiterInv == TypeOK /\ CallsSound /\ BucketIsLedger /\ LaterIsEmpty

-----------------------------------------------------------------------------
\* A call that waits for the mutex is not the call of a caller outside Allow.
LEMMA CallsAreCalls ==
  /\ NoCall \notin Calls
  /\ \A c \in Calls : c.tok \in Nat \ {0} /\ c.maxReq \in Int /\ c.maxTok \in Int
  BY LimiterAssumption DEF NoCall, Calls

\* Counting a call leaves a bucket of the same minute.
LEMMA CountedType ==
  ASSUME NEW b \in Bucket, NEW c \in Calls
  PROVE  /\ Counted(b, c) \in Bucket
         /\ Counted(b, c).start = b.start
         /\ Counted(b, c).req = b.req + 1
         /\ Counted(b, c).tok = b.tok + c.tok
<1> DEFINE r == b.req + 1
           t == b.tok + c.tok
<1>1. c.tok \in Nat
  BY CallsAreCalls
<1>2. b.req \in Nat /\ b.tok \in Nat
  BY DEF Bucket
<1>3. r \in Nat /\ t \in Nat
  BY <1>1, <1>2
<1>4. Counted(b, c) = [b EXCEPT !.req = r, !.tok = t]
  BY DEF Counted
<1> HIDE DEF r, t
<1>5. /\ Counted(b, c) \in Bucket /\ Counted(b, c).start = b.start
      /\ Counted(b, c).req = r /\ Counted(b, c).tok = t
  BY <1>3, <1>4 DEF Bucket
<1>6. QED
  BY <1>5 DEF r, t

\* The bucket a call finds or starts is the ledger of its minute, which is not
\* before the minute the call has read; later minutes are empty.
LEMMA CurrentIsLedger ==
  ASSUME LimiterInv, NEW now \in Minutes
  PROVE  LET b == Current(bucket, now)
         IN  /\ b \in Bucket /\ b.start \in Minutes /\ now <= b.start
             /\ b.req = granted[<<run, b.start>>].req
             /\ b.tok = granted[<<run, b.start>>].tok
             /\ \A r \in 1 .. MaxRuns, m \in Minutes :
                  (r > run \/ (r = run /\ m > b.start)) => granted[<<r, m>>] = Empty
<1>1. bucket \in Bucket /\ run \in 1 .. MaxRuns /\ now \in Nat /\ Minutes \subseteq Nat
  BY LimiterAssumption DEF LimiterInv, TypeOK, Bucket, Minutes
<1>2. CASE bucket.start < now
  <2>1. Current(bucket, now) = [start |-> now, req |-> 0, tok |-> 0]
    BY <1>2 DEF Current
  <2>2. granted[<<run, now>>] = Empty
    BY <1>1, <1>2 DEF LimiterInv, LaterIsEmpty
  <2>3. \A r \in 1 .. MaxRuns, m \in Minutes :
          (r > run \/ (r = run /\ m > now)) => granted[<<r, m>>] = Empty
    BY <1>1, <1>2 DEF LimiterInv, LaterIsEmpty, Bucket
  <2>4. QED
    BY <1>1, <2>1, <2>2, <2>3 DEF Bucket, Empty
<1>3. CASE ~(bucket.start < now)
  <2>1. Current(bucket, now) = bucket
    BY <1>3 DEF Current
  <2>2. bucket.start \in Minutes \cup {-1}
    BY <1>1 DEF Bucket
  <2>3. now <= bucket.start /\ bucket.start # -1
    <3>1. bucket.start \in Nat \/ bucket.start = -1
      BY <1>1, <2>2
    <3>2. QED
      BY <1>1, <1>3, <3>1
  <2>4. bucket.start \in Minutes
    BY <2>2, <2>3
  <2>5. QED
    BY <1>1, <2>1, <2>3, <2>4 DEF LimiterInv, BucketIsLedger, LaterIsEmpty
<1>4. QED
  BY <1>2, <1>3

-----------------------------------------------------------------------------
\* The invariant holds of a process that has allowed nothing yet.
LEMMA InitInv == Init => LimiterInv
<1> SUFFICES ASSUME Init PROVE LimiterInv
  OBVIOUS
<1>1. 0 \in Minutes /\ 1 \in 1 .. MaxRuns
  BY LimiterAssumption DEF Minutes
<1>2. NoBucket \in Bucket /\ NoBucket.start = -1
  BY DEF NoBucket, Bucket
<1>3. granted = [m \in Windows |-> Empty] /\ Empty \in Sum
  BY DEF Init, Empty, Sum
<1>4. TypeOK
  BY <1>1, <1>2, <1>3 DEF Init, TypeOK, Bucket, Sum
<1>5. CallsSound /\ BucketIsLedger
  BY <1>2 DEF Init, CallsSound, BucketIsLedger
<1>6. LaterIsEmpty
  BY <1>3 DEF LaterIsEmpty, Windows
<1>7. QED
  BY <1>4, <1>5, <1>6 DEF LimiterInv

\* Reading the clock disturbs nothing.
LEMMA CallKeepsInv ==
  ASSUME LimiterInv, NEW w \in Callers, NEW c \in Calls, Call(w, c)
  PROVE  LimiterInv'
<1>1. TypeOK'
  BY DEF LimiterInv, TypeOK, Call
<1>2. CallsSound'
  BY DEF LimiterInv, TypeOK, CallsSound, Call
<1>3. BucketIsLedger' /\ LaterIsEmpty'
  BY DEF LimiterInv, BucketIsLedger, LaterIsEmpty, Call
<1>4. QED
  BY <1>1, <1>2, <1>3 DEF LimiterInv

\* A call that is counted is counted in its bucket and in the minute it is charged to.
LEMMA AllowedKeepsInv ==
  ASSUME LimiterInv, NEW w \in Callers, Allowed(w)
  PROVE  LimiterInv'
<1> DEFINE b == Current(bucket, stamp[w])
           c == call[w]
           k == <<run, b.start>>
<1>1. c \in Calls /\ stamp[w] \in Minutes /\ run \in 1 .. MaxRuns
  BY DEF Allowed, LimiterInv, CallsSound, TypeOK
<1>2. /\ b \in Bucket /\ b.start \in Minutes
      /\ b.req = granted[k].req /\ b.tok = granted[k].tok
      /\ \A r \in 1 .. MaxRuns, m \in Minutes :
           (r > run \/ (r = run /\ m > b.start)) => granted[<<r, m>>] = Empty
  BY <1>1, CurrentIsLedger
<1>3. k \in Windows
  BY <1>1, <1>2 DEF Windows
<1>4. /\ bucket' = Counted(b, c)
      /\ granted' = [granted EXCEPT ![k] = [req |-> @.req + 1, tok |-> @.tok + c.tok]]
      /\ pc' = [pc EXCEPT ![w] = "idle"]
      /\ call' = [call EXCEPT ![w] = NoCall]
      /\ stamp' = [stamp EXCEPT ![w] = 0]
      /\ UNCHANGED <<minute, run>>
  BY DEF Allowed, Return
<1> HIDE DEF b, c
<1>5. granted \in [Windows -> Sum] /\ c.tok \in Nat
  BY <1>1, CallsAreCalls DEF LimiterInv, TypeOK, Sum
<1>6. bucket' \in Bucket /\ bucket'.start = b.start
      /\ bucket'.req = b.req + 1 /\ bucket'.tok = b.tok + c.tok
  BY <1>1, <1>2, <1>4, CountedType
<1>7. /\ granted' \in [Windows -> Sum]
      /\ granted'[k] = [req |-> granted[k].req + 1, tok |-> granted[k].tok + c.tok]
      /\ \A x \in Windows : x # k => granted'[x] = granted[x]
  <2> DEFINE new == [req |-> granted[k].req + 1, tok |-> granted[k].tok + c.tok]
  <2>1. granted[k].req \in Nat /\ granted[k].tok \in Nat
    BY <1>3, <1>5 DEF Sum
  <2>2. granted[k].req + 1 \in Nat /\ granted[k].tok + c.tok \in Nat
    BY <1>5, <2>1
  <2>3. new \in Sum
    BY <2>2 DEF Sum
  <2>4. granted' = [granted EXCEPT ![k] = new]
    BY <1>4
  <2> HIDE DEF new
  <2>5. granted' \in [Windows -> Sum] /\ granted'[k] = new
        /\ \A x \in Windows : x # k => granted'[x] = granted[x]
    BY <1>3, <1>5, <2>3, <2>4
  <2>6. QED
    BY <2>5 DEF new
<1>8. TypeOK'
  <2>1. 0 \in Minutes
    BY LimiterAssumption DEF Minutes
  <2>2. QED
    BY <1>4, <1>6, <1>7, <2>1 DEF LimiterInv, TypeOK, Bucket, Sum
<1>9. CallsSound'
  BY <1>4 DEF LimiterInv, TypeOK, CallsSound
<1>10. BucketIsLedger'
  BY <1>2, <1>4, <1>6, <1>7 DEF BucketIsLedger
<1>11. LaterIsEmpty'
  <2>1. ASSUME NEW r \in 1 .. MaxRuns, NEW m \in Minutes, r > run \/ (r = run /\ m > b.start)
        PROVE  granted'[<<r, m>>] = Empty
    <3>1. <<r, m>> \in Windows
      BY DEF Windows
    <3>2. <<r, m>> # k
      BY <1>1, <1>2, <2>1, LimiterAssumption DEF Minutes
    <3>3. QED
      BY <1>2, <1>7, <2>1, <3>1, <3>2
  <2>2. QED
    BY <1>4, <1>6, <2>1 DEF LaterIsEmpty
<1>12. QED
  BY <1>8, <1>9, <1>10, <1>11 DEF LimiterInv

\* A call that is denied leaves the ledger alone, and its bucket still is the ledger.
LEMMA DeniedKeepsInv ==
  ASSUME LimiterInv, NEW w \in Callers, Denied(w)
  PROVE  LimiterInv'
<1> DEFINE b == Current(bucket, stamp[w])
<1>1. stamp[w] \in Minutes /\ 0 \in Minutes
  BY LimiterAssumption DEF LimiterInv, TypeOK, Minutes
<1>2. /\ b \in Bucket /\ b.start \in Minutes
      /\ b.req = granted[<<run, b.start>>].req /\ b.tok = granted[<<run, b.start>>].tok
      /\ \A r \in 1 .. MaxRuns, m \in Minutes :
           (r > run \/ (r = run /\ m > b.start)) => granted[<<r, m>>] = Empty
  BY <1>1, CurrentIsLedger
<1>3. /\ bucket' = b
      /\ pc' = [pc EXCEPT ![w] = "idle"]
      /\ call' = [call EXCEPT ![w] = NoCall]
      /\ stamp' = [stamp EXCEPT ![w] = 0]
      /\ UNCHANGED <<minute, run, granted>>
  BY DEF Denied, Return
<1> HIDE DEF b
<1>4. TypeOK'
  BY <1>1, <1>2, <1>3 DEF LimiterInv, TypeOK, Bucket
<1>5. CallsSound'
  BY <1>3 DEF LimiterInv, TypeOK, CallsSound
<1>6. BucketIsLedger' /\ LaterIsEmpty'
  BY <1>2, <1>3 DEF BucketIsLedger, LaterIsEmpty
<1>7. QED
  BY <1>4, <1>5, <1>6 DEF LimiterInv

\* Neither the clock nor a restart charges anything.
LEMMA EnvironmentKeepsInv ==
  ASSUME LimiterInv, Clock \/ Restart
  PROVE  LimiterInv'
<1>1. CASE Clock
  BY <1>1 DEF Clock, LimiterInv, TypeOK, CallsSound, BucketIsLedger, LaterIsEmpty
<1>2. CASE Restart
  <2>1. TypeOK'
    BY <1>2, LimiterAssumption DEF Restart, LimiterInv, TypeOK, NoBucket, Minutes
  <2>2. CallsSound' /\ BucketIsLedger'
    BY <1>2 DEF Restart, CallsSound, BucketIsLedger, NoBucket
  <2>3. LaterIsEmpty'
    BY <1>2 DEF Restart, LimiterInv, TypeOK, LaterIsEmpty
  <2>4. QED
    BY <2>1, <2>2, <2>3 DEF LimiterInv
<1>3. QED
  BY <1>1, <1>2

\* Every reachable state satisfies the inductive invariant.
THEOREM InductiveInvariant == Spec => []LimiterInv
<1>1. Init => LimiterInv
  BY InitInv
<1>2. LimiterInv /\ [Next]_vars => LimiterInv'
  <2> SUFFICES ASSUME LimiterInv, [Next]_vars PROVE LimiterInv'
    OBVIOUS
  <2>1. CASE \E w \in Callers : (\E c \in Calls : Call(w, c)) \/ Allowed(w) \/ Denied(w)
    BY <2>1, CallKeepsInv, AllowedKeepsInv, DeniedKeepsInv
  <2>2. CASE Clock \/ Restart
    BY <2>2, EnvironmentKeepsInv
  <2>3. CASE UNCHANGED vars
    BY <2>3 DEF vars, LimiterInv, TypeOK, CallsSound, BucketIsLedger, LaterIsEmpty
  <2>4. QED
    BY <2>1, <2>2, <2>3 DEF Next
<1>3. QED
  BY <1>1, <1>2, PTL DEF Spec

\* Every variable of the limiter keeps its type: the counts of a bucket are never
\* negative and its start is a minute the clock has shown.
THEOREM TypeCorrect == Spec => []TypeOK
  BY InductiveInvariant, PTL DEF LimiterInv

\* Allow denies only for what the minute, or a later one, has really been charged.
THEOREM DeniedForCauseHolds == Spec => DeniedForCause
<1> DEFINE Caused ==
      \A w \in Callers :
        Denied(w) => \E m \in stamp[w] .. MaxMinute : ~Fits(granted[<<run, m>>], call[w])
<1>1. ASSUME LimiterInv PROVE Caused
  <2>1. SUFFICES ASSUME NEW w \in Callers, Denied(w)
                 PROVE  \E m \in stamp[w] .. MaxMinute : ~Fits(granted[<<run, m>>], call[w])
    OBVIOUS
  <2> DEFINE b == Current(bucket, stamp[w])
  <2>2. stamp[w] \in Minutes
    BY <1>1 DEF LimiterInv, TypeOK
  <2>3. /\ b.start \in Minutes /\ stamp[w] <= b.start
        /\ b.req = granted[<<run, b.start>>].req /\ b.tok = granted[<<run, b.start>>].tok
    BY <1>1, <2>2, CurrentIsLedger
  <2>4. b.start \in stamp[w] .. MaxMinute
    BY <2>2, <2>3, LimiterAssumption DEF Minutes
  <2>5. ~Fits(granted[<<run, b.start>>], call[w])
    <3>1. ~Fits(b, call[w])
      BY <2>1 DEF Denied
    <3> HIDE DEF b
    <3>2. QED
      BY <2>3, <3>1 DEF Fits
  <2>6. QED
    BY <2>4, <2>5
<1>2. QED
  BY InductiveInvariant, <1>1, PTL DEF DeniedForCause

-----------------------------------------------------------------------------
\* One step of the limiter is a step of the quota, or none.
LEMMA StepIsAnswer ==
  ASSUME LimiterInv, [Next]_vars
  PROVE  [Q!Answer]_<<call, granted>>
<1>1. ASSUME NEW w \in Callers, NEW c \in Calls, Call(w, c) PROVE Q!Answer
  <2>1. Q!Ask(w, c)
    BY <1>1 DEF Call, Q!Ask, LimiterInv, CallsSound, NoCall, Q!NoCall
  <2>2. QED
    BY <2>1 DEF Q!Answer, Calls, Q!Calls
<1>2. ASSUME NEW w \in Callers, Allowed(w) PROVE Q!Answer
  <2> DEFINE b == Current(bucket, stamp[w])
             m == <<run, b.start>>
  <2>1. call[w] \in Calls /\ stamp[w] \in Minutes /\ run \in 1 .. MaxRuns
    BY <1>2 DEF Allowed, LimiterInv, CallsSound, TypeOK
  <2>2. b.start \in Minutes /\ b.req = granted[m].req /\ b.tok = granted[m].tok
    BY <2>1, CurrentIsLedger
  <2>3. /\ Fits(b, call[w])
        /\ granted' = [granted EXCEPT ![m] = [req |-> @.req + 1, tok |-> @.tok + call[w].tok]]
        /\ call' = [call EXCEPT ![w] = NoCall]
    BY <1>2 DEF Allowed, Return
  <2> HIDE DEF b
  <2>4. m \in Windows
    BY <2>1, <2>2 DEF Windows
  <2>5. Q!Fits(granted[m], call[w])
    BY <2>2, <2>3 DEF Fits, Q!Fits
  <2>6. call[w] # Q!NoCall /\ Q!NoCall = NoCall
    BY <2>1, CallsAreCalls DEF NoCall, Q!NoCall
  <2>7. Q!Grant(w, m)
    BY <2>3, <2>5, <2>6 DEF Q!Grant
  <2>8. QED
    BY <2>4, <2>7 DEF Q!Answer
<1>3. ASSUME NEW w \in Callers, Denied(w) PROVE Q!Answer
  <2>1. Q!Refuse({w})
    BY <1>3 DEF Denied, Return, Q!Refuse, LimiterInv, TypeOK, NoCall, Q!NoCall
  <2>2. QED
    BY <2>1 DEF Q!Answer
<1>4. CASE Restart
  <2>1. Q!Refuse(Callers)
    BY <1>4 DEF Restart, Q!Refuse, NoCall, Q!NoCall
  <2>2. QED
    BY <2>1 DEF Q!Answer
<1>5. CASE Clock \/ UNCHANGED vars
  BY <1>5 DEF Clock, vars
<1>6. QED
  BY <1>1, <1>2, <1>3, <1>4, <1>5 DEF Next

\* Whatever order the callers reach the mutex in, Allow grants and refuses as a window
\* quota does, the windows being the minutes of each run of the process.
THEOREM LimiterImplementsQuota == Spec => ImplementsQuota
<1>1. ASSUME Init
      PROVE  /\ call = [w \in Callers |-> Q!NoCall]
             /\ granted = [m \in Windows |-> [req |-> 0, tok |-> 0]]
  BY <1>1 DEF Init, NoCall, Q!NoCall
<1>2. LimiterInv /\ [Next]_vars => [Q!Answer]_<<call, granted>>
  BY StepIsAnswer
<1>3. QED
  BY InductiveInvariant, <1>1, <1>2, PTL DEF Spec, ImplementsQuota, Q!QuotaSpec

\* What one step does to a window: nothing, or the charge of one call that fits.
LEMMA StepCharges ==
  ASSUME LimiterInv, [Next]_vars, NEW m \in Windows
  PROVE  \/ granted'[m] = granted[m]
         \/ \E c \in Calls : /\ Q!Fits(granted[m], c)
                            /\ granted'[m].req = granted[m].req + 1
                            /\ granted'[m].tok = granted[m].tok + c.tok
<1>1. granted \in [Windows -> [req : Nat, tok : Nat]]
  BY DEF LimiterInv, TypeOK
<1>2. CASE granted' = granted
  BY <1>2
<1>3. ASSUME NEW w \in Callers, NEW k \in Windows, Q!Grant(w, k)
      PROVE  \/ granted'[m] = granted[m]
             \/ \E c \in Calls : /\ Q!Fits(granted[m], c)
                                /\ granted'[m].req = granted[m].req + 1
                                /\ granted'[m].tok = granted[m].tok + c.tok
  <2> DEFINE new == [req |-> granted[k].req + 1, tok |-> granted[k].tok + call[w].tok]
  <2>1. /\ call[w] \in Calls /\ Q!Fits(granted[k], call[w])
        /\ granted' = [granted EXCEPT ![k] = new]
    BY <1>3 DEF Q!Grant, Q!NoCall, NoCall, LimiterInv, TypeOK
  <2>2. new.req = granted[k].req + 1 /\ new.tok = granted[k].tok + call[w].tok
    OBVIOUS
  <2> HIDE DEF new
  <2>3. granted'[m] = IF m = k THEN new ELSE granted[m]
    BY <1>1, <2>1
  <2>4. QED
    BY <2>1, <2>2, <2>3
<1>4. QED
  BY <1>2, <1>3, StepIsAnswer DEF Q!Answer, Q!Ask, Q!Refuse

\* What an operator relies on who gives every tenant a limit of at most n requests a
\* minute: no order of the callers at the mutex, no step of the clock and no restart
\* lets more than n requests through in a minute of a run.
THEOREM RequestsBounded ==
  ASSUME NEW n \in Nat, ReqLimits \subseteq 1 .. n
  PROVE  Spec => [](\A m \in Windows : granted[m].req <= n)
<1> DEFINE Within == \A m \in Windows : granted[m].req <= n
<1>1. Init => Within
  BY DEF Init
<1>2. ASSUME LimiterInv, [Next]_vars, Within PROVE Within'
  <2> SUFFICES ASSUME NEW m \in Windows PROVE granted'[m].req <= n
    OBVIOUS
  <2>1. ASSUME NEW c \in Calls, Q!Fits(granted[m], c) PROVE granted[m].req + 1 <= n
    <3>1. c.maxReq \in 1 .. n /\ granted[m].req \in Nat
      BY <1>2 DEF Calls, LimiterInv, TypeOK
    <3>2. granted[m].req + 1 <= c.maxReq
      BY <2>1, <3>1 DEF Q!Fits
    <3>3. QED
      BY <3>1, <3>2
  <2>2. QED
    BY <1>2, <2>1, StepCharges
<1>3. QED
  BY <1>1, <1>2, InductiveInvariant, PTL DEF Spec

\* The same of tokens: with token limits of at most n no minute is charged for more.
THEOREM TokensBounded ==
  ASSUME NEW n \in Nat, TokLimits \subseteq 1 .. n
  PROVE  Spec => [](\A m \in Windows : granted[m].tok <= n)
<1> DEFINE Within == \A m \in Windows : granted[m].tok <= n
<1>1. Init => Within
  BY DEF Init
<1>2. ASSUME LimiterInv, [Next]_vars, Within PROVE Within'
  <2> SUFFICES ASSUME NEW m \in Windows PROVE granted'[m].tok <= n
    OBVIOUS
  <2>1. ASSUME NEW c \in Calls, Q!Fits(granted[m], c) PROVE granted[m].tok + c.tok <= n
    <3>1. c.maxTok \in 1 .. n /\ granted[m].tok \in Nat /\ c.tok \in Nat
      BY <1>2, CallsAreCalls DEF Calls, LimiterInv, TypeOK
    <3>2. granted[m].tok + c.tok <= c.maxTok
      BY <2>1, <3>1 DEF Q!Fits
    <3>3. QED
      BY <3>1, <3>2
  <2>2. QED
    BY <1>2, <2>1, StepCharges
<1>3. QED
  BY <1>1, <1>2, InductiveInvariant, PTL DEF Spec
=============================================================================
