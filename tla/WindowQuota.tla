----------------------------- MODULE WindowQuota -----------------------------
(***************************************************************************)
(* What a rate limiter promises, with no clock, lock or server in it.      *)
(*                                                                         *)
(* Callers ask with a number of tokens and the limits that hold for them.  *)
(* A call that is allowed is charged to one window, and only while it fits *)
(* what that window has left under the call's own limits; a limit of zero  *)
(* or less is no limit.  A call that is not allowed is charged to none.    *)
(***************************************************************************)
EXTENDS Integers

CONSTANTS Callers, Windows, TokenCounts, ReqLimits, TokLimits

VARIABLES
  call,    \* what each caller is waiting for an answer to
  granted  \* what the calls charged to each window add up to

Calls == [tok : TokenCounts, maxReq : ReqLimits, maxTok : TokLimits]

NoCall == [tok |-> 0, maxReq |-> 0, maxTok |-> 0]

Fits(total, c) ==
  /\ c.maxReq > 0 => total.req + 1 <= c.maxReq
  /\ c.maxTok > 0 => total.tok + c.tok <= c.maxTok

Ask(w, c) ==
  /\ call[w] = NoCall
  /\ call' = [call EXCEPT ![w] = c]
  /\ UNCHANGED granted

Grant(w, m) ==
  /\ call[w] # NoCall
  /\ Fits(granted[m], call[w])
  /\ granted' = [granted EXCEPT ![m] = [req |-> @.req + 1, tok |-> @.tok + call[w].tok]]
  /\ call' = [call EXCEPT ![w] = NoCall]

\* callers are refused, or go away
Refuse(ws) ==
  /\ call' = [w \in Callers |-> IF w \in ws THEN NoCall ELSE call[w]]
  /\ UNCHANGED granted

Answer ==
  \/ \E w \in Callers : \/ \E c \in Calls : Ask(w, c)
                        \/ \E m \in Windows : Grant(w, m)
  \/ \E ws \in SUBSET Callers : Refuse(ws)

QuotaSpec ==
  /\ call = [w \in Callers |-> NoCall]
  /\ granted = [m \in Windows |-> [req |-> 0, tok |-> 0]]
  /\ [][Answer]_<<call, granted>>
=============================================================================
