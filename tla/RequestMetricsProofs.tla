------------------------ MODULE RequestMetricsProofs ------------------------
(***************************************************************************)
(* Theorems about RequestMetrics, for every number of requests, backends   *)
(* and attempts.                                                           *)
(***************************************************************************)
EXTENDS RequestMetrics, TLAPS

\* The sender of the channel lives exactly as long as the middleware runs,
\* and the record is made from what the receiver gets (metrics.rs:140-145).
ChanInv ==
  \A q \in Request :
    /\ pc[q] = "idle" <=> chan[q] = "none"
    /\ pc[q] \in {"inside", "once", "try", "body"} <=> chan[q] = "open"
    /\ pc[q] = "sent" <=> chan[q] = "sent"
    /\ pc[q] = "gone" <=> chan[q] = "dropped"
    /\ record[q] # Nothing =>
         \/ chan[q] = "sent" /\ record[q] = meta[q]
         \/ chan[q] = "dropped" /\ record[q] = DefaultMeta

\* The countdown of the retry loop and the failures it has seen.
Count(q) ==
  /\ pc[q] \in {"idle", "inside", "once"} =>
       ctx[q] = NoContext /\ answered[q] = Unknown /\ failed[q] = 0
  /\ pc[q] = "try" =>
       ctx[q].request /\ retries[q] \in 1 .. Attempts /\ failed[q] = Attempts - retries[q]
  /\ pc[q] = "body" =>
       ctx[q].backend = answered[q] /\ failed[q] = Noted(q)
CountInv == \A q \in Request : Count(q)

\* What the middleware sends agrees with what the handler did.
Truthful(q, mt) ==
  /\ mt.cause # "cancelled"
  /\ mt.cause \in {"none", "BackendRequestError"} \cup BodyError =>
       mt.ctx.backend = answered[q]
  /\ mt.retries = IF mt.cause = "none" THEN failed[q] ELSE 0
MetaInv == \A q \in Request : chan[q] = "sent" => Truthful(q, meta[q])

MInv == MetricsTypeOK /\ ChanInv /\ CountInv /\ MetaInv

\* Contexts, and the message of a cancelled request, are of their types.
LEMMA ContextTypes ==
  /\ NoContext \in Context
  /\ DefaultMeta \in Meta
  /\ \A c \in Context, b \in Backend :
       /\ [c EXCEPT !.backend = b] \in Context
       /\ [c EXCEPT !.backend = b].backend = b
       /\ [c EXCEPT !.backend = b].request = c.request
       /\ [c EXCEPT !.request = TRUE] \in Context
       /\ [c EXCEPT !.response = TRUE] \in Context
<1>1. 0 \in 0 .. Attempts
  BY MetricsAttempts
<1> QED BY <1>1 DEF NoContext, Context, DefaultMeta, Meta

\* A request that is answered is answered with a truthful message: the
\* middleware reads the context and the extensions after the handler has
\* returned (metrics.rs:247-275).
LEMMA ReplyStep ==
  ASSUME NEW q \in Request, NEW c \in ErrorCause \cup {"none"}, NEW n \in 0 .. Attempts,
         MInv, Reply(q, c, n), UNCHANGED record,
         pc[q] \in {"inside", "once", "try", "body"},
         ctx'[q] \in Context, ctx' = [ctx EXCEPT ![q] = ctx'[q]],
         retries'[q] \in 0 .. Attempts, retries' = [retries EXCEPT ![q] = retries'[q]],
         failed'[q] \in 0 .. Attempts, failed' = [failed EXCEPT ![q] = failed'[q]],
         answered'[q] \in Backend \cup {Unknown},
         answered' = [answered EXCEPT ![q] = answered'[q]],
         c \in {"none", "BackendRequestError"} \cup BodyError =>
           ctx'[q].backend = answered'[q],
         n = IF c = "none" THEN failed'[q] ELSE 0
  PROVE  MInv'
<1> DEFINE mt == [ctx |-> ctx'[q], retries |-> n, cause |-> c]
<1>1. /\ pc' = [pc EXCEPT ![q] = "sent"]
      /\ chan' = [chan EXCEPT ![q] = "sent"]
      /\ meta' = [meta EXCEPT ![q] = mt]
      /\ record' = record
  BY DEF Reply, Goto
<1>2. mt \in Meta
  BY DEF Meta
<1>3. MetricsTypeOK'
  BY <1>1, <1>2 DEF MInv, MetricsTypeOK, Chan
<1>4. ChanInv'
  BY <1>1 DEF MInv, MetricsTypeOK, ChanInv
<1>5. CountInv'
  <2> SUFFICES ASSUME NEW p \in Request
               PROVE  Count(p)'
    BY DEF CountInv
  <2>1. CASE p = q
    BY <2>1, <1>1 DEF MInv, MetricsTypeOK, Count
  <2>2. CASE p # q
    <3>1. /\ pc'[p] = pc[p] /\ ctx'[p] = ctx[p] /\ retries'[p] = retries[p]
          /\ failed'[p] = failed[p] /\ answered'[p] = answered[p]
      BY <2>2, <1>1 DEF MInv, MetricsTypeOK
    <3> QED BY <3>1 DEF MInv, CountInv, Count, Noted
  <2> QED BY <2>1, <2>2
<1>6. MetaInv'
  <2> SUFFICES ASSUME NEW p \in Request, chan'[p] = "sent"
               PROVE  Truthful(p, meta[p])'
    BY DEF MetaInv
  <2>1. CASE p = q
    <3>1. meta'[p] = mt /\ c # "cancelled"
      BY <2>1, <1>1 DEF MInv, MetricsTypeOK, ErrorCause, Refusal, BodyError
    <3> QED BY <2>1, <3>1 DEF Truthful
  <2>2. CASE p # q
    <3>1. /\ chan'[p] = chan[p] /\ meta'[p] = meta[p]
          /\ failed'[p] = failed[p] /\ answered'[p] = answered[p]
      BY <2>2, <1>1 DEF MInv, MetricsTypeOK
    <3> QED BY <3>1 DEF MInv, MetaInv, Truthful
  <2> QED BY <2>1, <2>2
<1> QED BY <1>3, <1>4, <1>5, <1>6 DEF MInv

\* A request that is not answered yet goes on, and nothing is sent for it.
LEMMA GoOnStep ==
  ASSUME NEW q \in Request, NEW l \in {"once", "try", "body"},
         MInv, pc[q] \in {"inside", "once", "try"}, pc' = [pc EXCEPT ![q] = l],
         UNCHANGED <<chanVars, record>>,
         ctx'[q] \in Context, ctx' = [ctx EXCEPT ![q] = ctx'[q]],
         retries'[q] \in 0 .. Attempts, retries' = [retries EXCEPT ![q] = retries'[q]],
         failed'[q] \in 0 .. Attempts, failed' = [failed EXCEPT ![q] = failed'[q]],
         answered'[q] \in Backend \cup {Unknown},
         answered' = [answered EXCEPT ![q] = answered'[q]],
         Count(q)'
  PROVE  MInv'
<1>1. chan' = chan /\ meta' = meta /\ record' = record
  BY DEF chanVars
<1>2. MetricsTypeOK'
  BY <1>1 DEF MInv, MetricsTypeOK
<1>3. chan[q] = "open"
  BY DEF MInv, ChanInv
<1>4. ChanInv'
  BY <1>1, <1>3 DEF MInv, MetricsTypeOK, ChanInv
<1>5. ASSUME NEW p \in Request, p # q
      PROVE  /\ pc'[p] = pc[p] /\ ctx'[p] = ctx[p] /\ retries'[p] = retries[p]
             /\ failed'[p] = failed[p] /\ answered'[p] = answered[p]
  BY <1>5 DEF MInv, MetricsTypeOK
<1>6. CountInv'
  BY <1>5 DEF MInv, CountInv, Count, Noted
<1>7. MetaInv'
  BY <1>1, <1>3, <1>5 DEF MInv, MetaInv, Truthful
<1> QED BY <1>2, <1>4, <1>6, <1>7 DEF MInv

\* What a step of request q leaves alone is of its type, and is what it was.
LEMMA Kept ==
  ASSUME NEW q \in Request, MInv
  PROVE  /\ ctx[q] \in Context /\ ctx = [ctx EXCEPT ![q] = ctx[q]]
         /\ retries[q] \in 0 .. Attempts /\ retries = [retries EXCEPT ![q] = retries[q]]
         /\ failed[q] \in 0 .. Attempts /\ failed = [failed EXCEPT ![q] = failed[q]]
         /\ answered[q] \in Backend \cup {Unknown}
         /\ answered = [answered EXCEPT ![q] = answered[q]]
         /\ q \in DOMAIN pc
BY DEF MInv, MetricsTypeOK

\* What an attempt on a backend notes (backend.rs:445), and one without.
LEMMA ReachNotes ==
  ASSUME NEW q \in Request, MInv
  PROVE  /\ \A b \in Backend : Reach(q, b) =>
              /\ ctx'[q] \in Context /\ ctx' = [ctx EXCEPT ![q] = ctx'[q]]
              /\ ctx'[q].backend = b /\ ctx'[q].request = ctx[q].request
              /\ answered'[q] = b /\ answered' = [answered EXCEPT ![q] = answered'[q]]
         /\ ReachNobody(q) =>
              /\ ctx' = ctx
              /\ answered'[q] = Unknown /\ answered' = [answered EXCEPT ![q] = answered'[q]]
<1>1. /\ ctx \in [Request -> Context]
      /\ answered \in [Request -> Backend \cup {Unknown}]
  BY DEF MInv, MetricsTypeOK
<1>2. ASSUME NEW b \in Backend, Reach(q, b)
      PROVE  /\ ctx'[q] \in Context /\ ctx' = [ctx EXCEPT ![q] = ctx'[q]]
             /\ ctx'[q].backend = b /\ ctx'[q].request = ctx[q].request
             /\ answered'[q] = b /\ answered' = [answered EXCEPT ![q] = answered'[q]]
  <2> DEFINE c == [ctx[q] EXCEPT !.backend = b]
  <2>1. /\ ctx'[q] = c /\ ctx' = [ctx EXCEPT ![q] = ctx'[q]]
        /\ answered'[q] = b /\ answered' = [answered EXCEPT ![q] = answered'[q]]
    BY <1>1, <1>2 DEF Reach
  <2>2. c \in Context /\ c.backend = b /\ c.request = ctx[q].request
    <3>1. ctx[q] \in Context
      BY <1>1
    <3> QED BY <3>1, ContextTypes
  <2> QED BY <2>1, <2>2
<1>3. ReachNobody(q) =>
        /\ ctx' = ctx
        /\ answered'[q] = Unknown /\ answered' = [answered EXCEPT ![q] = answered'[q]]
  BY <1>1 DEF ReachNobody
<1> QED BY <1>2, <1>3

\* Initially nobody has arrived.
LEMMA MInit == Init => MInv
<1> SUFFICES ASSUME Init PROVE MInv
  OBVIOUS
<1>1. MetricsTypeOK
  BY ContextTypes, MetricsAttempts DEF Init, MetricsTypeOK, Chan
<1>2. ChanInv /\ CountInv /\ MetaInv
  BY DEF Init, ChanInv, CountInv, Count, MetaInv
<1> QED BY <1>1, <1>2 DEF MInv

\* An answer of the handler before any attempt (routing.rs:173-180, 219).
LEMMA RefuseStep == \A q \in Request : MInv /\ Refuse(q) => MInv'
<1> SUFFICES ASSUME NEW q \in Request, MInv, Refuse(q) PROVE MInv'
  OBVIOUS
<1>1. PICK c \in Refusal \cup {"none"} : Reply(q, c, 0)
  BY DEF Refuse
<1>2. /\ pc[q] = "inside" /\ UNCHANGED <<ctx, retries, record, failed, answered>>
      /\ ctx[q] = NoContext /\ answered[q] = Unknown /\ failed[q] = 0
  BY DEF Refuse, MInv, CountInv, Count
<1>3. c \in ErrorCause \cup {"none"} /\ NoContext.backend = Unknown /\ 0 \in 0 .. Attempts
  BY MetricsAttempts DEF ErrorCause, NoContext
<1> QED BY <1>1, <1>2, <1>3, Kept, ReplyStep

\* The body is buffered or is not (routing.rs:199-229).
LEMMA BeginStep == \A q \in Request : MInv /\ Begin(q) => MInv'
<1> SUFFICES ASSUME NEW q \in Request, MInv, Begin(q) PROVE MInv'
  OBVIOUS
<1>1. /\ pc[q] = "inside" /\ UNCHANGED <<chanVars, record, failed, answered>>
      /\ ctx[q] = NoContext /\ answered[q] = Unknown /\ failed[q] = 0
  BY DEF Begin, MInv, CountInv, Count
<1>2. /\ pc \in [Request -> {"idle", "inside", "once", "try", "body", "sent", "gone"}]
      /\ ctx \in [Request -> Context] /\ retries \in [Request -> 0 .. Attempts]
  BY DEF MInv, MetricsTypeOK
<1>3. CASE Goto(q, "once") /\ UNCHANGED <<ctx, retries>>
  <2>1. Count(q)'
    BY <1>1, <1>2, <1>3 DEF Count, Goto
  <2> QED BY <1>1, <1>3, <2>1, Kept, GoOnStep DEF Goto
<1>4. CASE /\ Goto(q, "try")
           /\ ctx' = [ctx EXCEPT ![q].request = TRUE]
           /\ retries' = [retries EXCEPT ![q] = Attempts]
  <2>1. /\ ctx'[q] \in Context /\ ctx' = [ctx EXCEPT ![q] = ctx'[q]] /\ ctx'[q].request
        /\ retries'[q] = Attempts /\ retries' = [retries EXCEPT ![q] = retries'[q]]
    BY <1>2, <1>4 DEF Context
  <2>2. Attempts \in 0 .. Attempts /\ Attempts \in 1 .. Attempts /\ 0 = Attempts - Attempts
    BY MetricsAttempts
  <2>3. pc'[q] = "try" /\ Count(q)'
    BY <1>1, <1>2, <1>4, <2>1, <2>2 DEF Count, Goto
  <2> QED BY <1>1, <1>4, <2>1, <2>2, <2>3, Kept, GoOnStep DEF Goto
<1> QED BY <1>3, <1>4 DEF Begin

\* The single execution without buffering (routing.rs:202-216).
LEMMA ExecuteOnceStep == \A q \in Request : MInv /\ ExecuteOnce(q) => MInv'
<1> SUFFICES ASSUME NEW q \in Request, MInv, ExecuteOnce(q) PROVE MInv'
  OBVIOUS
<1>1. /\ pc[q] = "once" /\ UNCHANGED <<retries, record, failed>>
      /\ ctx[q] = NoContext /\ failed[q] = 0
  BY DEF ExecuteOnce, MInv, CountInv, Count
<1>2. /\ {"NoHealthyBackends", "BackendRequestError"} \subseteq ErrorCause
      /\ "NoHealthyBackends" \notin {"none", "BackendRequestError"} \cup BodyError
      /\ 0 \in 0 .. Attempts
  BY MetricsAttempts DEF ErrorCause, BodyError
<1>3. CASE ReachNobody(q) /\ Reply(q, "NoHealthyBackends", 0)
  BY <1>1, <1>2, <1>3, Kept, ReachNotes, ReplyStep
<1>4. ASSUME NEW b \in Backend, Reach(q, b), Goto(q, "body"), UNCHANGED chanVars
      PROVE  MInv'
  <2>1. pc' = [pc EXCEPT ![q] = "body"] /\ pc'[q] = "body"
    BY <1>4, Kept DEF Goto
  <2>2. ~ctx'[q].request /\ ctx'[q].backend = answered'[q]
    BY <1>1, <1>4, ReachNotes DEF NoContext
  <2>3. Count(q)'
    BY <1>1, <2>1, <2>2 DEF Count, Noted
  <2> QED BY <1>1, <1>4, <2>1, <2>3, Kept, ReachNotes, GoOnStep
<1>5. ASSUME NEW b \in Backend, Reach(q, b), Reply(q, "BackendRequestError", 0)
      PROVE  MInv'
  BY <1>1, <1>2, <1>5, Kept, ReachNotes, ReplyStep
<1> QED BY <1>3, <1>4, <1>5 DEF ExecuteOnce

\* A successful attempt of the retry loop (routing.rs:235, 247).
LEMMA ExecuteStep == \A q \in Request : MInv /\ Execute(q) => MInv'
<1> SUFFICES ASSUME NEW q \in Request, MInv, Execute(q) PROVE MInv'
  OBVIOUS
<1>1. PICK b \in Backend : Reach(q, b)
  BY DEF Execute
<1>2. /\ pc[q] = "try" /\ UNCHANGED <<retries, chanVars, record, failed>>
      /\ pc' = [pc EXCEPT ![q] = "body"] /\ pc'[q] = "body"
      /\ ctx[q].request /\ failed[q] = Attempts - retries[q]
  BY Kept DEF Execute, Goto, MInv, CountInv, Count
<1>3. ctx'[q].request /\ ctx'[q].backend = answered'[q]
  BY <1>1, <1>2, ReachNotes
<1>4. Count(q)'
  BY <1>2, <1>3 DEF Count, Noted
<1> QED BY <1>1, <1>2, <1>4, Kept, ReachNotes, GoOnStep

\* A failed attempt: the countdown goes on or ends the loop (routing.rs:252).
LEMMA FailStep == \A q \in Request : MInv /\ Fail(q) => MInv'
<1> SUFFICES ASSUME NEW q \in Request, MInv, Fail(q) PROVE MInv'
  OBVIOUS
<1>1. PICK c \in {"NoHealthyBackends", "BackendRequestError"} :
        /\ IF c = "NoHealthyBackends" THEN ReachNobody(q)
                                      ELSE \E b \in Backend : Reach(q, b)
        /\ IF retries[q] = 1 THEN Reply(q, c, 0) ELSE UNCHANGED <<pc, chanVars>>
  BY DEF Fail
<1>2. /\ pc[q] = "try" /\ record' = record
      /\ ctx[q].request /\ retries[q] \in 1 .. Attempts
      /\ failed[q] = Attempts - retries[q]
  BY DEF Fail, MInv, CountInv, Count
<1>3. /\ failed'[q] = failed[q] + 1 /\ failed' = [failed EXCEPT ![q] = failed'[q]]
      /\ retries'[q] = retries[q] - 1 /\ retries' = [retries EXCEPT ![q] = retries'[q]]
  BY DEF Fail, MInv, MetricsTypeOK
<1>4. /\ retries'[q] \in 0 .. Attempts /\ failed'[q] \in 0 .. Attempts
      /\ failed'[q] = Attempts - retries'[q]
      /\ retries[q] # 1 => retries'[q] \in 1 .. Attempts
  BY <1>2, <1>3, MetricsAttempts
<1>5. /\ ctx'[q] \in Context /\ ctx' = [ctx EXCEPT ![q] = ctx'[q]] /\ ctx'[q].request
      /\ answered'[q] \in Backend \cup {Unknown}
      /\ answered' = [answered EXCEPT ![q] = answered'[q]]
      /\ c = "BackendRequestError" => ctx'[q].backend = answered'[q]
  BY <1>1, <1>2, Kept, ReachNotes
<1>6. /\ c \in ErrorCause /\ c # "none" /\ 0 \in 0 .. Attempts
      /\ c \in {"none", "BackendRequestError"} \cup BodyError => c = "BackendRequestError"
  BY MetricsAttempts DEF ErrorCause, BodyError
<1>7. CASE retries[q] = 1
  BY <1>1, <1>2, <1>3, <1>4, <1>5, <1>6, <1>7, ReplyStep
<1>8. CASE retries[q] # 1
  <2>1. pc' = pc /\ UNCHANGED chanVars /\ pc' = [pc EXCEPT ![q] = "try"]
    BY <1>1, <1>2, <1>8 DEF MInv, MetricsTypeOK
  <2>2. Count(q)'
    BY <1>2, <1>4, <1>5, <1>8, <2>1 DEF Count
  <2> QED BY <1>2, <1>3, <1>4, <1>5, <2>1, <2>2, GoOnStep
<1> QED BY <1>7, <1>8

\* buffer_response and the middleware after it (routing.rs:124-171).
LEMMA BufferResponseStep == \A q \in Request : MInv /\ BufferResponse(q) => MInv'
<1> SUFFICES ASSUME NEW q \in Request, MInv, BufferResponse(q) PROVE MInv'
  OBVIOUS
<1>1. /\ pc[q] = "body" /\ UNCHANGED <<retries, record, failed, answered>>
      /\ ctx[q].backend = answered[q] /\ failed[q] = Noted(q)
  BY DEF BufferResponse, MInv, CountInv, Count
<1>2. Noted(q) \in 0 .. Attempts /\ 0 \in 0 .. Attempts
  BY <1>1, Kept, MetricsAttempts
<1>3. CASE UNCHANGED ctx /\ Reply(q, "none", Noted(q))
  BY <1>1, <1>2, <1>3, Kept, ReplyStep
<1>4. CASE ctx' = [ctx EXCEPT ![q].response = TRUE] /\ Reply(q, "none", Noted(q))
  <2>1. ctx \in [Request -> Context]
    BY DEF MInv, MetricsTypeOK
  <2>2. /\ ctx'[q] \in Context /\ ctx' = [ctx EXCEPT ![q] = ctx'[q]]
        /\ ctx'[q].backend = ctx[q].backend
    BY <1>4, <2>1 DEF Context
  <2> QED BY <1>1, <1>2, <1>4, <2>2, Kept, ReplyStep
<1>5. ASSUME UNCHANGED ctx, NEW c \in BodyError, Reply(q, c, 0)
      PROVE  MInv'
  <2>1. c \in ErrorCause /\ c # "none"
    BY DEF ErrorCause, BodyError
  <2> QED BY <1>1, <1>2, <1>5, <2>1, Kept, ReplyStep
<1> QED BY <1>3, <1>4, <1>5 DEF BufferResponse

\* The middleware makes the channel before it calls the handler (metrics.rs:140).
LEMMA EnterStep == \A q \in Request : MInv /\ Enter(q) => MInv'
<1> SUFFICES ASSUME NEW q \in Request, MInv, Enter(q) PROVE MInv'
  OBVIOUS
<1>1. /\ pc[q] = "idle" /\ pc' = [pc EXCEPT ![q] = "inside"]
      /\ chan' = [chan EXCEPT ![q] = "open"]
      /\ UNCHANGED <<ctx, retries, meta, record, failed, answered>>
  BY DEF Enter, Goto
<1>2. MetricsTypeOK'
  BY <1>1 DEF MInv, MetricsTypeOK, Chan
<1>3. ChanInv'
  BY <1>1 DEF MInv, MetricsTypeOK, ChanInv
<1>4. CountInv'
  BY <1>1 DEF MInv, MetricsTypeOK, CountInv, Count, Noted
<1>5. MetaInv'
  BY <1>1 DEF MInv, MetricsTypeOK, MetaInv, Truthful
<1> QED BY <1>2, <1>3, <1>4, <1>5 DEF MInv

\* Dropping the middleware future drops the sender (metrics.rs:144).
LEMMA CancelStep == \A q \in Request : MInv /\ Cancel(q) => MInv'
<1> SUFFICES ASSUME NEW q \in Request, MInv, Cancel(q) PROVE MInv'
  OBVIOUS
<1>1. /\ pc[q] \in {"inside", "once", "try", "body"} /\ pc' = [pc EXCEPT ![q] = "gone"]
      /\ chan' = [chan EXCEPT ![q] = "dropped"]
      /\ UNCHANGED <<ctx, retries, meta, record, failed, answered>>
  BY DEF Cancel, Goto
<1>2. MetricsTypeOK'
  BY <1>1 DEF MInv, MetricsTypeOK, Chan
<1>3. ChanInv'
  BY <1>1 DEF MInv, MetricsTypeOK, ChanInv
<1>4. CountInv'
  BY <1>1 DEF MInv, MetricsTypeOK, CountInv, Count, Noted
<1>5. MetaInv'
  BY <1>1 DEF MInv, MetricsTypeOK, MetaInv, Truthful
<1> QED BY <1>2, <1>3, <1>4, <1>5 DEF MInv

\* The logging task records what it received (metrics.rs:145-245).
LEMMA LogStep == \A q \in Request : MInv /\ Log(q) => MInv'
<1> SUFFICES ASSUME NEW q \in Request, MInv, Log(q) PROVE MInv'
  OBVIOUS
<1> DEFINE mt == IF chan[q] = "sent" THEN meta[q] ELSE DefaultMeta
<1>1. /\ chan[q] \in {"sent", "dropped"} /\ record' = [record EXCEPT ![q] = mt]
      /\ UNCHANGED <<pc, ctx, retries, failed, answered, chan, meta>>
  BY DEF Log, handlerVars, chanVars
<1>2. mt \in Meta
  BY ContextTypes DEF MInv, MetricsTypeOK
<1>3. MetricsTypeOK'
  BY <1>1, <1>2 DEF MInv, MetricsTypeOK
<1>4. ChanInv'
  BY <1>1 DEF MInv, MetricsTypeOK, ChanInv
<1>5. CountInv' /\ MetaInv'
  BY <1>1 DEF MInv, CountInv, Count, Noted, MetaInv, Truthful
<1> QED BY <1>3, <1>4, <1>5 DEF MInv

\* The invariant of the middleware holds in every reachable state.
THEOREM MetricsInvariance == Spec => []MInv
<1>1. MInv /\ [Next]_vars => MInv'
  <2> SUFFICES ASSUME MInv, [Next]_vars PROVE MInv'
    OBVIOUS
  <2>1. CASE UNCHANGED vars
    BY <2>1 DEF vars, handlerVars, chanVars, MInv, MetricsTypeOK, ChanInv, CountInv,
                Count, Noted, MetaInv, Truthful
  <2>2. CASE Next
    BY <2>2, RefuseStep, BeginStep, ExecuteOnceStep, ExecuteStep, FailStep,
       BufferResponseStep, EnterStep, CancelStep, LogStep DEF Next, Handle
  <2> QED BY <2>1, <2>2
<1> QED BY <1>1, MInit, PTL DEF Spec

\* Type correctness of the middleware, of the countdown in particular: a u8
\* that never passes zero nor retry_attempts (routing.rs:252, 260).
THEOREM MetricsTypeCorrect == Spec => []MetricsTypeOK
<1>1. MInv => MetricsTypeOK
  BY DEF MInv
<1> QED BY <1>1, MetricsInvariance, PTL

\* The record names the backend of the last attempt (backend.rs:445).
THEOREM RecordsTheBackend == Spec => []BlamesTheRightBackend
<1>1. MInv => BlamesTheRightBackend
  BY DEF MInv, ChanInv, MetaInv, Truthful, BlamesTheRightBackend, Recorded, DefaultMeta,
         BodyError
<1> QED BY <1>1, MetricsInvariance, PTL

\* The record counts the failures the client's response went through, and
\* nothing for a response made from scratch (routing.rs:258, metrics.rs:259).
THEOREM RecordsTheRetries == Spec => []RetriesAreFailures
<1>1. MInv => RetriesAreFailures
  BY DEF MInv, ChanInv, MetaInv, Truthful, RetriesAreFailures, Recorded, DefaultMeta
<1> QED BY <1>1, MetricsInvariance, PTL

\* The 408 of ResponseMeta::default stands for a dropped handler, and nothing
\* else does (metrics.rs:86, 144).
THEOREM RecordsTheCancelled == Spec => []TimeoutMeansCancelled
<1>1. MInv => TimeoutMeansCancelled
  BY DEF MInv, ChanInv, MetaInv, Truthful, TimeoutMeansCancelled, Recorded, DefaultMeta
<1> QED BY <1>1, MetricsInvariance, PTL
-----------------------------------------------------------------------------
(* The safety half of EveryRequestRecorded.                                *)

\* A request whose handler has ended, in whatever way, is recorded, or there
\* is something in the channel for the logging task to take.
RecordIsDue ==
  \A q \in Request : pc[q] \in {"sent", "gone"} =>
    Recorded(q) \/ chan[q] \in {"sent", "dropped"}

\* The logging task never waits for a handler that is no more: the sender is
\* used or dropped on every way out of the middleware (metrics.rs:140-145).
THEOREM NoRecordIsForgotten == Spec => []RecordIsDue
<1>1. MInv => RecordIsDue
  BY DEF MInv, ChanInv, RecordIsDue
<1> QED BY <1>1, MetricsInvariance, PTL

\* Nothing happens to a request that is recorded.
RecordsAreFinal ==
  [][\A q \in Request : Recorded(q) =>
       UNCHANGED <<record[q], pc[q], answered[q], failed[q]>>]_vars

\* A record stays true: it is made once, after the handler's last step, and no
\* step of a handler comes after it (metrics.rs:140-147).
THEOREM RecordedOnce == Spec => RecordsAreFinal
<1> DEFINE A == \A q \in Request : Recorded(q) =>
                  UNCHANGED <<record[q], pc[q], answered[q], failed[q]>>
<1>1. MInv /\ [Next]_vars => [A]_vars
  <2> SUFFICES ASSUME MInv, [Next]_vars, NEW q \in Request, record[q] # Nothing
               PROVE  UNCHANGED <<record[q], pc[q], answered[q], failed[q]>>
    BY DEF Recorded
  <2> USE DEF MInv, MetricsTypeOK, Goto, Reply
  <2>1. pc[q] \in {"sent", "gone"}
    BY DEF ChanInv
  <2>2. CASE UNCHANGED vars
    BY <2>2 DEF vars, handlerVars
  <2>3. ASSUME NEW p \in Request, Enter(p) \/ Refuse(p) \/ Begin(p) \/ Cancel(p)
        PROVE  UNCHANGED <<record[q], pc[q], answered[q], failed[q]>>
    BY <2>1, <2>3 DEF Enter, Refuse, Begin, Cancel
  <2>4. ASSUME NEW p \in Request,
               ExecuteOnce(p) \/ Execute(p) \/ Fail(p) \/ BufferResponse(p)
        PROVE  UNCHANGED <<record[q], pc[q], answered[q], failed[q]>>
    BY <2>1, <2>4 DEF ExecuteOnce, Execute, Fail, BufferResponse, Reach, ReachNobody
  <2>5. ASSUME NEW p \in Request, Log(p)
        PROVE  UNCHANGED <<record[q], pc[q], answered[q], failed[q]>>
    BY <2>5 DEF Log, handlerVars
  <2> QED BY <2>2, <2>3, <2>4, <2>5 DEF Next, Handle
<1>2. Spec => [][A]_vars
  BY <1>1, MetricsInvariance, PTL DEF Spec
<1> QED BY <1>2 DEF RecordsAreFinal
=============================================================================
