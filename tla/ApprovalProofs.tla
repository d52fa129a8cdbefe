--------------------------- MODULE ApprovalProofs ---------------------------
(***************************************************************************)
(* The human gate for any number of tokens, handlers, sessions and         *)
(* configurations: one approval, one execution.  The inductive invariant   *)
(* is about who holds a token between consume and execution.               *)
(***************************************************************************)
EXTENDS Approval, FiniteSetTheorems, TLAPS

Holds(h, t) == handlers[h].at = "consumed" /\ handlers[h].token = t

\* The state of one token: executed at most once, and while a handler holds it,
\* it is consumed, not executed, and no other handler holds it.
TokenInv(t) ==
    /\ performed[t] \in {0, 1}
    /\ performed[t] = 1 => pending[t] # Null /\ pending[t].consumed
    /\ \A h \in Handlers : Holds(h, t) =>
           /\ performed[t] = 0
           /\ pending[t] # Null /\ pending[t].consumed
           /\ \A g \in Handlers : Holds(g, t) => g = h

IInv == TypeOK /\ \A t \in Tokens : TokenInv(t)

-----------------------------------------------------------------------------
(* The invariant holds at the start, and every step preserves it.          *)

\* A choice among the five channels has a first one.
LEMMA FirstPlace ==
    ASSUME NEW places, places \subseteq 1 .. 5, places # {}
    PROVE  Min(places) \in places
<1>1. PICK i \in places : TRUE OBVIOUS
<1>2. \E m \in places : \A n \in places : m <= n
  <2>1. CASE 1 \in places BY <2>1
  <2>2. CASE 1 \notin places /\ 2 \in places BY <2>2
  <2>3. CASE 1 \notin places /\ 2 \notin places /\ 3 \in places BY <2>3
  <2>4. CASE 1 \notin places /\ 2 \notin places /\ 3 \notin places /\ 4 \in places BY <2>4
  <2>5. CASE 1 \notin places /\ 2 \notin places /\ 3 \notin places /\ 4 \notin places
    BY <1>1, <2>5
  <2>6. QED BY <2>1, <2>2, <2>3, <2>4, <2>5
<1>3. QED BY <1>2 DEF Min

\* The channel of an alternate is one of the channels.
LEMMA AlternateType ==
    ASSUME NEW origin, NEW paired
    PROVE  PickAlternateChannel(origin, paired) \in ApproveChannels \cup {Null}
<1> DEFINE places == {i \in DOMAIN Channels : Channels[i] # origin /\ Channels[i] \in paired}
<1>1. DOMAIN Channels = 1 .. 5 BY DEF Channels
<1>2. CASE places = {} BY <1>2 DEF PickAlternateChannel
<1>3. CASE places # {}
  <2>1. Min(places) \in places BY <1>1, <1>3, FirstPlace
  <2>2. Channels[Min(places)] \in ApproveChannels BY <2>1 DEF ApproveChannels, ToSet
  <2>3. QED BY <1>3, <2>2 DEF PickAlternateChannel
<1>4. QED BY <1>2, <1>3

\* The requirement create stores is a channel, TOTP or nothing.
LEMMA RequiredType ==
    ASSUME NEW class, NEW session
    PROVE  ResolveRequiredChannel(class, session) \in ApproveChannels \cup {Null}
BY AlternateType DEF ResolveRequiredChannel, ApproveChannels

\* No token is held or executed before the first request.
LEMMA IInvInit == Init => IInv
<1> SUFFICES ASSUME Init PROVE IInv
  OBVIOUS
<1>1. TypeOK BY DEF Init, TypeOK, Idle
<1>2. \A t \in Tokens : TokenInv(t) BY DEF Init, TokenInv, Holds, Idle
<1>3. QED BY <1>1, <1>2 DEF IInv

\* The handler's token, while it is under way.
LEMMA HandlerType ==
    ASSUME TypeOK, NEW h \in Handlers, handlers[h].at # "idle"
    PROVE  /\ handlers[h] \in Handler /\ handlers[h] # Idle
           /\ handlers[h].token \in Tokens /\ pending[handlers[h].token] \in Pending
BY DEF TypeOK, Handler, Idle

\* A new row is unconsumed, and no handler can hold its token yet.
LEMMA RequestStep ==
    ASSUME IInv, NEW id \in Requested, NEW prov, NEW skill, NEW session \in Sessions,
           NEW token \in Tokens, Request(id, prov, skill, session, token)
    PROVE  IInv'
<1> USE DEF IInv
<1>1. PICK required \in ApproveChannels \cup {Null} : Create(token, id, session, required)
  BY RequiredType DEF Request
<1> DEFINE row == [id |-> id, origin |-> session, hinted |-> required,
                   required |-> IF settings.has2faCols THEN required ELSE Null,
                   expires |-> clock + Ttl, consumed |-> FALSE]
<1>2. row \in Pending
  <2>1. clock + Ttl \in Nat BY ApprovalAssumption DEF TypeOK
  <2>2. QED BY <2>1 DEF Pending
<1>3. row # Null /\ ~ row.consumed BY <1>2, ApprovalAssumption
<1>4. pending' = [pending EXCEPT ![token] = row] BY <1>1 DEF Create
<1> HIDE DEF row
<1>5. /\ UNCHANGED <<settings, mcp, deps, changes, clock, handlers, performed, refused, by, crashes>>
      /\ pending[token] = Null
  BY DEF Request
<1>6. TypeOK' BY <1>2, <1>3, <1>4, <1>5 DEF TypeOK
<1>7. ASSUME NEW t \in Tokens PROVE TokenInv(t)'
  <2>1. CASE t = token
    <3>1. performed[t] = 0 /\ \A h \in Handlers : ~ Holds(h, t) BY <1>5, <2>1 DEF TokenInv
    <3>2. QED BY <3>1, <1>5 DEF TokenInv, Holds
  <2>2. CASE t # token
    <3>1. pending'[t] = pending[t] BY <1>4, <2>2 DEF TypeOK
    <3>2. QED BY <3>1, <1>5 DEF TokenInv, Holds
  <2>3. QED BY <2>1, <2>2
<1>8. QED BY <1>6, <1>7

\* A handler moves without taking hold of a token, and the store stays as it is.
LEMMA HandlerMoves ==
    ASSUME IInv, NEW h \in Handlers, NEW s \in Handler \cup {Idle}, s.at # "consumed",
           s # Idle => pending[s.token] # Null,
           handlers' = [handlers EXCEPT ![h] = s],
           UNCHANGED <<settings, mcp, deps, changes, clock, pending, performed, refused, by>>,
           crashes' \in Nat
    PROVE  IInv'
<1> USE DEF IInv
<1>1. TypeOK' BY DEF TypeOK
<1>2. ASSUME NEW g \in Handlers, NEW t, Holds(g, t)' PROVE Holds(g, t)
  BY <1>2 DEF Holds, TypeOK
<1>3. \A t \in Tokens : TokenInv(t)' BY <1>2 DEF TokenInv
<1>4. QED BY <1>1, <1>3

\* A handler that has passed the check holds nothing.
LEMMA ApproveStep ==
    ASSUME IInv, NEW h \in Handlers, NEW token \in Tokens, NEW session \in Sessions, NEW code,
           Approve(h, token, session, code)
    PROVE  IInv'
<1> DEFINE s == [at |-> "checked", token |-> token, session |-> session]
<1>1. s \in Handler /\ s.at # "consumed" /\ s.token = token BY DEF Handler
<1>2. pending[token] # Null BY DEF Approve, Peek, Alive
<1>3. handlers' = [handlers EXCEPT ![h] = s] BY DEF Approve
<1> HIDE DEF s
<1>4. QED BY <1>1, <1>2, <1>3, HandlerMoves DEF Approve, IInv, TypeOK

\* The SELECT of consume takes no hold of the token.
LEMMA ConsumePeekStep ==
    ASSUME IInv, NEW h \in Handlers, ConsumePeek(h)
    PROVE  IInv'
<1> DEFINE s == IF Peek(handlers[h].token) = Null THEN Idle ELSE [handlers[h] EXCEPT !.at = "consuming"]
<1>1. /\ handlers[h] \in Handler /\ pending[handlers[h].token] # Null
  BY HandlerType, ApprovalAssumption DEF ConsumePeek, IInv
<1>2. /\ s \in Handler \cup {Idle} /\ s.at # "consumed"
      /\ s # Idle => s.token = handlers[h].token
  BY <1>1 DEF Handler, Idle
<1>3. handlers' = [handlers EXCEPT ![h] = s] BY DEF ConsumePeek, IInv, TypeOK
<1> HIDE DEF s
<1>4. /\ UNCHANGED <<settings, mcp, deps, changes, clock, pending, performed, refused, by, crashes>>
      /\ s # Idle => pending[s.token] # Null
      /\ crashes \in Nat
  BY <1>1, <1>2 DEF ConsumePeek, IInv, TypeOK
<1>5. QED BY <1>2, <1>3, <1>4, HandlerMoves

\* The guarded UPDATE gives a token to one handler: it was not consumed before.
LEMMA ConsumeUpdateStep ==
    ASSUME IInv, NEW h \in Handlers, ConsumeUpdate(h)
    PROVE  IInv'
<1> USE DEF IInv
<1> SUFFICES ASSUME NEW token, token = handlers[h].token PROVE IInv'
  OBVIOUS
<1>1. /\ handlers[h] \in Handler /\ token \in Tokens /\ pending[token] \in Pending
      /\ pending[token] # Null /\ handlers[h].at = "consuming" /\ handlers[h].session \in Sessions
  BY HandlerType, ApprovalAssumption DEF ConsumeUpdate, Handler
<1>2. CASE pending[token].consumed
  <2>1. /\ handlers' = [handlers EXCEPT ![h] = Idle] /\ Idle.at # "consumed"
        /\ UNCHANGED <<settings, mcp, deps, changes, clock, pending, performed, refused, by, crashes>>
    BY <1>2 DEF ConsumeUpdate, Idle
  <2>2. QED BY <2>1, HandlerMoves DEF TypeOK
<1>3. CASE ~ pending[token].consumed
  <2> DEFINE row == [pending[token] EXCEPT !.consumed = TRUE]
             s == [handlers[h] EXCEPT !.at = "consumed"]
  <2>1. row \in Pending /\ row.consumed BY <1>1 DEF Pending
  <2>2. s \in Handler /\ s.at = "consumed" /\ s.token = token BY <1>1 DEF Handler
  <2>3. /\ pending' = [pending EXCEPT ![token] = row]
        /\ handlers' = [handlers EXCEPT ![h] = s]
        /\ by' = [by EXCEPT ![token] = handlers[h].session]
        /\ UNCHANGED <<settings, mcp, deps, changes, clock, performed, refused, crashes>>
    BY <1>1, <1>3 DEF ConsumeUpdate
  <2> HIDE DEF row, s
  <2>4. row # Null BY <2>1, ApprovalAssumption
  <2>5. TypeOK' BY <1>1, <2>1, <2>2, <2>3, <2>4 DEF TypeOK
  <2>6. /\ performed[token] = 0 /\ \A g \in Handlers : ~ Holds(g, token)
    BY <1>1, <1>3 DEF TokenInv
  <2>7. ASSUME NEW t \in Tokens PROVE TokenInv(t)'
    <3>1. \A g \in Handlers : g # h => (Holds(g, t)' <=> Holds(g, t))
      BY <2>3 DEF Holds, TypeOK
    <3>2. CASE t = token
      <4>1. pending'[t] = row BY <2>3, <3>2, <1>1 DEF TypeOK
      <4>2. \A g \in Handlers : Holds(g, t)' => g = h BY <2>6, <3>1, <3>2
      <4>3. QED BY <2>1, <2>3, <2>4, <2>6, <3>2, <4>1, <4>2 DEF TokenInv
    <3>3. CASE t # token
      <4>1. pending'[t] = pending[t] BY <2>3, <3>3 DEF TypeOK
      <4>2. ~ Holds(h, t)' BY <2>2, <2>3, <3>3 DEF Holds, TypeOK
      <4>3. QED BY <2>3, <3>1, <4>1, <4>2 DEF TokenInv
    <3>4. QED BY <3>2, <3>3
  <2>8. QED BY <2>5, <2>7
<1>4. QED BY <1>2, <1>3

\* The holder executes the action, or the gate refuses it, and lets go of the token.
LEMMA PerformStep ==
    ASSUME IInv, NEW h \in Handlers, Perform(h)
    PROVE  IInv'
<1> USE DEF IInv
<1> SUFFICES ASSUME NEW token, token = handlers[h].token PROVE IInv'
  OBVIOUS
<1>1. handlers[h].at = "consumed" /\ token \in Tokens BY HandlerType DEF Perform
<1>2. Holds(h, token) BY <1>1 DEF Holds
<1>3. /\ performed[token] = 0 /\ pending[token] # Null /\ pending[token].consumed
      /\ \A g \in Handlers : Holds(g, token) => g = h
  BY <1>1, <1>2 DEF TokenInv
<1>4. /\ UNCHANGED <<settings, mcp, deps, changes, clock, pending, by, crashes>>
      /\ handlers' = [handlers EXCEPT ![h] = Idle]
      /\ \/ performed' = [performed EXCEPT ![token] = @ + 1] /\ UNCHANGED refused
         \/ refused' = refused \cup {token} /\ UNCHANGED performed
  BY DEF Perform
<1>5. TypeOK' BY <1>1, <1>4 DEF TypeOK
<1>6. ASSUME NEW t \in Tokens PROVE TokenInv(t)'
  <2>1. ~ Holds(h, t)' /\ \A g \in Handlers : g # h => (Holds(g, t)' <=> Holds(g, t))
    BY <1>4 DEF Holds, Idle, TypeOK
  <2>2. CASE t = token
    <3>1. performed'[t] \in {0, 1} BY <1>3, <1>4, <2>2 DEF TypeOK
    <3>2. \A g \in Handlers : ~ Holds(g, t)' BY <1>3, <2>1, <2>2
    <3>3. QED BY <1>3, <1>4, <2>2, <3>1, <3>2 DEF TokenInv
  <2>3. CASE t # token
    <3>1. performed'[t] = performed[t] BY <1>4, <2>3 DEF TypeOK
    <3>2. QED BY <1>4, <2>1, <3>1 DEF TokenInv
  <2>4. QED BY <2>2, <2>3
<1>7. QED BY <1>5, <1>6

\* A handler that dies lets go of what it held.
LEMMA CrashStep ==
    ASSUME IInv, NEW h \in Handlers, Crash(h)
    PROVE  IInv'
<1>1. /\ handlers' = [handlers EXCEPT ![h] = Idle] /\ Idle.at # "consumed"
      /\ UNCHANGED <<settings, mcp, deps, changes, clock, pending, performed, refused, by>>
      /\ crashes' = crashes + 1
  BY DEF Crash, Idle
<1>2. crashes' \in Nat BY <1>1 DEF IInv, TypeOK
<1>3. QED BY <1>1, <1>2, HandlerMoves

\* The registry, the health of the gate and the clock do not touch the tokens.
LEMMA WorldStep ==
    ASSUME IInv, UNCHANGED <<settings, pending, handlers, performed, refused, by, crashes>>,
           mcp' \in [McpIds -> McpSpecs \cup {Null}],
           deps' \in [brokerAvailable : BOOLEAN, gateHealthy : BOOLEAN],
           changes' \in Nat, clock' \in Nat
    PROVE  IInv'
<1>1. TypeOK' BY DEF IInv, TypeOK
<1>2. \A t \in Tokens : TokenInv(t)' BY DEF IInv, TokenInv, Holds
<1>3. QED BY <1>1, <1>2 DEF IInv

\* Every step preserves the invariant.
LEMMA IInvStep == IInv /\ [Next]_vars => IInv'
<1> SUFFICES ASSUME IInv, [Next]_vars PROVE IInv'
  OBVIOUS
<1>1. TypeOK BY DEF IInv
<1>2. CASE \E id \in Requested, prov \in Provenances, skill \in Classes \cup {Null},
             session \in Sessions, token \in Tokens : Request(id, prov, skill, session, token)
  BY <1>2, RequestStep
<1>3. ASSUME NEW h \in Handlers,
             \/ \E token \in Tokens, session \in Sessions, code \in (0 .. clock) \cup {Null} :
                    Approve(h, token, session, code)
             \/ ConsumePeek(h) \/ ConsumeUpdate(h) \/ Perform(h) \/ Crash(h)
      PROVE  IInv'
  BY <1>3, ApproveStep, ConsumePeekStep, ConsumeUpdateStep, PerformStep, CrashStep
<1>4. ASSUME NEW id \in McpIds, NEW spec \in McpSpecs, RegisterMcpTool(id, spec) PROVE IInv'
  BY <1>1, <1>4, WorldStep DEF RegisterMcpTool, Change, TypeOK
<1>5. CASE ClearMcpActions BY <1>1, <1>5, WorldStep DEF ClearMcpActions, Change, TypeOK
<1>6. CASE DepsChange BY <1>1, <1>6, WorldStep DEF DepsChange, Change, TypeOK
<1>7. CASE Tick
  <2>1. clock' \in Nat BY <1>1, <1>7 DEF Tick, TypeOK
  <2>2. QED BY <1>1, <1>7, <2>1, WorldStep DEF Tick, TypeOK
<1>8. CASE UNCHANGED vars BY <1>1, <1>8, WorldStep DEF vars, TypeOK
<1>9. QED BY <1>2, <1>3, <1>4, <1>5, <1>6, <1>7, <1>8 DEF Next

\* The invariant holds in every reachable state.
LEMMA IInvAlways == Spec => []IInv
BY IInvInit, IInvStep, PTL DEF Spec

-----------------------------------------------------------------------------
(* What follows of it.                                                     *)

\* Every variable keeps its type, and a handler under way holds an existing row.
THEOREM TypeCorrect == Spec => []TypeOK
<1>1. IInv => TypeOK BY DEF IInv
<1>2. QED BY <1>1, IInvAlways, PTL

\* However many /approve handlers race for a token, its action runs at most once.
THEOREM ExecutedOnce == Spec => []AtMostOnce
<1>1. IInv => AtMostOnce BY DEF IInv, TokenInv, AtMostOnce
<1>2. QED BY <1>1, IInvAlways, PTL

-----------------------------------------------------------------------------
(* The gate keeps the promise of HumanGate.                                *)

TicketOf == [t \in Tokens |-> Ticket(t)]

\* Where the store and the holders stay, no ticket moves.
LEMMA TicketsStay ==
    ASSUME UNCHANGED <<pending, performed>>,
           \A t \in Tokens, h \in Handlers : Holds(h, t)' <=> Holds(h, t)
    PROVE  TicketOf' = TicketOf
<1>1. \A t \in Tokens : Ticket(t)' = Ticket(t) BY DEF Ticket, Holds
<1>2. QED BY <1>1 DEF TicketOf

\* Where one token's ticket changes, that of the others stays.
LEMMA OneTicketMoves ==
    ASSUME NEW token \in Tokens, NEW to, Ticket(token)' = to,
           \A t \in Tokens : t # token =>
               /\ pending'[t] = pending[t] /\ performed'[t] = performed[t]
               /\ \A h \in Handlers : Holds(h, t)' <=> Holds(h, t)
    PROVE  TicketOf' = [TicketOf EXCEPT ![token] = to]
<1>1. \A t \in Tokens : t # token => Ticket(t)' = Ticket(t) BY DEF Ticket, Holds
<1>2. QED BY <1>1 DEF TicketOf

\* A handler that moves before it holds a token: nothing the owner could see.
LEMMA HandlerStutters ==
    ASSUME IInv, NEW h \in Handlers, NEW s, handlers' = [handlers EXCEPT ![h] = s],
           s.at # "consumed", handlers[h].at # "consumed", UNCHANGED <<pending, performed>>
    PROVE  UNCHANGED <<TicketOf, performed>>
<1>1. \A t \in Tokens, g \in Handlers : Holds(g, t)' <=> Holds(g, t)
  BY DEF Holds, IInv, TypeOK
<1>2. QED BY <1>1, TicketsStay

\* A handler lets go of the token it held.
LEMMA HandlerLetsGo ==
    ASSUME IInv, NEW h \in Handlers, NEW token \in Tokens, Holds(h, token),
           handlers' = [handlers EXCEPT ![h] = Idle], UNCHANGED pending
    PROVE  /\ \A g \in Handlers : ~ Holds(g, token)'
           /\ \A t \in Tokens \ {token}, g \in Handlers : Holds(g, t)' <=> Holds(g, t)
<1>1. ~ Holds(h, token)' /\ \A g \in Handlers \ {h}, t \in Tokens : Holds(g, t)' <=> Holds(g, t)
  BY DEF Holds, Idle, IInv, TypeOK
<1>2. \A g \in Handlers : Holds(g, token) => g = h BY DEF IInv, TokenInv
<1>3. \A t \in Tokens \ {token} : ~ Holds(h, t) /\ ~ Holds(h, t)' BY DEF Holds, Idle, IInv, TypeOK
<1>4. QED BY <1>1, <1>2, <1>3

\* Before the first request no ticket is out.
LEMMA GateInit == Init => Gate!Init
<1> SUFFICES ASSUME Init PROVE Gate!Init
  OBVIOUS
<1>1. \A t \in Tokens : Ticket(t) = "none" BY DEF Init, Ticket
<1>2. QED BY <1>1 DEF Gate!Init, Init

\* A request is the Ask of its ticket.
LEMMA GateRequest ==
    ASSUME IInv, NEW id \in Requested, NEW prov, NEW skill, NEW session \in Sessions,
           NEW token \in Tokens, Request(id, prov, skill, session, token)
    PROVE  Gate!Next
<1>1. PICK row : /\ pending' = [pending EXCEPT ![token] = row]
                 /\ ~ row.consumed /\ row \in Pending
  <2>1. PICK required \in ApproveChannels \cup {Null} : Create(token, id, session, required)
    BY RequiredType DEF Request
  <2> DEFINE row == [id |-> id, origin |-> session, hinted |-> required,
                     required |-> IF settings.has2faCols THEN required ELSE Null,
                     expires |-> clock + Ttl, consumed |-> FALSE]
  <2>2. clock + Ttl \in Nat BY ApprovalAssumption DEF IInv, TypeOK
  <2>3. row \in Pending /\ ~ row.consumed BY <2>2 DEF Pending
  <2>4. pending' = [pending EXCEPT ![token] = row] BY <2>1 DEF Create
  <2>5. QED BY <2>3, <2>4
<1>2. /\ UNCHANGED <<handlers, performed>> /\ pending[token] = Null BY DEF Request
<1>3. /\ pending'[token] = row
      /\ \A t \in Tokens : t # token => pending'[t] = pending[t]
  BY <1>1 DEF IInv, TypeOK
<1>4. Ticket(token) = "none" BY <1>2 DEF Ticket
<1>5. Ticket(token)' = "waiting" BY <1>1, <1>3, ApprovalAssumption DEF Ticket
<1>6. TicketOf' = [TicketOf EXCEPT ![token] = "waiting"]
  BY <1>2, <1>3, <1>5, OneTicketMoves DEF Holds
<1>7. Gate!Ask(token) BY <1>2, <1>4, <1>6 DEF Gate!Ask, Gate!Move, TicketOf
<1>8. QED BY <1>7 DEF Gate!Next

\* The UPDATE that changes a row is the Grant of its ticket, any other is a stutter.
LEMMA GateConsume ==
    ASSUME IInv, NEW h \in Handlers, ConsumeUpdate(h)
    PROVE  Gate!Next \/ UNCHANGED <<TicketOf, performed>>
<1> SUFFICES ASSUME NEW token, token = handlers[h].token
             PROVE  Gate!Next \/ UNCHANGED <<TicketOf, performed>>
  OBVIOUS
<1>1. /\ handlers[h] \in Handler /\ token \in Tokens /\ pending[token] \in Pending
      /\ pending[token] # Null /\ handlers[h].at = "consuming"
  BY HandlerType, ApprovalAssumption DEF ConsumeUpdate, Handler, IInv
<1>2. CASE pending[token].consumed
  <2>1. /\ handlers' = [handlers EXCEPT ![h] = Idle] /\ Idle.at # "consumed"
        /\ UNCHANGED <<pending, performed>>
    BY <1>2 DEF ConsumeUpdate, Idle
  <2>2. QED BY <1>1, <2>1, HandlerStutters
<1>3. CASE ~ pending[token].consumed
  <2> DEFINE row == [pending[token] EXCEPT !.consumed = TRUE]
             s == [handlers[h] EXCEPT !.at = "consumed"]
  <2>1. row \in Pending /\ row.consumed BY <1>1 DEF Pending
  <2>2. s.at = "consumed" /\ s.token = token BY <1>1 DEF Handler
  <2>3. /\ pending' = [pending EXCEPT ![token] = row] /\ handlers' = [handlers EXCEPT ![h] = s]
        /\ UNCHANGED performed
    BY <1>1, <1>3 DEF ConsumeUpdate
  <2> HIDE DEF row, s
  <2>4. Holds(h, token)' /\ \A g \in Handlers \ {h}, t \in Tokens : Holds(g, t)' <=> Holds(g, t)
    BY <2>2, <2>3 DEF Holds, IInv, TypeOK
  <2>5. \A t \in Tokens \ {token} : ~ Holds(h, t) /\ ~ Holds(h, t)'
    BY <1>1, <2>2, <2>3 DEF Holds, IInv, TypeOK
  <2>6. /\ pending'[token] = row /\ performed'[token] = performed[token]
        /\ performed[token] = 0
        /\ \A t \in Tokens : t # token => pending'[t] = pending[t]
    BY <1>1, <1>3, <2>3 DEF IInv, TypeOK, TokenInv
  <2>7. Ticket(token) = "waiting" BY <1>1, <1>3 DEF Ticket
  <2>8. Ticket(token)' = "granted"
    BY <2>1, <2>4, <2>6, ApprovalAssumption DEF Ticket, Holds
  <2>9. TicketOf' = [TicketOf EXCEPT ![token] = "granted"]
    BY <1>1, <2>3, <2>4, <2>5, <2>6, <2>8, OneTicketMoves
  <2>10. Gate!Grant(token) BY <1>1, <2>3, <2>7, <2>9 DEF Gate!Grant, Gate!Move, TicketOf
  <2>11. QED BY <1>1, <2>10 DEF Gate!Next
<1>4. QED BY <1>2, <1>3

\* Execution, denial and a crash end a grant.
LEMMA GateEnds ==
    ASSUME IInv, NEW h \in Handlers, handlers[h].at = "consumed",
           handlers' = [handlers EXCEPT ![h] = Idle], UNCHANGED pending,
           \/ UNCHANGED performed
           \/ performed' = [performed EXCEPT ![handlers[h].token] = @ + 1]
    PROVE  Gate!Next
<1> SUFFICES ASSUME NEW token, token = handlers[h].token PROVE Gate!Next
  OBVIOUS
<1>1. token \in Tokens /\ Holds(h, token) BY HandlerType DEF Holds, IInv
<1>2. /\ performed[token] = 0 /\ pending[token] # Null /\ pending[token].consumed
  BY <1>1 DEF IInv, TokenInv
<1>3. /\ \A g \in Handlers : ~ Holds(g, token)'
      /\ \A t \in Tokens \ {token}, g \in Handlers : Holds(g, t)' <=> Holds(g, t)
  BY <1>1, HandlerLetsGo
<1>4. Ticket(token) = "granted" BY <1>1, <1>2 DEF Ticket, Holds
<1>5. CASE UNCHANGED performed
  <2>1. Ticket(token)' = "void" BY <1>2, <1>3, <1>5 DEF Ticket, Holds
  <2>2. TicketOf' = [TicketOf EXCEPT ![token] = "void"] BY <1>1, <1>3, <1>5, <2>1, OneTicketMoves
  <2>3. Gate!Void(token) BY <1>1, <1>4, <1>5, <2>2 DEF Gate!Void, Gate!Move, TicketOf
  <2>4. QED BY <1>1, <2>3 DEF Gate!Next
<1>6. CASE performed' = [performed EXCEPT ![token] = @ + 1]
  <2>1. performed'[token] = 1 /\ \A t \in Tokens : t # token => performed'[t] = performed[t]
    BY <1>1, <1>2, <1>6 DEF IInv, TypeOK
  <2>2. Ticket(token)' = "performed" BY <1>2, <2>1 DEF Ticket
  <2>3. TicketOf' = [TicketOf EXCEPT ![token] = "performed"]
    BY <1>1, <1>3, <2>1, <2>2, OneTicketMoves
  <2>4. Gate!Perform(token) BY <1>1, <1>4, <1>6, <2>3 DEF Gate!Perform, Gate!Move, TicketOf
  <2>5. QED BY <1>1, <2>4 DEF Gate!Next
<1>7. QED BY <1>5, <1>6

\* Every step is a step of HumanGate on one ticket, or a stutter.
LEMMA GateStep == IInv /\ [Next]_vars => [Gate!Next]_<<TicketOf, performed>>
<1> SUFFICES ASSUME IInv, [Next]_vars PROVE Gate!Next \/ UNCHANGED <<TicketOf, performed>>
  OBVIOUS
<1>1. CASE \E id \in Requested, prov \in Provenances, skill \in Classes \cup {Null},
             session \in Sessions, token \in Tokens : Request(id, prov, skill, session, token)
  BY <1>1, GateRequest
<1>2. ASSUME NEW h \in Handlers, NEW token \in Tokens, NEW session \in Sessions,
             NEW code, Approve(h, token, session, code)
      PROVE  UNCHANGED <<TicketOf, performed>>
  <2> DEFINE s == [at |-> "checked", token |-> token, session |-> session]
  <2>1. s.at # "consumed" /\ handlers[h].at # "consumed" /\ UNCHANGED <<pending, performed>>
        /\ handlers' = [handlers EXCEPT ![h] = s]
    BY <1>2 DEF Approve
  <2> HIDE DEF s
  <2>2. QED BY <2>1, HandlerStutters
<1>3. ASSUME NEW h \in Handlers, ConsumePeek(h) PROVE UNCHANGED <<TicketOf, performed>>
  <2> DEFINE s == IF Peek(handlers[h].token) = Null THEN Idle ELSE [handlers[h] EXCEPT !.at = "consuming"]
  <2>1. s.at # "consumed" BY HandlerType, <1>3 DEF Idle, Handler, IInv, ConsumePeek
  <2>2. handlers' = [handlers EXCEPT ![h] = s] BY <1>3 DEF ConsumePeek, IInv, TypeOK
  <2>3. handlers[h].at # "consumed" /\ UNCHANGED <<pending, performed>> BY <1>3 DEF ConsumePeek
  <2> HIDE DEF s
  <2>4. QED BY <2>1, <2>2, <2>3, HandlerStutters
<1>4. ASSUME NEW h \in Handlers, Perform(h) PROVE Gate!Next
  BY <1>4, GateEnds DEF Perform
<1>5. ASSUME NEW h \in Handlers, Crash(h) PROVE Gate!Next \/ UNCHANGED <<TicketOf, performed>>
  <2>1. /\ handlers' = [handlers EXCEPT ![h] = Idle] /\ Idle.at # "consumed"
        /\ UNCHANGED <<pending, performed>>
    BY <1>5 DEF Crash, Idle
  <2>2. QED BY <2>1, GateEnds, HandlerStutters
<1>6. ASSUME UNCHANGED <<pending, handlers, performed>> PROVE UNCHANGED <<TicketOf, performed>>
  BY <1>6, TicketsStay DEF Holds
<1>7. CASE \/ \E id \in McpIds, spec \in McpSpecs : RegisterMcpTool(id, spec)
           \/ ClearMcpActions \/ DepsChange \/ Tick \/ UNCHANGED vars
  BY <1>6, <1>7 DEF RegisterMcpTool, ClearMcpActions, DepsChange, Change, Tick, vars
<1>8. QED BY <1>1, <1>2, <1>3, <1>4, <1>5, <1>7, GateConsume DEF Next

\* Approval implements HumanGate: a ticket is asked for, granted by one approval,
\* executed once or void, and never revived.
THEOREM ImplementsHumanGate == Spec => GateSpec
<1>1. Init => Gate!Init BY GateInit
<1>2. IInv /\ [Next]_vars => [Gate!Next]_<<[t \in Tokens |-> Ticket(t)], performed>>
  BY GateStep DEF TicketOf
<1>3. Spec => Gate!Spec BY <1>1, <1>2, IInvAlways, PTL DEF Spec, Gate!Spec
<1>4. QED BY <1>3 DEF GateSpec

-----------------------------------------------------------------------------
(* The verdict.                                                            *)

LEMMA ClassesOrdered ==
    /\ Classes = {"read-only", "reversible", "irreversible"}
    /\ Order["read-only"] = 1 /\ Order["reversible"] = 2 /\ Order["irreversible"] = 3
<1>1. DOMAIN ActionClasses = 1 .. 3 BY DEF ActionClasses
<1>2. /\ ActionClasses[1] = "read-only" /\ ActionClasses[2] = "reversible"
      /\ ActionClasses[3] = "irreversible"
  BY DEF ActionClasses
<1>3. Classes = {"read-only", "reversible", "irreversible"} BY <1>1, <1>2 DEF Classes, ToSet
<1>4. ASSUME NEW n \in 1 .. 3 PROVE Order[ActionClasses[n]] = n
  <2>1. ActionClasses[n] \in Classes BY <1>1 DEF Classes, ToSet
  <2>2. \A i \in 1 .. 3 : ActionClasses[i] = ActionClasses[n] <=> i = n BY <1>2
  <2>3. QED BY <1>1, <2>1, <2>2 DEF Order
<1>5. QED BY <1>2, <1>3, <1>4

\* The verdicts get stricter with the class, for every provenance.
LEMMA VerdictMonotone ==
    ASSUME NEW class \in Classes, NEW skill \in Classes, NEW prov, NEW confirmed \in BOOLEAN
    PROVE  Strictness[Verdict(EffectiveClass(class, Null), prov, confirmed)]
               <= Strictness[Verdict(EffectiveClass(class, skill), prov, confirmed)]
<1>1. EffectiveClass(class, Null) = class BY DEF EffectiveClass
<1>2. EffectiveClass(class, skill) \in {c \in Classes : Order[class] <= Order[c]}
  BY ClassesOrdered DEF EffectiveClass
<1> DEFINE V(c) == Verdict(c, prov, confirmed)
<1>3. ASSUME NEW c \in Classes, NEW d \in Classes, Order[c] <= Order[d]
      PROVE  Strictness[V(c)] <= Strictness[V(d)]
  <2>1. /\ V("read-only") \in {"allow", "deny"} /\ V("reversible") \in {"allow", "deny"}
        /\ V("irreversible") \in {"allow", "deny", "confirm_required"}
        /\ V("read-only") = "deny" => V("reversible") = "deny"
        /\ V("reversible") = "deny" => V("irreversible") = "deny"
    BY DEF Verdict, TrustedForReadonly, TrustedForBackground, TrustedForEffect
  <2> HIDE DEF V
  <2>2. /\ Strictness["allow"] = 0 /\ Strictness["confirm_required"] = 1 /\ Strictness["deny"] = 2
    BY DEF Strictness
  <2>3. QED BY <1>3, <2>1, <2>2, ClassesOrdered
<1>4. QED BY <1>1, <1>2, <1>3

\* For every registry and every health of the gate, a skill's class only adds to
\* what an action needs.
THEOREM SkillOnlyRaises == Spec => []SkillNeverLowers
<1>1. TypeOK => SkillNeverLowers
  <2> SUFFICES ASSUME TypeOK, NEW id \in Requested, NEW skill \in Classes, NEW prov \in Provenances,
                      NEW confirmed \in BOOLEAN
               PROVE  LET req == [id |-> id, prov |-> prov, skill |-> Null, confirmed |-> confirmed]
                      IN  Strictness[Evaluate(req)] <= Strictness[Evaluate([req EXCEPT !.skill = skill])]
    BY DEF SkillNeverLowers
  <2> DEFINE req == [id |-> id, prov |-> prov, skill |-> Null, confirmed |-> confirmed]
             raised == [req EXCEPT !.skill = skill]
             denied == \/ ~deps.gateHealthy \/ SpecOf(id) = Null
                       \/ SpecOf(id) # Null /\ SpecOf(id).requiresBroker /\ ~deps.brokerAvailable
  <2>1. /\ req.id = id /\ req.prov = prov /\ req.skill = Null /\ req.confirmed = confirmed
        /\ raised.id = id /\ raised.prov = prov /\ raised.skill = skill /\ raised.confirmed = confirmed
    OBVIOUS
  <2> HIDE DEF req, raised
  <2>2. CASE denied
    <3>1. Evaluate(req) = "deny" /\ Evaluate(raised) = "deny" BY <2>1, <2>2 DEF Evaluate
    <3>2. QED BY <3>1 DEF Strictness, req, raised
  <2>3. CASE ~ denied
    <3> DEFINE class == SpecOf(id).actionClass
    <3>1. class \in Classes
      BY <2>3, ClassesOrdered, ApprovalAssumption DEF SpecOf, CoreSpec, TypeOK, ActionSpec
    <3>2. /\ Evaluate(req) = Verdict(EffectiveClass(class, Null), prov, confirmed)
          /\ Evaluate(raised) = Verdict(EffectiveClass(class, skill), prov, confirmed)
      BY <2>1, <2>3 DEF Evaluate
    <3>3. QED BY <3>1, <3>2, VerdictMonotone DEF req, raised
  <2>4. QED BY <2>2, <2>3
<1>2. QED BY <1>1, TypeCorrect, PTL

-----------------------------------------------------------------------------
(* The second factor.                                                      *)

TwoChannels ==
    /\ settings.crossChannel /\ settings.has2faCols
    /\ "irreversible" \in settings.classes
    /\ settings.paired = {"telegram", "discord"}

\* What a row requires is the other channel; who was let through, and whose approval was
\* taken, came from there.
FactorOK(t) ==
    pending[t] # Null /\ ChannelOf[pending[t].origin] # Null =>
        /\ pending[t].required \in {"telegram", "discord"} \ {ChannelOf[pending[t].origin]}
        /\ \A h \in Handlers : handlers[h].at # "idle" /\ handlers[h].token = t =>
               ChannelOf[handlers[h].session] = pending[t].required
        /\ pending[t].consumed => ChannelOf[by[t]] = pending[t].required

FactorInv == TwoChannels => \A t \in Tokens : FactorOK(t)

\* Only what is irreversible has to be confirmed.
LEMMA ConfirmedIsIrreversible ==
    ASSUME TypeOK, NEW id \in Requested, NEW prov, NEW skill \in Classes \cup {Null},
           Evaluate([id |-> id, prov |-> prov, skill |-> skill, confirmed |-> FALSE]) = "confirm_required"
    PROVE  EffectiveClass(SpecOf(id).actionClass, skill) = "irreversible"
<1> DEFINE class == SpecOf(id).actionClass
<1>1. SpecOf(id) # Null /\ Verdict(EffectiveClass(class, skill), prov, FALSE) = "confirm_required"
  BY DEF Evaluate
<1>2. class \in Classes
  BY <1>1, ClassesOrdered, ApprovalAssumption DEF SpecOf, CoreSpec, TypeOK, ActionSpec
<1>3. EffectiveClass(class, skill) \in {"read-only", "reversible", "irreversible"}
  BY <1>2, ClassesOrdered DEF EffectiveClass
<1>4. QED BY <1>1, <1>3 DEF Verdict

\* A channel is neither TOTP nor nothing.
LEMMA ChannelIsNamed ==
    ASSUME NEW channel \in {"telegram", "discord"}
    PROVE  channel # Null /\ channel # "totp"
<1>1. DOMAIN Channels = 1 .. 5 /\ Channels[1] = "telegram" /\ Channels[2] = "discord"
  BY DEF Channels
<1>2. channel \in ToSet(Channels)
  BY <1>1 DEF ToSet
<1>3. QED BY <1>2, ApprovalAssumption DEF ApproveChannels

\* With two paired channels the one a request did not come from is required.
LEMMA RequiredIsOther ==
    ASSUME TypeOK, TwoChannels, NEW session \in Sessions, ChannelOf[session] # Null
    PROVE  ResolveRequiredChannel("irreversible", session)
               \in {"telegram", "discord"} \ {ChannelOf[session]}
<1> DEFINE origin == ChannelOf[session]
           pair == {"telegram", "discord"}
           places == {i \in DOMAIN Channels : Channels[i] # origin /\ Channels[i] \in pair}
<1>1. Cardinality(pair) = 2
  <2>1. IsFiniteSet({"telegram"}) /\ Cardinality({"telegram"}) = 1
    BY FS_Singleton
  <2>2. pair = {"telegram"} \cup {"discord"} /\ "discord" \notin {"telegram"}
    OBVIOUS
  <2> HIDE DEF pair
  <2>3. QED BY <2>1, <2>2, FS_AddElement
<1>2. DOMAIN Channels = 1 .. 5 /\ Channels[1] = "telegram" /\ Channels[2] = "discord"
  BY DEF Channels
<1>3. 1 \in places \/ 2 \in places
  BY <1>2
<1>4. Min(places) \in places
  BY <1>2, <1>3, FirstPlace
<1>5. Channels[Min(places)] \in pair \ {origin}
  BY <1>4
<1>6. PickAlternateChannel(origin, pair) = Channels[Min(places)]
  BY <1>3 DEF PickAlternateChannel
<1>7. PickAlternateChannel(origin, pair) # Null
  BY <1>5, <1>6, ChannelIsNamed
<1>8. QED BY <1>1, <1>5, <1>6, <1>7 DEF ResolveRequiredChannel, TwoChannels

\* Handlers that go on, end or die, with the rows and the approvals taken as they were.
LEMMA FactorStays ==
    ASSUME FactorInv, UNCHANGED <<settings, pending, by>>,
           \A h \in Handlers : handlers'[h].at # "idle" =>
               /\ handlers[h].at # "idle"
               /\ handlers'[h].token = handlers[h].token
               /\ handlers'[h].session = handlers[h].session
    PROVE  FactorInv'
BY DEF FactorInv, FactorOK, TwoChannels

\* A new row requires the other channel, and nobody has its token yet.
LEMMA FactorRequest ==
    ASSUME IInv, FactorInv, NEW id \in Requested, NEW prov, NEW skill \in Classes \cup {Null},
           NEW session \in Sessions, NEW token \in Tokens, Request(id, prov, skill, session, token)
    PROVE  FactorInv'
<1> DEFINE required == ResolveRequiredChannel("irreversible", session)
           row == [id |-> id, origin |-> session, hinted |-> required,
                   required |-> IF settings.has2faCols THEN required ELSE Null,
                   expires |-> clock + Ttl, consumed |-> FALSE]
<1>1. EffectiveClass(SpecOf(id).actionClass, skill) = "irreversible"
  BY ConfirmedIsIrreversible DEF Request, IInv
<1>2. /\ pending' = [pending EXCEPT ![token] = row] /\ pending[token] = Null
      /\ UNCHANGED <<settings, handlers, by>>
  BY <1>1 DEF Request, Create
<1>3. \A h \in Handlers : handlers[h].at # "idle" => handlers[h].token # token
  BY <1>2 DEF IInv, TypeOK, Idle
<1>4. TwoChannels /\ ChannelOf[session] # Null => required \in {"telegram", "discord"} \ {ChannelOf[session]}
  BY RequiredIsOther DEF IInv
<1> HIDE DEF required
<1>5. row.origin = session /\ row.consumed = FALSE /\ (settings.has2faCols => row.required = required)
  OBVIOUS
<1> HIDE DEF row
<1>6. ASSUME TwoChannels', NEW t \in Tokens PROVE FactorOK(t)'
  <2>1. TwoChannels BY <1>2, <1>6 DEF TwoChannels
  <2>2. CASE t = token
    <3>1. pending'[t] = row BY <1>2, <2>2 DEF IInv, TypeOK
    <3>2. QED BY <1>2, <1>3, <1>4, <1>5, <2>1, <2>2, <3>1 DEF FactorOK, TwoChannels
  <2>3. CASE t # token
    <3>1. pending'[t] = pending[t] BY <1>2, <2>3 DEF IInv, TypeOK
    <3>2. QED BY <1>2, <2>1, <3>1 DEF FactorOK, FactorInv
  <2>4. QED BY <2>2, <2>3
<1>7. QED BY <1>6 DEF FactorInv

\* What passes the check comes from the channel the row requires, as mapRow keeps it.
LEMMA FactorApprove ==
    ASSUME IInv, FactorInv, NEW h \in Handlers, NEW token \in Tokens, NEW session \in Sessions,
           NEW code, Approve(h, token, session, code)
    PROVE  FactorInv'
<1> DEFINE s == [at |-> "checked", token |-> token, session |-> session]
<1>1. /\ handlers' = [handlers EXCEPT ![h] = s] /\ UNCHANGED <<settings, pending, by>>
      /\ Peek(token) = MapRow(pending[token]) /\ pending[token] # Null
      /\ CheckPendingApproval(MapRow(pending[token]), session, code)
  BY DEF Approve, Peek, Alive
<1>2. s.token = token /\ s.session = session /\ s.at = "checked"
  OBVIOUS
<1> HIDE DEF s
<1>3. ASSUME TwoChannels', NEW t \in Tokens PROVE FactorOK(t)'
  <2>1. FactorOK(t) BY <1>1, <1>3 DEF FactorInv, TwoChannels
  <2>2. CASE t = token
    <3>1. SUFFICES ASSUME ChannelOf[pending[t].origin] # Null
                   PROVE  ChannelOf[session] = pending[t].required
      BY <1>1, <1>2, <2>1 DEF FactorOK, IInv, TypeOK
    <3>2. pending[t].required \in {"telegram", "discord"}
      BY <1>1, <2>1, <2>2, <3>1 DEF FactorOK
    <3>3. pending[t] \in Pending
      BY <1>1, <2>2 DEF IInv, TypeOK
    <3>4. MapRow(pending[t]).required = pending[t].required
      BY <3>2, <3>3 DEF MapRow, Pending
    <3>5. pending[t].required # Null /\ pending[t].required # "totp"
      BY <3>2, ChannelIsNamed
    <3>6. QED BY <1>1, <2>2, <3>4, <3>5 DEF CheckPendingApproval
  <2>3. CASE t # token
    BY <1>1, <1>2, <2>1, <2>3 DEF FactorOK, IInv, TypeOK
  <2>4. QED BY <2>2, <2>3
<1>4. QED BY <1>3 DEF FactorInv

\* The approval that is taken is the handler's.
LEMMA FactorConsume ==
    ASSUME IInv, FactorInv, NEW h \in Handlers, ConsumeUpdate(h)
    PROVE  FactorInv'
<1> DEFINE token == handlers[h].token
           row == [pending[token] EXCEPT !.consumed = TRUE]
           s == [handlers[h] EXCEPT !.at = "consumed"]
<1>1. /\ handlers[h] \in Handler /\ token \in Tokens /\ pending[token] \in Pending
      /\ handlers[h].at = "consuming" /\ pending[token] # Null
  BY HandlerType, ApprovalAssumption DEF ConsumeUpdate, Handler, IInv
<1>2. CASE pending[token].consumed
  <2>1. handlers' = [handlers EXCEPT ![h] = Idle] /\ Idle.at = "idle" /\ UNCHANGED <<settings, pending, by>>
    BY <1>2 DEF ConsumeUpdate, Idle
  <2>2. QED BY <2>1, FactorStays DEF IInv, TypeOK
<1>3. CASE ~ pending[token].consumed
  <2>1. /\ pending' = [pending EXCEPT ![token] = row] /\ handlers' = [handlers EXCEPT ![h] = s]
        /\ by' = [by EXCEPT ![token] = handlers[h].session] /\ UNCHANGED settings
    BY <1>1, <1>3 DEF ConsumeUpdate
  <2>2. row.origin = pending[token].origin /\ row.required = pending[token].required
    BY <1>1 DEF Pending
  <2>3. s.token = token /\ s.session = handlers[h].session
    BY <1>1 DEF Handler
  <2>4. ChannelOf[pending[token].origin] # Null /\ TwoChannels =>
            ChannelOf[handlers[h].session] = pending[token].required
    BY <1>1 DEF FactorInv, FactorOK
  <2> HIDE DEF row, s, token
  <2>5. ASSUME TwoChannels', NEW t \in Tokens PROVE FactorOK(t)'
    <3>1. FactorOK(t) /\ TwoChannels BY <2>1, <2>5 DEF FactorInv, TwoChannels
    <3>2. CASE t = token
      <4>1. pending'[t] = row /\ by'[t] = handlers[h].session
        BY <1>1, <2>1, <3>2 DEF IInv, TypeOK
      <4>2. \A g \in Handlers : g # h => handlers'[g] = handlers[g]
        BY <2>1 DEF IInv, TypeOK
      <4>3. handlers'[h] = s
        BY <2>1 DEF IInv, TypeOK
      <4>4. QED BY <1>1, <2>2, <2>3, <2>4, <3>1, <3>2, <4>1, <4>2, <4>3 DEF FactorOK
    <3>3. CASE t # token
      <4>1. pending'[t] = pending[t] /\ by'[t] = by[t]
        BY <2>1, <3>3 DEF IInv, TypeOK
      <4>2. \A g \in Handlers : handlers'[g].at # "idle" /\ handlers'[g].token = t => handlers'[g] = handlers[g]
        BY <2>1, <2>3, <3>3 DEF IInv, TypeOK
      <4>3. QED BY <3>1, <4>1, <4>2 DEF FactorOK
    <3>4. QED BY <3>2, <3>3
  <2>6. QED BY <2>5 DEF FactorInv
<1>4. QED BY <1>2, <1>3

\* Every step keeps to the second factor.
LEMMA FactorStep == IInv /\ FactorInv /\ [Next]_vars => FactorInv'
<1> SUFFICES ASSUME IInv, FactorInv, [Next]_vars PROVE FactorInv'
  OBVIOUS
<1>1. ASSUME NEW id \in Requested, NEW prov \in Provenances, NEW skill \in Classes \cup {Null},
             NEW session \in Sessions, NEW token \in Tokens, Request(id, prov, skill, session, token)
      PROVE  FactorInv'
  BY <1>1, FactorRequest
<1>2. ASSUME NEW h \in Handlers, NEW token \in Tokens, NEW session \in Sessions,
             NEW code, Approve(h, token, session, code)
      PROVE  FactorInv'
  BY <1>2, FactorApprove
<1>3. ASSUME NEW h \in Handlers, ConsumeUpdate(h) PROVE FactorInv'
  BY <1>3, FactorConsume
<1>4. ASSUME NEW h \in Handlers, ConsumePeek(h) PROVE FactorInv'
  <2>1. /\ handlers' = [handlers EXCEPT ![h] = IF Peek(handlers[h].token) = Null THEN Idle
                                              ELSE [handlers[h] EXCEPT !.at = "consuming"]]
        /\ handlers[h] \in Handler /\ handlers[h].at # "idle" /\ UNCHANGED <<settings, pending, by>>
    BY <1>4, HandlerType DEF ConsumePeek, IInv, TypeOK
  <2>2. QED BY <2>1, FactorStays DEF Idle, Handler, IInv, TypeOK
<1>5. ASSUME NEW h \in Handlers, Perform(h) \/ Crash(h) PROVE FactorInv'
  <2>1. handlers' = [handlers EXCEPT ![h] = Idle] /\ UNCHANGED <<settings, pending, by>>
    BY <1>5 DEF Perform, Crash
  <2>2. QED BY <2>1, FactorStays DEF Idle, IInv, TypeOK
<1>6. CASE \/ \E id \in McpIds, spec \in McpSpecs : RegisterMcpTool(id, spec)
           \/ ClearMcpActions \/ DepsChange \/ Tick \/ UNCHANGED vars
  BY <1>6, FactorStays DEF RegisterMcpTool, ClearMcpActions, DepsChange, Change, Tick, vars
<1>7. QED BY <1>1, <1>2, <1>3, <1>4, <1>5, <1>6 DEF Next

\* With Telegram and Discord paired, an irreversible action that a chat asked for runs on an
\* approval from the other one only, for any number of racing handlers.
THEOREM SecondFactorIsHeld == Spec => []SecondFactorHeld
<1>1. Init => FactorInv
  BY DEF Init, FactorInv, FactorOK
<1>2. IInv /\ FactorInv => SecondFactorHeld
  <2> SUFFICES ASSUME IInv, FactorInv, NEW t \in Tokens, performed[t] > 0, TwoChannels,
                      ChannelOf[pending[t].origin] # Null
               PROVE  ChannelOf[by[t]] \in settings.paired \ {ChannelOf[pending[t].origin]}
    BY DEF SecondFactorHeld, TwoChannels
  <2>1. pending[t] # Null /\ pending[t].consumed
    BY DEF IInv, TokenInv
  <2>2. QED BY <2>1 DEF FactorInv, FactorOK, TwoChannels
<1>3. QED BY <1>1, <1>2, IInvAlways, FactorStep, PTL DEF Spec

-----------------------------------------------------------------------------
(* What becomes of a consumed token.                                       *)

Consumed == {t \in Tokens : pending[t] # Null /\ pending[t].consumed}
Ran == {t \in Tokens : performed[t] > 0}
Holders == {h \in Handlers : handlers[h].at = "consumed"}

\* Each of the sets has as many members as have come so far; a refused token was consumed
\* and is held by nobody.
LossInv ==
    /\ IsFiniteSet(Consumed) /\ IsFiniteSet(Ran) /\ IsFiniteSet(refused) /\ IsFiniteSet(Holders)
    /\ refused \subseteq Consumed
    /\ \A h \in Handlers, t \in refused : ~ Holds(h, t)
    /\ Cardinality(Consumed)
          <= Cardinality(Ran) + Cardinality(refused) + Cardinality(Holders) + crashes

\* Where no token is consumed, run, refused or dropped, nothing is lost.
LEMMA LossStays ==
    ASSUME LossInv, Consumed' = Consumed, Ran' = Ran, refused' = refused, crashes' = crashes,
           \A h \in Handlers, t \in Tokens : Holds(h, t)' <=> Holds(h, t),
           Holders' = Holders
    PROVE  LossInv'
BY DEF LossInv, Consumed

\* Handlers that move before they hold a token.
LEMMA LossMoves ==
    ASSUME IInv, LossInv, NEW h \in Handlers, NEW s, handlers' = [handlers EXCEPT ![h] = s],
           s.at # "consumed", handlers[h].at # "consumed",
           UNCHANGED <<pending, performed, refused, crashes>>
    PROVE  LossInv'
<1>1. Holders' = Holders /\ \A g \in Handlers, t \in Tokens : Holds(g, t)' <=> Holds(g, t)
  BY DEF Holders, Holds, IInv, TypeOK
<1>2. Consumed' = Consumed /\ Ran' = Ran
  BY DEF Consumed, Ran
<1>3. QED BY <1>1, <1>2, LossStays

\* A new row is not consumed.
LEMMA LossRequest ==
    ASSUME IInv, LossInv, NEW id \in Requested, NEW prov, NEW skill, NEW session \in Sessions,
           NEW token \in Tokens, Request(id, prov, skill, session, token)
    PROVE  LossInv'
<1>1. PICK required \in ApproveChannels \cup {Null} : Create(token, id, session, required)
  BY RequiredType DEF Request
<1> DEFINE row == [id |-> id, origin |-> session, hinted |-> required,
                   required |-> IF settings.has2faCols THEN required ELSE Null,
                   expires |-> clock + Ttl, consumed |-> FALSE]
<1>2. pending' = [pending EXCEPT ![token] = row] /\ ~ row.consumed
  BY <1>1 DEF Create
<1> HIDE DEF row
<1>3. pending[token] = Null /\ UNCHANGED <<handlers, performed, refused, crashes>>
  BY DEF Request
<1>4. ASSUME NEW t \in Tokens
      PROVE  pending'[t] # Null /\ pending'[t].consumed <=> pending[t] # Null /\ pending[t].consumed
  BY <1>2, <1>3 DEF IInv, TypeOK
<1>5. Consumed' = Consumed /\ Ran' = Ran /\ Holders' = Holders
  BY <1>3, <1>4 DEF Consumed, Ran, Holders
<1>6. QED BY <1>3, <1>5, LossStays DEF Holds

\* The UPDATE that takes a token adds it and its holder.
LEMMA LossConsume ==
    ASSUME IInv, LossInv, NEW h \in Handlers, ConsumeUpdate(h)
    PROVE  LossInv'
<1> DEFINE token == handlers[h].token
           row == [pending[token] EXCEPT !.consumed = TRUE]
           s == [handlers[h] EXCEPT !.at = "consumed"]
<1>1. /\ handlers[h] \in Handler /\ token \in Tokens /\ pending[token] \in Pending
      /\ handlers[h].at = "consuming" /\ pending[token] # Null
  BY HandlerType, ApprovalAssumption DEF ConsumeUpdate, Handler, IInv
<1>2. CASE pending[token].consumed
  <2>1. handlers' = [handlers EXCEPT ![h] = Idle] /\ Idle.at # "consumed"
        /\ UNCHANGED <<pending, performed, refused, crashes>>
    BY <1>2 DEF ConsumeUpdate, Idle
  <2>2. QED BY <1>1, <2>1, LossMoves
<1>3. CASE ~ pending[token].consumed
  <2>1. /\ pending' = [pending EXCEPT ![token] = row] /\ handlers' = [handlers EXCEPT ![h] = s]
        /\ UNCHANGED <<performed, refused, crashes>>
    BY <1>1, <1>3 DEF ConsumeUpdate
  <2>2. row \in Pending /\ row.consumed BY <1>1 DEF Pending
  <2>3. row # Null BY <2>2, ApprovalAssumption
  <2>4. s.at = "consumed" /\ s.token = token BY <1>1 DEF Handler
  <2> HIDE DEF row, s, token
  <2>5. Consumed' = Consumed \cup {token} /\ token \notin Consumed
    BY <1>1, <1>3, <2>1, <2>2, <2>3 DEF Consumed, IInv, TypeOK
  <2>6. Holders' = Holders \cup {h} /\ h \notin Holders
    BY <1>1, <2>1, <2>4 DEF Holders, IInv, TypeOK
  <2>7. Ran' = Ran BY <2>1 DEF Ran
  <2>8. /\ IsFiniteSet(Consumed') /\ Cardinality(Consumed') = Cardinality(Consumed) + 1
        /\ IsFiniteSet(Holders') /\ Cardinality(Holders') = Cardinality(Holders) + 1
    BY <2>5, <2>6, FS_AddElement DEF LossInv
  <2>9. token \notin refused BY <2>5 DEF LossInv
  <2>10. \A g \in Handlers, t \in refused' : ~ Holds(g, t)'
    BY <2>1, <2>4, <2>9 DEF Holds, LossInv, IInv, TypeOK
  <2>11. refused' \subseteq Consumed' BY <2>1, <2>5 DEF LossInv
  <2>12. Cardinality(Consumed')
           <= Cardinality(Ran') + Cardinality(refused') + Cardinality(Holders') + crashes'
    <3>1. /\ Cardinality(Consumed) \in Nat /\ Cardinality(Ran) \in Nat
          /\ Cardinality(refused) \in Nat /\ Cardinality(Holders) \in Nat
      BY FS_CardinalityType DEF LossInv
    <3>2. crashes \in Nat BY DEF IInv, TypeOK
    <3>3. QED BY <2>1, <2>7, <2>8, <3>1, <3>2 DEF LossInv
  <2>13. QED BY <2>1, <2>7, <2>8, <2>10, <2>11, <2>12 DEF LossInv
<1>4. QED BY <1>2, <1>3

\* A holder that is gone left its token to one of the others.
LEMMA LossEnds ==
    ASSUME IInv, LossInv, NEW h \in Handlers, handlers[h].at = "consumed",
           handlers' = [handlers EXCEPT ![h] = Idle], UNCHANGED pending,
           \/ /\ performed' = [performed EXCEPT ![handlers[h].token] = @ + 1]
              /\ UNCHANGED <<refused, crashes>>
           \/ refused' = refused \cup {handlers[h].token} /\ UNCHANGED <<performed, crashes>>
           \/ crashes' = crashes + 1 /\ UNCHANGED <<performed, refused>>
    PROVE  LossInv'
<1> SUFFICES ASSUME NEW token, token = handlers[h].token PROVE LossInv'
  OBVIOUS
<1>1. token \in Tokens /\ Holds(h, token) BY HandlerType DEF Holds, IInv
<1>2. /\ performed[token] = 0 /\ token \in Consumed /\ token \notin refused
      /\ \A g \in Handlers : Holds(g, token) => g = h
  BY <1>1 DEF IInv, TokenInv, Consumed, LossInv
<1>3. /\ \A g \in Handlers : ~ Holds(g, token)'
      /\ \A t \in Tokens \ {token}, g \in Handlers : Holds(g, t)' <=> Holds(g, t)
  BY <1>1, HandlerLetsGo
<1>4. Holders' = Holders \ {h} /\ h \in Holders
  BY DEF Holders, Idle, IInv, TypeOK
<1>5. IsFiniteSet(Holders') /\ Cardinality(Holders') = Cardinality(Holders) - 1
  BY <1>4, FS_RemoveElement DEF LossInv
<1>6. Consumed' = Consumed BY DEF Consumed
<1>7. /\ Cardinality(Consumed) \in Nat /\ Cardinality(Ran) \in Nat
      /\ Cardinality(refused) \in Nat /\ Cardinality(Holders) \in Nat /\ crashes \in Nat
  BY FS_CardinalityType DEF LossInv, IInv, TypeOK
<1>8. refused' \subseteq refused \cup {token} OBVIOUS
<1>9. refused' \subseteq Consumed' /\ \A g \in Handlers, t \in refused' : ~ Holds(g, t)'
  BY <1>2, <1>3, <1>6, <1>8 DEF LossInv, Consumed
<1>10. CASE performed' = [performed EXCEPT ![token] = @ + 1] /\ UNCHANGED <<refused, crashes>>
  <2>1. Ran' = Ran \cup {token} /\ token \notin Ran
    BY <1>1, <1>2, <1>10 DEF Ran, IInv, TypeOK
  <2>2. IsFiniteSet(Ran') /\ Cardinality(Ran') = Cardinality(Ran) + 1
    BY <2>1, FS_AddElement DEF LossInv
  <2>3. QED BY <1>5, <1>6, <1>7, <1>9, <1>10, <2>2 DEF LossInv
<1>11. CASE refused' = refused \cup {token} /\ UNCHANGED <<performed, crashes>>
  <2>1. IsFiniteSet(refused') /\ Cardinality(refused') = Cardinality(refused) + 1
    BY <1>2, <1>11, FS_AddElement DEF LossInv
  <2>2. Ran' = Ran BY <1>11 DEF Ran
  <2>3. QED BY <1>5, <1>6, <1>7, <1>9, <1>11, <2>1, <2>2 DEF LossInv
<1>12. CASE crashes' = crashes + 1 /\ UNCHANGED <<performed, refused>>
  <2>1. Ran' = Ran BY <1>12 DEF Ran
  <2>2. QED BY <1>5, <1>6, <1>7, <1>9, <1>12, <2>1 DEF LossInv
<1>13. QED BY <1>10, <1>11, <1>12

\* A handler that dies before it holds a token loses nothing.
LEMMA LossCrash ==
    ASSUME IInv, LossInv, NEW h \in Handlers, Crash(h)
    PROVE  LossInv'
<1>1. /\ handlers' = [handlers EXCEPT ![h] = Idle] /\ Idle.at # "consumed"
      /\ UNCHANGED <<pending, performed, refused>> /\ crashes' = crashes + 1
  BY DEF Crash, Idle
<1>2. CASE handlers[h].at = "consumed"
  BY <1>1, <1>2, LossEnds
<1>3. CASE handlers[h].at # "consumed"
  <2>1. Holders' = Holders /\ \A g \in Handlers, t \in Tokens : Holds(g, t)' <=> Holds(g, t)
    BY <1>1, <1>3 DEF Holders, Holds, IInv, TypeOK
  <2>2. Consumed' = Consumed /\ Ran' = Ran
    BY <1>1 DEF Consumed, Ran
  <2>3. /\ Cardinality(Consumed) \in Nat /\ Cardinality(Ran) \in Nat
        /\ Cardinality(refused) \in Nat /\ Cardinality(Holders) \in Nat /\ crashes \in Nat
    BY FS_CardinalityType DEF LossInv, IInv, TypeOK
  <2>4. refused \subseteq Tokens BY DEF LossInv, Consumed
  <2>5. QED BY <1>1, <2>1, <2>2, <2>3, <2>4 DEF LossInv
<1>4. QED BY <1>2, <1>3

\* No step loses a token but a crash, which loses one.
LEMMA LossStep == IInv /\ LossInv /\ [Next]_vars => LossInv'
<1> SUFFICES ASSUME IInv, LossInv, [Next]_vars PROVE LossInv'
  OBVIOUS
<1>1. ASSUME NEW id \in Requested, NEW prov \in Provenances, NEW skill \in Classes \cup {Null},
             NEW session \in Sessions, NEW token \in Tokens, Request(id, prov, skill, session, token)
      PROVE  LossInv'
  BY <1>1, LossRequest
<1>2. ASSUME NEW h \in Handlers, NEW token \in Tokens, NEW session \in Sessions,
             NEW code, Approve(h, token, session, code)
      PROVE  LossInv'
  <2> DEFINE s == [at |-> "checked", token |-> token, session |-> session]
  <2>1. s.at # "consumed" /\ handlers[h].at # "consumed" /\ handlers' = [handlers EXCEPT ![h] = s]
        /\ UNCHANGED <<pending, performed, refused, crashes>>
    BY <1>2 DEF Approve
  <2> HIDE DEF s
  <2>2. QED BY <2>1, LossMoves
<1>3. ASSUME NEW h \in Handlers, ConsumePeek(h) PROVE LossInv'
  <2> DEFINE s == IF Peek(handlers[h].token) = Null THEN Idle ELSE [handlers[h] EXCEPT !.at = "consuming"]
  <2>1. s.at # "consumed" BY HandlerType, <1>3 DEF Idle, Handler, IInv, ConsumePeek
  <2>2. handlers' = [handlers EXCEPT ![h] = s] BY <1>3 DEF ConsumePeek, IInv, TypeOK
  <2>3. handlers[h].at # "consumed" /\ UNCHANGED <<pending, performed, refused, crashes>>
    BY <1>3 DEF ConsumePeek
  <2> HIDE DEF s
  <2>4. QED BY <2>1, <2>2, <2>3, LossMoves
<1>4. ASSUME NEW h \in Handlers, Perform(h) PROVE LossInv'
  BY <1>4, LossEnds DEF Perform
<1>5. ASSUME UNCHANGED <<pending, handlers, performed, refused, crashes>> PROVE LossInv'
  BY <1>5, LossStays DEF Holds, Consumed, Ran, Holders
<1>6. CASE \/ \E id \in McpIds, spec \in McpSpecs : RegisterMcpTool(id, spec)
           \/ ClearMcpActions \/ DepsChange \/ Tick \/ UNCHANGED vars
  BY <1>5, <1>6 DEF RegisterMcpTool, ClearMcpActions, DepsChange, Change, Tick, vars
<1>7. QED BY <1>1, <1>2, <1>3, <1>4, <1>6, LossConsume, LossCrash DEF Next

\* A consumed token has run, was refused or is in the hands of a handler, but for one for
\* every crash.
THEOREM NoTokenIsLost == Spec => []NothingLost
<1>1. Init => LossInv
  <2> SUFFICES ASSUME Init PROVE LossInv
    OBVIOUS
  <2>1. Consumed = {} /\ Ran = {} /\ refused = {} /\ Holders = {} /\ crashes = 0
    BY DEF Init, Consumed, Ran, Holders, Idle
  <2>2. QED BY <2>1, FS_EmptySet DEF LossInv
<1>2. LossInv => NothingLost
  BY DEF LossInv, NothingLost, Consumed, Ran, Holders
<1>3. QED BY <1>1, <1>2, IInvAlways, LossStep, PTL DEF Spec
=============================================================================
