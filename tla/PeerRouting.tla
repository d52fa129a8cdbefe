----------------------------- MODULE PeerRouting -----------------------------
(***************************************************************************)
(* Requests that gateways pass to each other: llm-router/rotation/         *)
(* peerRouting.ts.  A header carries the ids of the gateways a request has *)
(* visited; a gateway refuses it when its own id is there or when its hops *)
(* are used up, and adds its id when it forwards to a configured peer.     *)
(*                                                                         *)
(* One request is followed: the gateways that wait for the answer of the   *)
(* next one are a stack.  A gateway that gets no answer from one upstream  *)
(* may try another, so that what a trace says is local to a branch.        *)
(***************************************************************************)
EXTENDS Integers, SequencesExt, Selection

CONSTANTS
    Gateways,      \* running instances
    Ids,           \* what INSTANCE_ID_PATTERN admits
    NoId,          \* no valid OMNIROUTE_INSTANCE_ID
    Federations,   \* the environments of all gateways: [id, hops, peers, upstreams]
    HeaderCap,     \* ids that MAX_TRACE_HEADER_LENGTH characters hold
    MaxUnmarked    \* bound: times the request leaves a gateway without a trace

ASSUME PeerAssumption ==
    /\ NoId \notin Gateways \cup Ids
    /\ \A f \in Federations :
         /\ f.id \in [Gateways -> Ids \cup {NoId}]        \* OMNIROUTE_INSTANCE_ID
         /\ f.hops \in [Gateways -> Int]
         /\ f.peers \in [Gateways -> SUBSET Gateways]      \* OMNIROUTE_PEER_URLS
         /\ f.upstreams \in [Gateways -> SUBSET Gateways]  \* what the router may choose
    /\ {HeaderCap, MaxUnmarked} \subseteq Nat

VARIABLES
    federation,  \* the environments
    stack,       \* gateways at work, the latest last: [at, trace, marked, left]
    inFlight,    \* the request on its way: [to, trace, marked]
    unmarked,    \* how often it left a gateway without a trace
    outcome      \* "none", "waiting", "answered"

peerVars == <<federation, stack, inFlight, unmarked, outcome>>

Nowhere == [to |-> NoId, trace |-> <<>>, marked |-> FALSE]

-----------------------------------------------------------------------------
\* getMaxPeerHops: what is not from 1 to 32 counts as 4.
MaxPeerHops(g) == IF federation.hops[g] \in 1 .. 32 THEN federation.hops[g] ELSE 4

\* parsePeerTrace: a header that is too long reads as none; what is no id is left out.
ParseTrace(header) ==
    IF Len(header) > HeaderCap THEN <<>> ELSE Kept(header, Ids)

\* Fault: the hop limit is compared one too late, and loops are left to it.
RefusesLate(g, header) ==
    /\ federation.id[g] # NoId
    /\ Len(ParseTrace(header)) > MaxPeerHops(g)

\* inspectPeerRequest: a gateway without an id inspects nothing.
Refuses(g, header) ==
    /\ federation.id[g] # NoId
    /\ \/ federation.id[g] \in ToSet(ParseTrace(header))
       \/ Len(ParseTrace(header)) >= MaxPeerHops(g)

Marks(g, u) == federation.id[g] # NoId /\ u \in federation.peers[g]

\* applyPeerTraceHeader: other upstreams get no header.
TraceFor(g, u, header) ==
    LET trace == ParseTrace(header)
    IN  IF ~Marks(g, u) THEN <<>>
        ELSE IF federation.id[g] \in ToSet(trace) THEN trace
        ELSE Append(trace, federation.id[g])

PeerInit ==
    /\ federation \in Federations
    /\ stack = <<>>
    /\ inFlight = Nowhere
    /\ unmarked = 0
    /\ outcome = "none"

\* A client sends a request, without a trace or with any one.
ClientSends(g, header) ==
    /\ outcome = "none"
    /\ outcome' = "waiting"
    /\ inFlight' = [to |-> g, trace |-> header, marked |-> FALSE]
    /\ UNCHANGED <<federation, stack, unmarked>>

\* Fault: the refusal is not sent.
ReceiveSilently(g) ==
    /\ inFlight.to = g
    /\ ~Refuses(g, inFlight.trace)
    /\ stack' = Append(stack, [at |-> g, trace |-> inFlight.trace, marked |-> inFlight.marked,
                               left |-> federation.upstreams[g]])
    /\ inFlight' = Nowhere
    /\ UNCHANGED <<federation, unmarked, outcome>>

\* rejectPeerRequest: a refusal is answered 508, to a client or to the gateway before.
Receive(g) ==
    /\ inFlight.to = g
    /\ inFlight' = Nowhere
    /\ IF Refuses(g, inFlight.trace)
       THEN /\ outcome' = IF stack = <<>> THEN "answered" ELSE outcome
            /\ UNCHANGED stack
       ELSE /\ stack' = Append(stack, [at |-> g, trace |-> inFlight.trace,
                                       marked |-> inFlight.marked,
                                       left |-> federation.upstreams[g]])
            /\ UNCHANGED outcome
    /\ UNCHANGED <<federation, unmarked>>

\* The gateway that has the request tries an upstream it has not tried yet.
Forward(u) ==
    LET top == Last(stack)
    IN  /\ stack # <<>> /\ inFlight = Nowhere /\ u \in top.left
        /\ Marks(top.at, u) \/ unmarked < MaxUnmarked
        /\ inFlight' = [to |-> u, trace |-> TraceFor(top.at, u, top.trace),
                        marked |-> Marks(top.at, u)]
        /\ unmarked' = IF Marks(top.at, u) THEN unmarked ELSE unmarked + 1
        /\ stack' = [stack EXCEPT ![Len(stack)].left = @ \ {u}]
        /\ UNCHANGED <<federation, outcome>>

\* A model provider answers, which ends the request at every gateway.
ProviderAnswers ==
    /\ stack # <<>> /\ inFlight = Nowhere
    /\ stack' = <<>>
    /\ outcome' = "answered"
    /\ UNCHANGED <<federation, inFlight, unmarked>>

\* No upstream is left: the gateway answers with an error.
GiveUp ==
    /\ stack # <<>> /\ inFlight = Nowhere
    /\ Last(stack).left = {}
    /\ stack' = Front(stack)
    /\ outcome' = IF Len(stack) = 1 THEN "answered" ELSE outcome
    /\ UNCHANGED <<federation, inFlight, unmarked>>

PeerNext ==
    \/ \E g \in Gateways :
         \/ \E h \in Gateways, n \in {0, 1, HeaderCap + 1} :
                  ClientSends(g, [i \in 1 .. n |-> federation.id[h]])
         \/ Receive(g)
         \/ Forward(g)
    \/ ProviderAnswers
    \/ GiveUp

\* The proxy answers or goes on to the next upstream; nothing of it waits for ever.
PeerProgress == (\E g \in Gateways : Receive(g) \/ Forward(g)) \/ GiveUp

PeerSpec == PeerInit /\ [][PeerNext]_peerVars /\ WF_peerVars(PeerProgress)

-----------------------------------------------------------------------------
(* Properties                                                              *)

\* The gateways from i to j passed the request on with its trace.
Traced(i, j) == \A k \in i + 1 .. j : stack[k].marked

\* The header of a request holds as many ids as the hops that are allowed.
HeaderHolds == \A g \in Gateways : federation.id[g] # NoId => MaxPeerHops(g) <= HeaderCap

\* A request that keeps its trace is handled by no gateway twice, whatever was tried
\* and refused before, and by no more than the one that has it allows.
NoRevisit ==
    \A i, j \in DOMAIN stack :
        i < j /\ Traced(i, j) /\ federation.id[stack[j].at] # NoId =>
            /\ federation.id[stack[i].at] # federation.id[stack[j].at]
            /\ j - i < MaxPeerHops(stack[j].at)

\* Where every gateway marks what it passes on, every request is answered, whatever the
\* routers choose: the loops between gateways end.
PeersAnswer ==
    (\A g \in Gateways : \A u \in federation.upstreams[g] : Marks(g, u))
        => (outcome = "waiting" ~> outcome = "answered")
=============================================================================
