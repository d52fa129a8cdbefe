------------------------------ MODULE Context -------------------------------
(***************************************************************************)
(* What a turn is sent to the model with: core/memory/src/context.ts over  *)
(* the episodes of core/memory/src/episodes.ts.  Texts are their lengths.  *)
(* The full text search and the store of knowledge are external here: any  *)
(* episodes may match, in any order, and any rows may be injectable.       *)
(***************************************************************************)
EXTENDS Integers, SequencesExt, Selection

CONSTANTS
    Sessions,        \* sessionId
    Replies,         \* what is appended: [role, provenance, length]
    KnowledgeLists,  \* what listForInjection may return: the lengths of the lines
    UserLengths,     \* the lengths of userText
    ContextConfigs,  \* MemoryContextConfig: [enabled, dialogTail, recallK, maxTokens]
    BaseLength,      \* of the base system prompt
    HeaderLength,    \* of the headers of a block, with the newline after it
    LabelLength,     \* of the number, session and role before a recalled episode
    MaxSnippet,      \* MAX_EPISODE_SNIPPET
    MinQuery,        \* MIN_RECALL_QUERY_LEN
    MaxEpisodes, MaxTick  \* bounds: episodes, clock

ASSUME ContextAssumption ==
    /\ {BaseLength, HeaderLength, LabelLength, MaxSnippet, MinQuery, MaxEpisodes, MaxTick} \subseteq Nat
    /\ UserLengths \subseteq Nat /\ KnowledgeLists \subseteq Seq(Nat)
    /\ \A reply \in Replies : reply.length \in Nat
    /\ ContextConfigs \subseteq [enabled : BOOLEAN, dialogTail : Nat, recallK : Nat, maxTokens : Int]

VARIABLES
    episodes,  \* the table, an episode's id is its place
    tick,      \* Date.now(): episodes appended within a tick have the same created_at
    turn       \* the last context: what was gathered for it, and what became of it

contextVars == <<episodes, tick, turn>>

NoTurn == [session |-> "none"]

ContextInit == episodes = <<>> /\ tick = 0 /\ turn = NoTurn

-----------------------------------------------------------------------------
(* The store.                                                              *)

EpisodeAppend(session, reply) ==
    /\ Len(episodes) < MaxEpisodes
    /\ episodes' = Append(episodes, [session |-> session, reply |-> reply, createdAt |-> tick])
    /\ turn' = NoTurn
    /\ UNCHANGED tick

TickPasses ==
    /\ tick < MaxTick /\ tick' = tick + 1
    /\ turn' = NoTurn
    /\ UNCHANGED episodes

Of(session) == {i \in DOMAIN episodes : episodes[i].session = session}

\* Distinct ids, at most n of them.
Picks(ids, n) == {s \in UNION {[1 .. k -> ids] : k \in 0 .. n} : IsInjective(s)}

\* ORDER BY created_at DESC LIMIT n, reversed: nothing orders episodes of one tick.
TailBySession(session, n) ==
    {s \in Picks(Of(session), n) :
        /\ Len(s) = n \/ ToSet(s) = Of(session)
        /\ \A i, j \in DOMAIN s : i < j => episodes[s[i]].createdAt <= episodes[s[j]].createdAt
        /\ \A i \in DOMAIN s, m \in Of(session) \ ToSet(s) : episodes[m].createdAt <= episodes[s[i]].createdAt}

-----------------------------------------------------------------------------
(* What is sent: messages and blocks.                                      *)

EstimateTokens(length) == (length + 3) \div 4

SumOf(s) == LET sum[i \in 0 .. Len(s)] == IF i = 0 THEN 0 ELSE sum[i - 1] + s[i] IN sum[Len(s)]

Snippet(id) ==
    IF episodes[id].reply.length <= MaxSnippet THEN episodes[id].reply.length ELSE MaxSnippet + 1

IsUntrusted(id) == "quarantine" \in {episodes[id].reply.role, episodes[id].reply.provenance}

\* A message of the history.  What the assistant said stays as it is.
ToMessage(id) ==
    LET wrapped == episodes[id].reply.role # "assistant" /\ IsUntrusted(id)
    IN [id |-> id, wrapped |-> wrapped, length |-> Snippet(id) + IF wrapped THEN HeaderLength ELSE 0]

EpisodesToMessages(tail) ==
    LET spoken == Kept(tail, {id \in DOMAIN episodes : episodes[id].reply.role # "tool"})
    IN [i \in DOMAIN spoken |-> ToMessage(spoken[i])]

\* A line of the recall block.
ToRecalled(id) ==
    [id |-> id, wrapped |-> IsUntrusted(id),
     length |-> LabelLength + Snippet(id) + IF IsUntrusted(id) THEN HeaderLength ELSE 0]

Lengths(items) == [i \in DOMAIN items |-> items[i].length]

\* A header and a newline before every line; nothing without lines.
BlockLength(lengths) == IF lengths = <<>> THEN 0 ELSE 2 + HeaderLength + SumOf(lengths) + Len(lengths) - 1

\* assembleSystem: the base, two newlines before every block.
SystemLength(c) == BaseLength + BlockLength(Lengths(c.hits)) + BlockLength(c.rows)

TotalContextTokens(c, userLength) ==
    EstimateTokens(SystemLength(c))
        + SumOf([i \in DOMAIN c.history |-> EstimateTokens(c.history[i].length)])
        + EstimateTokens(userLength)

\* Fault: the newest message goes first.
DropNewest(c) ==
    CASE c.hits # <<>> -> [c EXCEPT !.hits = Front(@), !.trimmed = TRUE]
      [] c.hits = <<>> /\ c.history # <<>> -> [c EXCEPT !.history = Front(@), !.trimmed = TRUE]
      [] c.hits = <<>> /\ c.history = <<>> /\ c.rows # <<>> -> [c EXCEPT !.rows = Front(@), !.trimmed = TRUE]
      [] OTHER -> [c EXCEPT !.trimmed = TRUE]

\* What is recalled goes first, then the oldest message, then the last fact.
DropOne(c) ==
    CASE c.hits # <<>> -> [c EXCEPT !.hits = Front(@), !.trimmed = TRUE]
      [] c.hits = <<>> /\ c.history # <<>> -> [c EXCEPT !.history = Tail(@), !.trimmed = TRUE]
      [] c.hits = <<>> /\ c.history = <<>> /\ c.rows # <<>> -> [c EXCEPT !.rows = Front(@), !.trimmed = TRUE]
      [] OTHER -> [c EXCEPT !.trimmed = TRUE]

\* The loop ends when the context fits, or when there is nothing left to drop.
TrimContextToBudget(c, userLength, maxTokens) ==
    LET all == Len(c.hits) + Len(c.history) + Len(c.rows)
        trimmed[i \in 0 .. all + 1] ==
            IF i = 0 THEN c
            ELSE LET d == trimmed[i - 1]
                 IN  IF TotalContextTokens(d, userLength) > maxTokens THEN DropOne(d) ELSE d
    IN  trimmed[all + 1]

-----------------------------------------------------------------------------
(* buildSessionContext, synchronous.                                       *)

\* Off: the knowledge is sent whatever its length, and nothing else.
ContextDisabled(session, config, userLength, rows) ==
    LET sent == [hits |-> <<>>, history |-> <<>>, rows |-> rows, trimmed |-> FALSE]
    IN /\ ~config.enabled
       /\ turn' = [session |-> session, config |-> config, gathered |-> sent, sent |-> sent,
                   estimatedTokens |-> TotalContextTokens(sent, userLength), user |-> userLength]

\* The search is limited before the tail is taken out of what it found.
BuildSessionContext(session, config, userLength, rows) ==
    /\ config.enabled
    /\ \E tail \in TailBySession(session, config.dialogTail),
          found \in Picks(DOMAIN episodes, IF userLength >= MinQuery THEN config.recallK ELSE 0) :
        LET recalled == Kept(found, DOMAIN episodes \ ToSet(tail))
            gathered == [hits |-> [i \in DOMAIN recalled |-> ToRecalled(recalled[i])],
                         history |-> EpisodesToMessages(tail), rows |-> rows, trimmed |-> FALSE]
            sent == TrimContextToBudget(gathered, userLength, config.maxTokens)
        IN turn' = [session |-> session, config |-> config, gathered |-> gathered, sent |-> sent,
                    estimatedTokens |-> TotalContextTokens(sent, userLength), user |-> userLength]

ContextNext ==
    \/ \E session \in Sessions, reply \in Replies : EpisodeAppend(session, reply)
    \/ TickPasses
    \/ /\ turn = NoTurn
       /\ \E session \in Sessions, config \in ContextConfigs, userLength \in UserLengths, rows \in KnowledgeLists :
            ContextDisabled(session, config, userLength, rows) \/ BuildSessionContext(session, config, userLength, rows)
       /\ UNCHANGED <<episodes, tick>>

ContextSpec == ContextInit /\ [][ContextNext]_contextVars

-----------------------------------------------------------------------------
(* Properties.                                                             *)

IdsOf(items) == {items[i].id : i \in DOMAIN items}
Left(c) == Len(c.hits) + Len(c.history) + Len(c.rows)

\* With the last of what was dropped from it put back: a fact, else a message, else a hit.
OneMore(c, from) ==
    CASE c.rows # from.rows -> [c EXCEPT !.rows = SubSeq(from.rows, 1, Len(@) + 1)]
      [] c.rows = from.rows /\ c.history # from.history ->
             [c EXCEPT !.history = SubSeq(from.history, Len(from.history) - Len(@), Len(from.history))]
      [] OTHER -> [c EXCEPT !.hits = SubSeq(from.hits, 1, Len(@) + 1)]

\* The budget is kept, or nothing is left that could be dropped; and one drop fewer
\* would not have done.
InBudget(c) ==
    /\ turn.estimatedTokens <= turn.config.maxTokens \/ Left(c) = 0
    /\ Left(c) < Left(turn.gathered) =>
           TotalContextTokens(OneMore(c, turn.gathered), turn.user) > turn.config.maxTokens

\* The history has no hole: what is left out of the session's talk is not newer than
\* what is in.
Gapless(c) ==
    \A id \in IdsOf(c.history), other \in Of(turn.session) \ IdsOf(c.history) :
        episodes[other].createdAt > episodes[id].createdAt => episodes[other].reply.role = "tool"

\* Quarantined text is under its header, except in what the assistant said.
Fenced(c) ==
    \A m \in ToSet(c.hits) \cup ToSet(c.history) :
        /\ episodes[m.id].reply.role = "quarantine" => m.wrapped
        /\ episodes[m.id].reply.provenance = "quarantine" =>
               m.wrapped \/ (episodes[m.id].reply.role = "assistant" /\ m.id \in IdsOf(c.history))

\* The context of a turn keeps its budget, drops no more than it must and of the
\* talk the oldest first, holds no episode twice and none of another session as if
\* it were of this one, and nothing quarantined without its header.
ContextSound ==
    turn # NoTurn /\ turn.config.enabled =>
        /\ InBudget(turn.sent) /\ Gapless(turn.sent) /\ Fenced(turn.sent)
        /\ IdsOf(turn.sent.history) \subseteq Of(turn.session)
        /\ IdsOf(turn.sent.hits) \cap IdsOf(turn.sent.history) = {}
        /\ turn.sent.hits # <<>> =>
               turn.sent.history = turn.gathered.history /\ turn.sent.rows = turn.gathered.rows
        /\ turn.sent.history # <<>> => turn.sent.rows = turn.gathered.rows
=============================================================================
