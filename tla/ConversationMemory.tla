-------------------------- MODULE ConversationMemory --------------------------
(***************************************************************************)
(* What one conversation remembers beside its messages: the state row with *)
(* its cache, and the rolling summary.  Concurrent prepare requests patch  *)
(* the one and extend the other, while the browser replaces the messages,  *)
(* turns append to them, and the conversation may be deleted.              *)
(*                                                                         *)
(* A message is the number of its text; a summary is the sequence of texts *)
(* that the chain of model calls behind it was given.  expiresAt follows   *)
(* from the version of a state, so one number says which states have       *)
(* passed it, in the row, in the cache and in flight alike.                *)
(***************************************************************************)
EXTENDS Naturals, Sequences, FiniteSets

CONSTANTS
  Requests,     \* prepare requests at a time
  Patches,      \* statePatch values: functions from some of Fields to Values
  MaxPrepares,  \* bound: prepare requests
  MaxTexts,     \* bound: texts ever written
  MaxSyncs,     \* bound: replacements of the messages
  MaxFaults     \* bound: Redis calls that fail

Fields == {"activeGoal", "activeQuestionId"}
Values == {0, 1}   \* null, and something
NoPatch == <<>>

ASSUME MemoryAssumption ==
  /\ \A p \in Patches : DOMAIN p \subseteq Fields /\ \A f \in DOMAIN p : p[f] \in Values
  /\ {MaxPrepares, MaxTexts, MaxSyncs, MaxFaults} \subseteq Nat

VARIABLES
  exists,    \* Conversation; its rows go with it
  clearing,  \* clear has deleted the rows and not yet the cached state
  state,     \* ConversationState: [version, value]
  states,    \* what it was at each version
  expired,   \* states up to this version have passed their expiresAt
  cache,     \* the state in Redis, or NoState
  slips,     \* how the cache may have got behind: "lost", "overtaken"
  told,      \* the newest version a request was answered
  messages,  \* Seq([text, role]); order is the place
  texts,     \* texts written so far
  syncs,     \* replacements so far
  summary,   \* ConversationSummary: [version, covered, of]
  rewritten, \* did a replacement change what the summary covers?
  req,       \* [Requests -> where it is and what it has read]
  prepares, faults

stateVars == <<state, states, expired, cache, slips, told>>
messageVars == <<messages, texts, syncs, rewritten>>
vars == <<exists, clearing, stateVars, messageVars, summary, req, prepares, faults>>

NoState == [version |-> 0, value |-> [f \in Fields |-> 0]]
NoSummary == [version |-> 0, covered |-> 0, of |-> <<>>]
Idle == [at |-> "idle", patch |-> NoPatch, patches |-> FALSE, state |-> NoState, owed |-> 0,
         summary |-> NoSummary, messages |-> <<>>]

Init ==
  /\ exists = TRUE /\ clearing = FALSE
  /\ state = NoState /\ states = <<>> /\ expired = 0
  /\ cache = NoState /\ slips = {} /\ told = 0
  /\ messages = <<>> /\ texts = 0 /\ syncs = 0 /\ rewritten = FALSE
  /\ summary = NoSummary
  /\ req = [r \in Requests |-> Idle]
  /\ prepares = 0 /\ faults = 0

Fault == faults < MaxFaults /\ faults' = faults + 1
Goto(r, step) == req' = [req EXCEPT ![r].at = step]
Leave(r) == req' = [req EXCEPT ![r] = Idle]

-----------------------------------------------------------------------------
(* ConversationContextService.prepare, resolveState *)

\* The conversation is there; without a patch the cache is asked first.
Start(r) ==
  /\ req[r].at = "idle" /\ exists /\ prepares < MaxPrepares
  /\ \/ req' = [req EXCEPT ![r] = [Idle EXCEPT !.at = "cache", !.owed = told]]
     \/ \E p \in Patches :
          req' = [req EXCEPT ![r] = [Idle EXCEPT !.at = "row", !.patch = p, !.patches = TRUE,
                                                 !.owed = told]]
  /\ prepares' = prepares + 1
  /\ UNCHANGED <<exists, clearing, stateVars, messageVars, summary, faults>>

\* The state part of the answer is known.
AnswerState(r, s) ==
  /\ req' = [req EXCEPT ![r] = [@ EXCEPT !.at = "reading", !.state = s]]
  /\ told' = IF s.version > told THEN s.version ELSE told

\* safeCacheGet: a hit is the answer.
ReadCache(r) ==
  /\ req[r].at = "cache"
  /\ \/ cache # NoState /\ AnswerState(r, cache) /\ UNCHANGED faults
     \/ cache = NoState /\ Goto(r, "row") /\ UNCHANGED <<told, faults>>
     \/ Fault /\ Goto(r, "row") /\ UNCHANGED told
  /\ UNCHANGED <<exists, clearing, state, states, expired, cache, slips, messageVars,
                 summary, prepares>>

Patched(value, patch) == [f \in Fields |-> IF f \in DOMAIN patch THEN patch[f] ELSE value[f]]

\* An expired row is no state, and a patch that changes nothing writes nothing.
ReadState(r) ==
  /\ req[r].at = "row"
  /\ LET changes == state.version <= expired \/ Patched(state.value, req[r].patch) # state.value
         next == IF req[r].patches THEN IF changes THEN "write" ELSE "cacheSet"
                 ELSE IF state.version <= expired THEN "cacheDelete" ELSE "cacheSet"
     IN req' = [req EXCEPT ![r] =
                 [@ EXCEPT !.at = next,
                           !.state = IF next = "cacheDelete" THEN NoState ELSE state]]
  /\ UNCHANGED <<exists, clearing, stateVars, messageVars, summary, prepares, faults>>

PutState(r, new) ==
  /\ state' = new
  /\ states' = Append(states, new.value)
  /\ req' = [req EXCEPT ![r] = [@ EXCEPT !.at = "cacheSet", !.state = new]]

\* Mutant of UpdateState: the version is counted from the one that was read.
UpdateStateCounted(r) ==
  PutState(r, [version |-> req[r].state.version + 1,
               value |-> Patched(state.value, req[r].patch)])

\* Mutant of UpdateState: the fields as they were read are written, too.
UpdateStateWhole(r) ==
  PutState(r, [version |-> state.version + 1,
               value |-> Patched(req[r].state.value, req[r].patch)])

\* The update names the patched fields only; the version counts in the database.
UpdateState(r) ==
  PutState(r, [version |-> state.version + 1, value |-> Patched(state.value, req[r].patch)])

\* create or update; a request that lost the race to create reads again, once, for then
\* the row is there; a row that went with the conversation is an error.
WriteState(r) ==
  /\ req[r].at = "write"
  /\ \/ /\ exists /\ req[r].state.version = 0 /\ state.version = 0
        /\ PutState(r, [version |-> 1, value |-> Patched(NoState.value, req[r].patch)])
     \/ /\ exists /\ req[r].state.version = 0 /\ state.version # 0
        /\ Goto(r, "row")
        /\ UNCHANGED <<state, states>>
     \/ exists /\ req[r].state.version # 0 /\ UpdateState(r)
     \/ ~exists /\ Leave(r) /\ UNCHANGED <<state, states>>
  /\ UNCHANGED <<exists, clearing, expired, cache, slips, told, messageVars, summary,
                 prepares, faults>>

\* Mutant of StoreInCache: only what was read is cached.
StoreInCacheUnlessPatched(r) == IF req[r].patches THEN cache' = cache ELSE cache' = req[r].state

\* cache.set: a state whose time has passed removes the key.
StoreInCache(r) ==
  cache' = IF req[r].state.version <= expired THEN NoState ELSE req[r].state

SetCache(r) ==
  /\ req[r].at = "cacheSet"
  /\ \/ /\ StoreInCache(r) /\ UNCHANGED faults
        /\ slips' = IF req[r].state.version < Len(states) THEN slips \cup {"overtaken"}
                    ELSE slips
     \/ /\ Fault /\ UNCHANGED cache
        /\ slips' = slips \cup {"lost"}
  /\ AnswerState(r, req[r].state)
  /\ UNCHANGED <<exists, clearing, state, states, expired, messageVars, summary, prepares>>

DeleteCache(r) ==
  /\ req[r].at = "cacheDelete"
  /\ \/ cache' = NoState /\ UNCHANGED faults
     \/ Fault /\ UNCHANGED cache
  /\ AnswerState(r, NoState)
  /\ UNCHANGED <<exists, clearing, state, states, expired, slips, messageVars, summary, prepares>>

\* A day passes without a change, or Redis drops the key.
StateExpires ==
  /\ expired < state.version
  /\ expired' = state.version
  /\ cache' = NoState
  /\ UNCHANGED <<exists, clearing, state, states, slips, told, messageVars, summary, req,
                 prepares, faults>>

CacheEvicts ==
  /\ cache # NoState
  /\ cache' = NoState
  /\ UNCHANGED <<exists, clearing, state, states, expired, slips, told, messageVars, summary,
                 req, prepares, faults>>

-----------------------------------------------------------------------------
(* ConversationSummaryService.prepare *)

\* resolveSummaryTrigger depends on lengths, so it may go either way; a summary ends
\* with the latest answer.
Uncovered(s, m) == s.covered + 1 .. Len(m)
Answers(s, m) == {i \in Uncovered(s, m) : m[i].role = "ASSISTANT"}
Target(s, m) == CHOOSE i \in Answers(s, m) : \A j \in Answers(s, m) : j <= i

Decide(r, s, m) ==
  \/ Leave(r)
  \/ /\ Answers(s, m) # {}
     /\ req' = [req EXCEPT ![r] = [Idle EXCEPT !.at = "persist", !.summary = s, !.messages = m]]

\* readSnapshot: two statements at once, in either order.
ReadSnapshot(r) ==
  /\ \/ /\ req[r].at = "reading"
        /\ \/ req' = [req EXCEPT ![r] = [Idle EXCEPT !.at = "readSummary", !.summary = summary]]
           \/ req' = [req EXCEPT ![r] = [Idle EXCEPT !.at = "readMessages", !.messages = messages]]
     \/ req[r].at = "readSummary" /\ Decide(r, req[r].summary, messages)
     \/ req[r].at = "readMessages" /\ Decide(r, summary, req[r].messages)
  /\ UNCHANGED <<exists, clearing, stateVars, messageVars, summary, prepares, faults>>

\* Mutant of SameSummary: any summary will do.
AnySummary(r) == (req[r].summary.version = 0) = (summary.version = 0)

\* The row is at the version and watermark that was read, or still absent.
SameSummary(r) ==
  summary.version = req[r].summary.version /\ summary.covered = req[r].summary.covered

\* Mutant of SameSource: only the number of messages is compared.
SameCount(r) == Len(messages) >= Target(req[r].summary, req[r].messages)

\* hashSummarySource of the messages up to the target, then and now.
SameSource(r) ==
  LET target == Target(req[r].summary, req[r].messages)
  IN /\ Len(messages) >= target
     /\ SubSeq(messages, 1, target) = SubSeq(req[r].messages, 1, target)

\* persistWithCas, one serializable transaction.  The model may have failed, and the
\* transaction may be refused whatever it found.
PersistWithCas(r) ==
  LET s == req[r].summary
      target == Target(s, req[r].messages)
      new == SubSeq(req[r].messages, s.covered + 1, target)
  IN /\ req[r].at = "persist"
     /\ \/ UNCHANGED summary
        \/ /\ exists /\ SameSummary(r) /\ SameSource(r)
           /\ summary' = [version |-> summary.version + 1, covered |-> target,
                          of |-> s.of \o [i \in DOMAIN new |-> new[i].text]]
     /\ Leave(r)
     /\ UNCHANGED <<exists, clearing, stateVars, messageVars, prepares, faults>>

-----------------------------------------------------------------------------
(* ChatMessagesService and the chat worker: the messages *)

Message(n, role) == [text |-> n, role |-> role]

\* prepareForTurn appends the question, commitSuccess the answer.
AppendMessage(role) ==
  /\ exists /\ texts < MaxTexts
  /\ messages' = Append(messages, Message(texts + 1, role))
  /\ texts' = texts + 1
  /\ UNCHANGED <<exists, clearing, stateVars, syncs, rewritten, summary, req, prepares, faults>>

\* sync: the tab's list replaces all messages, what the tab has not seen included.  It
\* shares a beginning with them and ends with an answer.
Sync ==
  /\ exists /\ syncs < MaxSyncs
  /\ \E shared \in 0 .. Len(messages), own \in {<<>>, <<"ASSISTANT">>, <<"USER", "ASSISTANT">>} :
       /\ texts + Len(own) <= MaxTexts
       /\ messages' = SubSeq(messages, 1, shared)
                        \o [i \in DOMAIN own |-> Message(texts + i, own[i])]
       /\ own = <<>> /\ shared > 0 => messages[shared].role = "ASSISTANT"
       /\ texts' = texts + Len(own)
       /\ rewritten' = (rewritten \/ shared < summary.covered)
  /\ syncs' = syncs + 1
  /\ UNCHANGED <<exists, clearing, stateVars, summary, req, prepares, faults>>

\* clear deletes the conversation with its rows ...
Clear ==
  /\ exists
  /\ exists' = FALSE /\ clearing' = TRUE
  /\ messages' = <<>> /\ summary' = NoSummary
  /\ state' = NoState
  /\ UNCHANGED <<states, expired, cache, slips, told, texts, syncs, rewritten, req, prepares,
                 faults>>

\* ... and then the cached state, if it can.
ClearCache ==
  /\ clearing
  /\ clearing' = FALSE
  /\ \/ cache' = NoState /\ UNCHANGED faults
     \/ Fault /\ UNCHANGED cache
  /\ UNCHANGED <<exists, state, states, expired, slips, told, messageVars, summary, req, prepares>>

-----------------------------------------------------------------------------
Prepare(r) ==
  \/ Start(r) \/ ReadCache(r) \/ ReadState(r) \/ WriteState(r) \/ SetCache(r) \/ DeleteCache(r)
  \/ ReadSnapshot(r) \/ PersistWithCas(r)

Next ==
  \/ \E r \in Requests : Prepare(r)
  \/ StateExpires \/ CacheEvicts
  \/ AppendMessage("USER") \/ AppendMessage("ASSISTANT") \/ Sync
  \/ Clear \/ ClearCache

Spec == Init /\ [][Next]_vars

-----------------------------------------------------------------------------
States == [version : Nat, value : [Fields -> Values]]
Summaries == [version : Nat, covered : Nat, of : Seq(Nat)]
Entries == [text : Nat, role : {"USER", "ASSISTANT"}]
Messages == Seq(Entries)
Places == {"idle", "cache", "row", "write", "cacheSet", "cacheDelete", "reading", "readSummary",
           "readMessages", "persist"}
Preparing ==
  [at : Places, patch : Patches \cup {NoPatch}, patches : BOOLEAN, state : States, owed : Nat,
   summary : Summaries, messages : Messages]

TypeOK ==
  /\ exists \in BOOLEAN /\ clearing \in BOOLEAN
  /\ state \in States /\ states \in Seq([Fields -> Values]) /\ cache \in States
  /\ state.version = IF exists THEN Len(states) ELSE 0
  /\ {cache.version, expired, told} \subseteq 0 .. Len(states)
  /\ slips \subseteq {"lost", "overtaken"}
  /\ messages \in Messages /\ texts \in 0 .. MaxTexts /\ syncs \in Nat /\ rewritten \in BOOLEAN
  /\ summary \in Summaries
  /\ req \in [Requests -> Preparing]
  /\ prepares \in 0 .. MaxPrepares /\ faults \in 0 .. MaxFaults

\* A state that was answered or cached is one the row really had, and no request is
\* answered an older one than was told before it began: it takes a Redis call that
\* failed or a request that was overtaken for the cache to fall behind.
Real(s) == s # NoState => s.value = states[s.version]
AnswersAreCurrent ==
  /\ Real(cache)
  /\ \A r \in Requests : req[r].at = "reading" =>
       /\ Real(req[r].state)
       /\ \/ req[r].state.version >= req[r].owed
          \/ req[r].state = NoState /\ (req[r].owed <= expired \/ ~exists)
          \/ slips # {}

\* Patches of different fields compose, however their requests overlap: each version
\* is the one before with one request's patch.
PatchesCompose ==
  state' # state /\ exists' =>
    /\ state'.version = state.version + 1
    /\ \E r \in Requests : state'.value = Patched(state.value, req[r].patch)

\* Whatever is done, in whatever order: patches compose, and answers stay current.
StateIsSound == [][PatchesCompose /\ AnswersAreCurrent']_vars

\* As long as nothing it covers was replaced, the chain of model calls behind the
\* summary was given each covered message once, in order, as it is stored.
SummaryIsComplete ==
  summary.version # 0 /\ ~rewritten =>
    summary.of = [i \in 1 .. summary.covered |-> messages[i].text]

\* The watermark never goes back, whichever of two requests is slower.
SummaryAdvances ==
  summary' # summary /\ exists' =>
    summary'.version = summary.version + 1 /\ summary'.covered > summary.covered

\* Whatever is done, in whatever order: the summary advances, and stays complete.
SummaryIsSound == [][SummaryAdvances /\ SummaryIsComplete']_vars
=============================================================================
