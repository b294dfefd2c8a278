-------------------------- MODULE ConversationProofs --------------------------
(***************************************************************************)
(* Theorems about a conversation.  Part one, what it remembers, for every  *)
(* number of requests, patches, texts and faults: type correctness, that   *)
(* answered states are current and patches compose, and that a summary is  *)
(* complete and only moves on.  Part two, the replay stream of a turn, for *)
(* every number of deliveries and tabs, every text and every bound: type   *)
(* correctness, that log and previews have no hole and one end, that the   *)
(* recovery record holds, and that no chunk is shown twice while the       *)
(* stream has room.                                                        *)
(***************************************************************************)
EXTENDS ConversationMemory, ChatStream, FiniteSetTheorems, SequenceTheorems,
        WellFoundedInduction, TLAPS

\* A state is none, or one the row had at its version.
Known(s) == s = NoState \/ (s.version \in 1 .. Len(states) /\ s.value = states[s.version])

StatesAreKnown ==
  Known(state) /\ Known(cache) /\ \A r \in Requests : Known(req[r].state)

\* Unless something slipped, the cache is not behind what was told.
CacheKeepsUp == slips = {} => cache = NoState \/ cache.version >= told

\* What a request is about to answer is not behind what was told before it began.
KeepsUp(r) ==
  /\ req[r].owed <= told
  /\ req[r].at = "cacheSet" => req[r].state.version >= req[r].owed
  /\ req[r].at = "cacheDelete" => req[r].owed <= expired \/ ~exists
  /\ req[r].at = "reading" =>
       \/ req[r].state.version >= req[r].owed
       \/ req[r].state = NoState /\ (req[r].owed <= expired \/ ~exists)
       \/ slips # {}

AnswersKeepUp == \A r \in Requests : KeepsUp(r)

StateInv == StatesAreKnown /\ CacheKeepsUp /\ AnswersKeepUp

\* As long as nothing was rewritten, the summary is of the first messages.
Covers ==
  ~rewritten =>
    /\ summary.covered <= Len(messages)
    /\ Len(summary.of) = summary.covered
    /\ \A i \in 1 .. summary.covered : summary.of[i] = messages[i].text

\* The version of a summary identifies it while the conversation exists.
VersionIdentifies ==
  /\ summary.version = 0 => summary = NoSummary
  /\ exists => \A r \in Requests :
       /\ req[r].summary.version <= summary.version
       /\ req[r].summary.version = summary.version => req[r].summary = summary

\* A request that writes a summary found an answer to end it with.
Targeted == \A r \in Requests : req[r].at = "persist" =>
              Answers(req[r].summary, req[r].messages) # {}

SummaryInv == Covers /\ VersionIdentifies /\ Targeted

IInv == TypeOK /\ StateInv /\ SummaryInv

-----------------------------------------------------------------------------
(* Types *)

LEMMA Blanks ==
  NoState \in States /\ NoSummary \in Summaries /\ Idle \in Preparing
<1>1. NoState \in States /\ NoSummary \in Summaries /\ <<>> \in Messages
  BY DEF States, Summaries, NoState, NoSummary, Values, Messages
<1> QED
  BY <1>1 DEF Idle, Preparing, Places

\* Changing a request changes its place, its state or its snapshot.
LEMMA Changed ==
  ASSUME NEW q \in Preparing, NEW a \in Places
  PROVE  /\ \A s \in States : [q EXCEPT !.at = a, !.state = s] \in Preparing
         /\ \A n \in Nat : [q EXCEPT !.at = a, !.owed = n] \in Preparing
         /\ \A p \in Patches, n \in Nat :
              [q EXCEPT !.at = a, !.patch = p, !.patches = TRUE, !.owed = n] \in Preparing
         /\ \A s \in Summaries : [q EXCEPT !.at = a, !.summary = s] \in Preparing
         /\ \A m \in Messages : [q EXCEPT !.at = a, !.messages = m] \in Preparing
         /\ \A s \in Summaries, m \in Messages :
              [q EXCEPT !.at = a, !.summary = s, !.messages = m] \in Preparing
BY DEF Preparing

\* Patching a value gives a value.
LEMMA PatchedType ==
  ASSUME NEW v \in [Fields -> Values], NEW p \in Patches \cup {NoPatch}
  PROVE  Patched(v, p) \in [Fields -> Values]
<1>1. \A f \in DOMAIN p : p[f] \in Values
  <2>1. CASE p \in Patches
    BY <2>1, MemoryAssumption
  <2>2. CASE p = NoPatch
    BY <2>2 DEF NoPatch
  <2> QED
    BY <2>1, <2>2
<1> QED
  BY <1>1 DEF Patched

\* A nonempty set of numbers up to n has a greatest one.
LEMMA Greatest ==
  ASSUME NEW n \in Nat, NEW T, T \subseteq 1 .. n, T # {}
  PROVE  \E i \in T : \A j \in T : j <= i
<1> DEFINE R == {ss \in Nat \X Nat : ss[1] < ss[2]}
           D == {n - i : i \in T}
<1>1. IsWellFoundedOn(R, Nat)
  BY NatLessThanWellFounded DEF OpToRel
<1>2. D \subseteq Nat /\ D # {}
  <2>1. ASSUME NEW i \in T PROVE n - i \in Nat
    <3>1. i \in 1 .. n
      OBVIOUS
    <3> QED
      BY <3>1
  <2>2. PICK i : i \in T
    OBVIOUS
  <2>3. n - i \in D
    BY <2>2
  <2> QED
    BY <2>1, <2>3
<1>3. PICK x \in D : \A y \in D : ~ (<<y, x>> \in R)
  <2> HIDE DEF R, D
  <2> QED
    BY <1>1, <1>2, WFMin
<1>4. PICK i \in T : x = n - i
  OBVIOUS
<1>5. ASSUME NEW j \in T PROVE j <= i
  <2>1. n - j \in D /\ n - j \in Nat /\ x \in Nat
    BY <1>2
  <2>2. ~ (n - j < x)
    BY <1>3, <2>1
  <2> QED
    BY <2>2, <1>4
<1> QED
  BY <1>5

\* The target is an uncovered answer.
LEMMA TargetIsAnswer ==
  ASSUME NEW s \in Summaries, NEW m \in Messages, Answers(s, m) # {}
  PROVE  Target(s, m) \in Answers(s, m) /\ Target(s, m) \in s.covered + 1 .. Len(m)
<1>1. s.covered \in Nat /\ Len(m) \in Nat
  BY DEF Summaries, Messages
<1>2. Answers(s, m) \subseteq s.covered + 1 .. Len(m)
  BY DEF Answers, Uncovered
<1>3. \E i \in Answers(s, m) : \A j \in Answers(s, m) : j <= i
  <2>1. Answers(s, m) \subseteq 1 .. Len(m)
    BY <1>1, <1>2
  <2> QED
    BY <2>1, <1>1, Greatest
<1>4. Target(s, m) \in Answers(s, m)
  BY <1>3 DEF Target
<1> QED
  BY <1>2, <1>4

LEMMA InitTypes == ASSUME Init PROVE TypeOK
<1>1. <<>> \in Messages /\ <<>> \in Seq([Fields -> Values]) /\ Len(<<>>) = 0
  BY DEF Messages
<1>2. MaxTexts \in Nat /\ MaxPrepares \in Nat /\ MaxFaults \in Nat
  BY MemoryAssumption
<1>3. NoState.version = 0
  BY DEF NoState
<1>4. req \in [Requests -> Preparing]
  BY Blanks DEF Init
<1>5. /\ state \in States /\ states \in Seq([Fields -> Values]) /\ cache \in States
      /\ state.version = IF exists THEN Len(states) ELSE 0
      /\ {cache.version, expired, told} \subseteq 0 .. Len(states)
      /\ messages \in Messages /\ summary \in Summaries
  BY <1>1, <1>3, Blanks DEF Init
<1>6. texts \in 0 .. MaxTexts /\ prepares \in 0 .. MaxPrepares /\ faults \in 0 .. MaxFaults
  BY <1>2 DEF Init
<1> QED
  BY <1>4, <1>5, <1>6 DEF Init, TypeOK

LEMMA StartTypes ==
  ASSUME TypeOK, NEW r \in Requests, Start(r)
  PROVE  TypeOK'
<1>1. told \in Nat
  BY DEF TypeOK
<1>2. /\ [Idle EXCEPT !.at = "cache", !.owed = told] \in Preparing
      /\ \A p \in Patches : [Idle EXCEPT !.at = "row", !.patch = p, !.patches = TRUE,
                                          !.owed = told] \in Preparing
  <2>1. "cache" \in Places /\ "row" \in Places
    BY DEF Places
  <2> QED
    BY <1>1, <2>1, Blanks, Changed
<1>3. req' \in [Requests -> Preparing]
  BY <1>2 DEF Start, TypeOK
<1>4. prepares' \in 0 .. MaxPrepares
  <2>1. prepares' = prepares + 1 /\ prepares < MaxPrepares /\ prepares \in 0 .. MaxPrepares
    BY DEF Start, TypeOK
  <2>2. MaxPrepares \in Nat
    BY MemoryAssumption
  <2> QED
    BY <2>1, <2>2
<1> QED
  BY <1>3, <1>4 DEF Start, TypeOK, stateVars, messageVars

\* A failing Redis call is counted within the bound.
LEMMA FaultType ==
  ASSUME faults \in 0 .. MaxFaults, Fault \/ UNCHANGED faults
  PROVE  faults' \in 0 .. MaxFaults
BY MemoryAssumption DEF Fault

LEMMA AnswerTypes ==
  ASSUME TypeOK, NEW r \in Requests, NEW s \in States, s.version \in 0 .. Len(states),
         AnswerState(r, s)
  PROVE  req' \in [Requests -> Preparing] /\ told' \in 0 .. Len(states)
<1>1. [req[r] EXCEPT !.at = "reading", !.state = s] \in Preparing
  <2>1. "reading" \in Places /\ req[r] \in Preparing
    BY DEF Places, TypeOK
  <2> QED
    BY <2>1, Blanks, Changed
<1>2. req' \in [Requests -> Preparing]
  BY <1>1 DEF AnswerState, TypeOK
<1>3. told' \in 0 .. Len(states)
  BY DEF AnswerState, TypeOK
<1> QED
  BY <1>2, <1>3

\* A step to another place.
LEMMA GotoTypes ==
  ASSUME req \in [Requests -> Preparing], NEW r \in Requests, NEW a \in Places, Goto(r, a)
  PROVE  req' \in [Requests -> Preparing]
BY DEF Goto, Preparing

LEMMA ReadCacheTypes ==
  ASSUME TypeOK, NEW r \in Requests, ReadCache(r)
  PROVE  TypeOK'
<1>1. faults' \in 0 .. MaxFaults
  BY FaultType DEF ReadCache, TypeOK
<1>2. cache \in States /\ cache.version \in 0 .. Len(states)
  BY DEF TypeOK
<1>3. req' \in [Requests -> Preparing] /\ told' \in 0 .. Len(states)
  <2>1. CASE AnswerState(r, cache)
    BY <1>2, <2>1, AnswerTypes
  <2>2. CASE Goto(r, "row") /\ UNCHANGED told
    BY <2>2, GotoTypes DEF TypeOK, Places
  <2> QED
    BY <2>1, <2>2 DEF ReadCache
<1> QED
  BY <1>1, <1>3 DEF ReadCache, TypeOK, messageVars

LEMMA ReadStateTypes ==
  ASSUME TypeOK, NEW r \in Requests, ReadState(r)
  PROVE  TypeOK'
<1>1. PICK next \in {"write", "cacheSet", "cacheDelete"} :
        req' = [req EXCEPT ![r] =
                 [@ EXCEPT !.at = next,
                           !.state = IF next = "cacheDelete" THEN NoState ELSE state]]
  BY DEF ReadState
<1>2. req' \in [Requests -> Preparing]
  <2> DEFINE s == IF next = "cacheDelete" THEN NoState ELSE state
  <2>1. s \in States /\ next \in Places /\ req[r] \in Preparing
    BY Blanks DEF TypeOK, Places
  <2>2. [req[r] EXCEPT !.at = next, !.state = s] \in Preparing
    <3> HIDE DEF s
    <3> QED
      BY <2>1, Blanks, Changed
  <2>3. req' = [req EXCEPT ![r] = [req[r] EXCEPT !.at = next, !.state = s]]
    BY <1>1
  <2> QED
    BY <2>2, <2>3 DEF TypeOK
<1> QED
  BY <1>2 DEF ReadState, TypeOK, stateVars, messageVars

\* Writing a state numbers it and keeps it.
LEMMA PutTypes ==
  ASSUME TypeOK, exists, NEW r \in Requests, NEW value \in [Fields -> Values],
         PutState(r, [version |-> state.version + 1, value |-> value])
  PROVE  /\ state' \in States /\ states' \in Seq([Fields -> Values])
         /\ state'.version = Len(states') /\ Len(states') = Len(states) + 1
         /\ req' \in [Requests -> Preparing]
<1> DEFINE new == [version |-> state.version + 1, value |-> value]
<1>1. state.version = Len(states) /\ Len(states) \in Nat /\ states \in Seq([Fields -> Values])
  BY DEF TypeOK
<1>2. new \in States /\ new.version = Len(states) + 1 /\ new.value = value
  BY <1>1 DEF States
<1>3. state' = new /\ states' = Append(states, value)
  BY <1>2 DEF PutState
<1>4. states' \in Seq([Fields -> Values]) /\ Len(states') = Len(states) + 1
  BY <1>1, <1>3
<1>5. req' = [req EXCEPT ![r] = [req[r] EXCEPT !.at = "cacheSet", !.state = new]]
  BY DEF PutState
<1>6. req' \in [Requests -> Preparing]
  <2> HIDE DEF new
  <2>1. "cacheSet" \in Places /\ req[r] \in Preparing
    BY DEF Places, TypeOK
  <2>2. [req[r] EXCEPT !.at = "cacheSet", !.state = new] \in Preparing
    BY <1>2, <2>1, Blanks, Changed
  <2> QED
    BY <1>5, <2>2 DEF TypeOK
<1> QED
  BY <1>2, <1>3, <1>4, <1>6

\* What WriteState does with the rows: it puts a patched state, sends the request back,
\* or leaves.
LEMMA Writes ==
  ASSUME TypeOK, StateInv, NEW r \in Requests, WriteState(r)
  PROVE  \/ /\ exists /\ state.value \in [Fields -> Values]
            /\ PutState(r, [version |-> state.version + 1,
                            value |-> Patched(state.value, req[r].patch)])
         \/ /\ req' = [req EXCEPT ![r].at = "row"] \/ req' = [req EXCEPT ![r] = Idle]
            /\ UNCHANGED <<state, states>>
<1>1. state \in States /\ state.value \in [Fields -> Values]
  BY DEF TypeOK, States
<1>2. ASSUME state.version = 0 PROVE state.value = NoState.value
  BY <1>2, <1>1 DEF StateInv, StatesAreKnown, Known
<1>3. CASE /\ exists /\ state.version = 0
           /\ PutState(r, [version |-> 1, value |-> Patched(NoState.value, req[r].patch)])
  <2>1. state.version + 1 = 1
    BY <1>3
  <2> QED
    BY <1>1, <1>2, <1>3, <2>1
<1> QED
  BY <1>1, <1>3 DEF WriteState, UpdateState, Goto, Leave

LEMMA WriteStateTypes ==
  ASSUME TypeOK, StateInv, NEW r \in Requests, WriteState(r)
  PROVE  TypeOK'
<1>1. req[r].patch \in Patches \cup {NoPatch}
  BY DEF TypeOK, Preparing
<1>2. CASE /\ exists /\ state.value \in [Fields -> Values]
           /\ PutState(r, [version |-> state.version + 1,
                           value |-> Patched(state.value, req[r].patch)])
  <2>1. Patched(state.value, req[r].patch) \in [Fields -> Values]
    BY <1>1, <1>2, PatchedType
  <2>2. /\ state' \in States /\ states' \in Seq([Fields -> Values])
        /\ state'.version = Len(states') /\ Len(states') = Len(states) + 1
        /\ req' \in [Requests -> Preparing]
    BY <1>2, <2>1, PutTypes
  <2>3. Len(states) \in Nat /\ {cache.version, expired, told} \subseteq 0 .. Len(states')
    BY <2>2 DEF TypeOK
  <2> QED
    BY <1>2, <2>2, <2>3 DEF WriteState, TypeOK, messageVars
<1>3. CASE /\ req' = [req EXCEPT ![r].at = "row"] \/ req' = [req EXCEPT ![r] = Idle]
           /\ UNCHANGED <<state, states>>
  <2>1. req' \in [Requests -> Preparing]
    BY <1>3, Blanks, GotoTypes DEF TypeOK, Places, Goto
  <2> QED
    BY <1>3, <2>1 DEF WriteState, TypeOK, messageVars
<1> QED
  BY <1>2, <1>3, Writes

LEMMA SetCacheTypes ==
  ASSUME TypeOK, StateInv, NEW r \in Requests, SetCache(r)
  PROVE  TypeOK'
<1>1. req[r].state \in States /\ req[r].state.version \in 0 .. Len(states)
  <2>1. req[r].state \in States /\ Len(states) \in Nat
    BY DEF TypeOK, Preparing
  <2>2. Known(req[r].state)
    BY DEF StateInv, StatesAreKnown
  <2> QED
    BY <2>1, <2>2 DEF Known, NoState
<1>2. cache' \in States /\ cache'.version \in 0 .. Len(states)
  <2>1. NoState.version \in 0 .. Len(states)
    BY DEF NoState, TypeOK
  <2> QED
    BY <1>1, <2>1, Blanks DEF SetCache, StoreInCache, TypeOK
<1>3. faults' \in 0 .. MaxFaults
  BY FaultType DEF SetCache, TypeOK
<1>4. req' \in [Requests -> Preparing] /\ told' \in 0 .. Len(states)
  BY <1>1, AnswerTypes DEF SetCache
<1>5. slips' \subseteq {"lost", "overtaken"}
  BY DEF SetCache, TypeOK
<1> QED
  BY <1>2, <1>3, <1>4, <1>5 DEF SetCache, TypeOK, messageVars

LEMMA DeleteCacheTypes ==
  ASSUME TypeOK, NEW r \in Requests, DeleteCache(r)
  PROVE  TypeOK'
<1>1. NoState \in States /\ NoState.version \in 0 .. Len(states)
  BY Blanks DEF NoState, TypeOK
<1>2. cache' \in States /\ cache'.version \in 0 .. Len(states)
  BY <1>1 DEF DeleteCache, TypeOK
<1>3. faults' \in 0 .. MaxFaults
  BY FaultType DEF DeleteCache, TypeOK
<1>4. req' \in [Requests -> Preparing] /\ told' \in 0 .. Len(states)
  BY <1>1, AnswerTypes DEF DeleteCache
<1> QED
  BY <1>2, <1>3, <1>4 DEF DeleteCache, TypeOK, messageVars

LEMMA ReadSnapshotTypes ==
  ASSUME TypeOK, NEW r \in Requests, ReadSnapshot(r)
  PROVE  TypeOK'
<1>1. summary \in Summaries /\ messages \in Messages
  BY DEF TypeOK
<1>2. req[r].summary \in Summaries /\ req[r].messages \in Messages
  BY DEF TypeOK, Preparing
<1>3. {"readSummary", "readMessages", "persist"} \subseteq Places
  BY DEF Places
<1>4. [Idle EXCEPT !.at = "readSummary", !.summary = summary] \in Preparing
  BY <1>1, <1>3, Blanks, Changed
<1>5. [Idle EXCEPT !.at = "readMessages", !.messages = messages] \in Preparing
  BY <1>1, <1>3, Blanks, Changed
<1>6. ASSUME NEW s \in Summaries, NEW m \in Messages, Decide(r, s, m)
      PROVE  req' \in [Requests -> Preparing]
  <2>1. [Idle EXCEPT !.at = "persist", !.summary = s, !.messages = m] \in Preparing
    BY <1>3, <1>6, Blanks, Changed
  <2> QED
    BY <1>6, <2>1, Blanks DEF Decide, Leave, TypeOK
<1>7. req' \in [Requests -> Preparing]
  BY <1>1, <1>2, <1>4, <1>5, <1>6 DEF ReadSnapshot, TypeOK
<1> QED
  BY <1>7 DEF ReadSnapshot, TypeOK, stateVars, messageVars

\* The texts of messages are a sequence of their length.
LEMMA TextsOf ==
  ASSUME NEW m \in Messages
  PROVE  /\ [i \in DOMAIN m |-> m[i].text] \in Seq(Nat)
         /\ Len([i \in DOMAIN m |-> m[i].text]) = Len(m)
         /\ Len(m) \in Nat /\ DOMAIN m = 1 .. Len(m)
<1> DEFINE t == [i \in 1 .. Len(m) |-> m[i].text]
<1>1. Len(m) \in Nat /\ DOMAIN m = 1 .. Len(m)
  BY DEF Messages
<1>2. ASSUME NEW i \in 1 .. Len(m) PROVE m[i].text \in Nat
  <2>1. m[i] \in Entries
    BY ElementOfSeq DEF Messages
  <2> QED
    BY <2>1 DEF Entries
<1>3. t \in Seq(Nat) /\ Len(t) = Len(m)
  BY <1>1, <1>2
<1> QED
  BY <1>1, <1>3

\* What persistWithCas does to the summary: nothing, or it appends the texts that are
\* still in place after those the summary has, up to the target.
LEMMA Persists ==
  ASSUME TypeOK, SummaryInv, NEW r \in Requests, PersistWithCas(r), summary' # summary
  PROVE  /\ exists
         /\ summary' \in Summaries
         /\ summary'.version = summary.version + 1
         /\ summary'.covered > summary.covered
         /\ summary'.covered <= Len(messages)
         /\ Len(summary'.of) = Len(summary.of) + (summary'.covered - summary.covered)
         /\ \A i \in 1 .. Len(summary'.of) :
              summary'.of[i] = IF i <= Len(summary.of) THEN summary.of[i]
                               ELSE messages[summary.covered + (i - Len(summary.of))].text
<1> DEFINE s == req[r].summary
           m == req[r].messages
           target == Target(s, m)
           new == SubSeq(m, s.covered + 1, target)
           texts1 == [i \in DOMAIN new |-> new[i].text]
<1>1. /\ req[r].at = "persist" /\ exists /\ SameSummary(r) /\ SameSource(r)
      /\ summary' = [version |-> summary.version + 1, covered |-> target, of |-> s.of \o texts1]
  BY DEF PersistWithCas
<1>2. s \in Summaries /\ m \in Messages /\ summary \in Summaries /\ messages \in Messages
  BY DEF TypeOK, Preparing
<1>3. s = summary
  BY <1>1 DEF SummaryInv, VersionIdentifies, SameSummary
<1>4. target \in s.covered + 1 .. Len(m)
  <2>1. Answers(s, m) # {}
    BY <1>1 DEF SummaryInv, Targeted
  <2> QED
    BY <1>2, <2>1, TargetIsAnswer
<1>5. s.covered \in Nat /\ s.of \in Seq(Nat) /\ s.version \in Nat /\ Len(s.of) \in Nat
  BY <1>2 DEF Summaries
<1>6. Len(m) \in Nat /\ Len(messages) \in Nat /\ target \in Nat
  BY <1>2, <1>4, <1>5, TextsOf
<1>7. /\ new \in Messages /\ Len(new) = target - s.covered
      /\ \A i \in 1 .. target - s.covered : new[i] = m[s.covered + i]
  <2> HIDE DEF target, s, m
  <2>1. ASSUME NEW i \in s.covered + 1 .. target PROVE m[i] \in Entries
    <3>1. i \in 1 .. Len(m)
      BY <1>4, <1>5, <1>6
    <3> QED
      BY <1>2, <3>1, ElementOfSeq DEF Messages
  <2>2. /\ new \in Messages
        /\ Len(new) = target - (s.covered + 1) + 1
        /\ \A i \in 1 .. target - (s.covered + 1) + 1 : new[i] = m[(s.covered + 1) + i - 1]
    <3>1. /\ SubSeq(m, s.covered + 1, target) \in Seq(Entries)
          /\ Len(SubSeq(m, s.covered + 1, target)) =
               IF s.covered + 1 <= target THEN target - (s.covered + 1) + 1 ELSE 0
          /\ \A i \in 1 .. target - (s.covered + 1) + 1 :
               SubSeq(m, s.covered + 1, target)[i] = m[(s.covered + 1) + i - 1]
      <4>1. s.covered + 1 \in Int /\ target \in Int
        BY <1>5, <1>6
      <4> QED
        BY <2>1, <4>1, SubSeqProperties
    <3>2. s.covered + 1 <= target
      BY <1>4, <1>5, <1>6
    <3> QED
      BY <3>1, <3>2 DEF Messages
  <2> QED
    <3>1. target - (s.covered + 1) + 1 = target - s.covered
      BY <1>5, <1>6
    <3>2. ASSUME NEW i \in 1 .. target - s.covered PROVE (s.covered + 1) + i - 1 = s.covered + i
      BY <1>5
    <3> HIDE DEF new
    <3> QED
      BY <2>2, <3>1, <3>2
<1>8. Len(messages) >= target /\ \A i \in 1 .. target : messages[i] = m[i]
  <2>1. Len(messages) >= target /\ SubSeq(messages, 1, target) = SubSeq(m, 1, target)
    BY <1>1 DEF SameSource
  <2> HIDE DEF target, m, s
  <2>2. ASSUME NEW i \in 1 .. target PROVE messages[i] \in Entries /\ m[i] \in Entries
    <3>1. i \in 1 .. Len(m) /\ i \in 1 .. Len(messages)
      BY <1>4, <1>5, <1>6, <2>1
    <3> QED
      BY <1>2, <3>1, ElementOfSeq DEF Messages
  <2>3. \A i \in 1 .. target - 1 + 1 : SubSeq(messages, 1, target)[i] = messages[1 + i - 1]
    BY <1>6, <2>2, SubSeqProperties
  <2>4. \A i \in 1 .. target - 1 + 1 : SubSeq(m, 1, target)[i] = m[1 + i - 1]
    BY <1>6, <2>2, SubSeqProperties
  <2>5. ASSUME NEW i \in 1 .. target PROVE messages[i] = m[i]
    <3>1. i \in 1 .. target - 1 + 1 /\ 1 + i - 1 = i
      BY <1>6
    <3> QED
      BY <2>1, <2>3, <2>4, <3>1
  <2> QED
    BY <2>1, <2>5
<1>9. /\ texts1 \in Seq(Nat) /\ Len(texts1) = target - s.covered
      /\ \A i \in 1 .. target - s.covered : texts1[i] = messages[s.covered + i].text
  <2>1. texts1 \in Seq(Nat) /\ Len(texts1) = Len(new) /\ DOMAIN new = 1 .. Len(new)
    BY <1>7, TextsOf
  <2>2. ASSUME NEW i \in 1 .. target - s.covered
        PROVE  texts1[i] = messages[s.covered + i].text
    <3>1. s.covered + i \in 1 .. target
      <4> HIDE DEF target, s
      <4> QED
        BY <1>5, <1>6
    <3>2. i \in DOMAIN new
      BY <1>7, <2>1
    <3>3. texts1[i] = new[i].text /\ new[i] = m[s.covered + i]
      BY <1>7, <3>2
    <3> QED
      BY <1>8, <3>1, <3>3
  <2> QED
    BY <1>7, <2>1, <2>2
<1>10. /\ s.of \o texts1 \in Seq(Nat)
       /\ Len(s.of \o texts1) = Len(s.of) + Len(texts1)
       /\ \A i \in 1 .. Len(s.of) + Len(texts1) : (s.of \o texts1)[i] =
            IF i <= Len(s.of) THEN s.of[i] ELSE texts1[i - Len(s.of)]
  <2> HIDE DEF texts1
  <2> QED
    BY <1>5, <1>9, ConcatProperties
<1>11. /\ summary'.version = s.version + 1 /\ summary'.covered = target
       /\ summary'.of = s.of \o texts1
  BY <1>1, <1>3
<1>12. summary' \in Summaries
  <2>2. summary' = [version |-> s.version + 1, covered |-> target, of |-> s.of \o texts1]
    BY <1>1, <1>3
  <2> HIDE DEF texts1, target, s
  <2>3. target \in Nat /\ s.version + 1 \in Nat
    BY <1>5, <1>6
  <2>1. target \in Nat /\ s.version + 1 \in Nat /\ s.of \o texts1 \in Seq(Nat)
    BY <1>10, <2>3
  <2> QED
    BY <2>1, <2>2 DEF Summaries
<1>13. ASSUME NEW i \in 1 .. Len(summary'.of)
       PROVE  summary'.of[i] = IF i <= Len(s.of) THEN s.of[i]
                               ELSE messages[s.covered + (i - Len(s.of))].text
  <2> HIDE DEF texts1, target, s
  <2>1. i \in 1 .. Len(s.of) + Len(texts1)
    BY <1>10, <1>11
  <2>2. CASE i <= Len(s.of)
    BY <1>10, <1>11, <2>1, <2>2
  <2>3. CASE ~(i <= Len(s.of))
    <3>1. Len(texts1) = target - s.covered /\ i \in Nat /\ i <= Len(s.of) + Len(texts1)
      BY <1>9, <2>1
    <3>2. i - Len(s.of) \in 1 .. target - s.covered
      BY <1>5, <1>6, <2>3, <3>1
    <3>3. /\ (i - Len(s.of)) \in Int
          /\ texts1[i - Len(s.of)] = messages[s.covered + (i - Len(s.of))].text
      BY <1>9, <3>2
    <3> QED
      BY <1>10, <1>11, <2>1, <2>3, <3>3
  <2> QED
    BY <2>2, <2>3
<1> QED
  <2>1. target > s.covered /\ target <= Len(messages)
    BY <1>4, <1>5, <1>6, <1>8
  <2>2. Len(summary'.of) = Len(s.of) + (target - s.covered)
    BY <1>9, <1>10, <1>11
  <2> HIDE DEF s, target
  <2> QED
    BY <1>1, <1>3, <1>11, <1>12, <1>13, <2>1, <2>2

LEMMA PersistTypes ==
  ASSUME TypeOK, SummaryInv, NEW r \in Requests, PersistWithCas(r)
  PROVE  TypeOK'
<1>1. summary' \in Summaries
  BY Persists DEF TypeOK
<1>2. req' \in [Requests -> Preparing]
  BY Blanks DEF PersistWithCas, Leave, TypeOK
<1> QED
  BY <1>1, <1>2 DEF PersistWithCas, TypeOK, stateVars, messageVars

LEMMA AppendTypes ==
  ASSUME TypeOK, NEW role \in {"USER", "ASSISTANT"}, AppendMessage(role)
  PROVE  /\ TypeOK'
         /\ Len(messages') = Len(messages) + 1 /\ Len(messages) \in Nat
         /\ \A i \in 1 .. Len(messages) : messages'[i] = messages[i]
<1>1. texts + 1 \in 0 .. MaxTexts /\ texts + 1 \in Nat /\ messages \in Messages
  BY MemoryAssumption DEF AppendMessage, TypeOK
<1>2. Message(texts + 1, role) \in Entries
  BY <1>1 DEF Message, Entries
<1>3. messages' = Append(messages, Message(texts + 1, role)) /\ texts' = texts + 1
  BY DEF AppendMessage
<1>4. /\ messages' \in Messages
      /\ Len(messages') = Len(messages) + 1 /\ Len(messages) \in Nat
      /\ \A i \in 1 .. Len(messages) : messages'[i] = messages[i]
  <2> DEFINE e == Message(texts + 1, role)
  <2> HIDE DEF e
  <2> QED
    BY <1>1, <1>2, <1>3 DEF Messages
<1>5. TypeOK'
  BY <1>1, <1>3, <1>4 DEF AppendMessage, TypeOK, stateVars
<1> QED
  BY <1>4, <1>5

LEMMA SyncTypes ==
  ASSUME TypeOK, Sync
  PROVE  /\ TypeOK'
         /\ ~rewritten' => /\ ~rewritten /\ summary.covered <= Len(messages')
                           /\ \A i \in 1 .. summary.covered : messages'[i] = messages[i]
<1>1. PICK shared \in 0 .. Len(messages),
           own \in {<<>>, <<"ASSISTANT">>, <<"USER", "ASSISTANT">>} :
        /\ texts + Len(own) <= MaxTexts
        /\ messages' = SubSeq(messages, 1, shared)
                         \o [i \in DOMAIN own |-> Message(texts + i, own[i])]
        /\ texts' = texts + Len(own)
        /\ rewritten' = (rewritten \/ shared < summary.covered)
  BY DEF Sync
<1> DEFINE spared == SubSeq(messages, 1, shared)
           added == [i \in DOMAIN own |-> Message(texts + i, own[i])]
<1>2. messages \in Messages /\ Len(messages) \in Nat /\ texts \in Nat /\ shared \in Nat
  BY MemoryAssumption DEF TypeOK, Messages
<1>3. /\ Len(own) \in Nat /\ DOMAIN own = 1 .. Len(own)
      /\ \A i \in 1 .. Len(own) : own[i] \in {"USER", "ASSISTANT"}
  OBVIOUS
<1>4. added \in Messages /\ Len(added) = Len(own)
  <2>1. ASSUME NEW i \in 1 .. Len(own) PROVE Message(texts + i, own[i]) \in Entries
    BY <1>2, <1>3 DEF Message, Entries
  <2>2. added \in [1 .. Len(own) -> Entries]
    BY <1>3, <2>1
  <2> HIDE DEF added
  <2> QED
    BY <1>3, <2>2 DEF Messages
<1>5. /\ spared \in Messages /\ Len(spared) = shared
      /\ \A i \in 1 .. shared : spared[i] = messages[i]
  <2>1. ASSUME NEW i \in 1 .. shared PROVE messages[i] \in Entries
    <3>1. i \in 1 .. Len(messages)
      BY <1>2
    <3> QED
      BY <1>2, <3>1, ElementOfSeq DEF Messages
  <2>2. /\ spared \in Seq(Entries)
        /\ Len(spared) = IF 1 <= shared THEN shared - 1 + 1 ELSE 0
        /\ \A i \in 1 .. shared - 1 + 1 : spared[i] = messages[1 + i - 1]
    BY <1>2, <2>1, SubSeqProperties
  <2> HIDE DEF spared
  <2> QED
    BY <1>2, <2>2 DEF Messages
<1>6. /\ messages' \in Messages /\ Len(messages') = shared + Len(own)
      /\ \A i \in 1 .. shared : messages'[i] = messages[i]
  <2>1. messages' = spared \o added
    BY <1>1
  <2> HIDE DEF spared, added
  <2>3. spared \in Seq(Entries) /\ added \in Seq(Entries)
    BY <1>4, <1>5 DEF Messages
  <2>4. /\ spared \o added \in Seq(Entries) /\ Len(spared \o added) = Len(spared) + Len(added)
        /\ \A i \in 1 .. Len(spared) + Len(added) :
             (spared \o added)[i] = IF i <= Len(spared) THEN spared[i] ELSE added[i - Len(spared)]
    BY <2>3, ConcatProperties
  <2>2. /\ messages' \in Messages /\ Len(messages') = Len(spared) + Len(added)
        /\ \A i \in 1 .. Len(spared) + Len(added) :
             messages'[i] = IF i <= Len(spared) THEN spared[i] ELSE added[i - Len(spared)]
    BY <2>1, <2>4 DEF Messages
  <2> QED
    BY <1>2, <1>3, <1>4, <1>5, <2>2
<1>7. texts' \in 0 .. MaxTexts /\ rewritten' \in BOOLEAN /\ syncs' \in Nat
  <2>1. texts' = texts + Len(own) /\ texts + Len(own) <= MaxTexts /\ MaxTexts \in Nat
    BY <1>1, MemoryAssumption
  <2>2. syncs' = syncs + 1 /\ syncs \in Nat /\ rewritten \in BOOLEAN
    BY DEF Sync, TypeOK
  <2>3. rewritten' \in BOOLEAN
    BY <1>1
  <2> QED
    BY <1>2, <1>3, <2>1, <2>2, <2>3
<1>8. ASSUME ~rewritten'
      PROVE  /\ ~rewritten /\ summary.covered <= Len(messages')
             /\ \A i \in 1 .. summary.covered : messages'[i] = messages[i]
  <2>1. summary.covered \in Nat
    BY DEF TypeOK, Summaries
  <2>2. ~rewritten /\ ~(shared < summary.covered)
    BY <1>1, <1>8
  <2>3. summary.covered <= shared
    BY <1>2, <2>1, <2>2
  <2>4. summary.covered <= Len(messages')
    BY <1>2, <1>3, <1>6, <2>1, <2>3
  <2>5. \A i \in 1 .. summary.covered : i \in 1 .. shared
    BY <1>2, <2>1, <2>3
  <2> QED
    BY <1>6, <2>2, <2>4, <2>5
<1>9. TypeOK'
  BY <1>6, <1>7 DEF Sync, TypeOK, stateVars
<1> QED
  BY <1>8, <1>9

LEMMA OtherTypes ==
  ASSUME TypeOK, StateExpires \/ CacheEvicts \/ Clear \/ ClearCache
  PROVE  TypeOK'
<1>1. NoState.version = 0 /\ <<>> \in Messages /\ Len(states) \in Nat
  BY DEF NoState, Messages, TypeOK
<1>2. CASE StateExpires
  <2>1. expired' \in 0 .. Len(states)
    BY <1>2 DEF StateExpires, TypeOK
  <2> QED
    BY <1>1, <1>2, <2>1, Blanks DEF StateExpires, TypeOK, messageVars
<1>3. CASE CacheEvicts
  BY <1>1, <1>3, Blanks DEF CacheEvicts, TypeOK, messageVars
<1>4. CASE Clear
  BY <1>1, <1>4, Blanks DEF Clear, TypeOK
<1>5. CASE ClearCache
  <2>1. faults' \in 0 .. MaxFaults
    BY <1>5, FaultType DEF ClearCache, TypeOK
  <2>2. cache' \in States /\ cache'.version \in 0 .. Len(states)
    BY <1>1, <1>5, Blanks DEF ClearCache, TypeOK
  <2> QED
    BY <1>5, <2>1, <2>2 DEF ClearCache, TypeOK, messageVars
<1> QED
  BY <1>2, <1>3, <1>4, <1>5

\* Every step keeps the types.
LEMMA NextTypes ==
  ASSUME TypeOK, StateInv, SummaryInv, [Next]_vars
  PROVE  TypeOK'
<1>1. ASSUME NEW r \in Requests, Prepare(r) PROVE TypeOK'
  BY <1>1, StartTypes, ReadCacheTypes, ReadStateTypes, WriteStateTypes, SetCacheTypes,
     DeleteCacheTypes, ReadSnapshotTypes, PersistTypes DEF Prepare
<1>2. CASE AppendMessage("USER") \/ AppendMessage("ASSISTANT")
  BY <1>2, AppendTypes
<1>3. CASE Sync
  BY <1>3, SyncTypes
<1>4. CASE StateExpires \/ CacheEvicts \/ Clear \/ ClearCache
  BY <1>4, OtherTypes
<1>5. CASE UNCHANGED vars
  BY <1>5 DEF vars, stateVars, messageVars, TypeOK
<1> QED
  BY <1>1, <1>2, <1>3, <1>4, <1>5 DEF Next

-----------------------------------------------------------------------------
(* The state *)

\* A state that was real stays so: the row only gains versions.
LEMMA KnownStays ==
  ASSUME states \in Seq([Fields -> Values]),
         states' = states \/ \E v \in [Fields -> Values] : states' = Append(states, v)
  PROVE  /\ Len(states') >= Len(states)
         /\ \A s : Known(s) =>
              s = NoState \/ (s.version \in 1 .. Len(states') /\ s.value = states'[s.version])
<1>1. Len(states) \in Nat
  OBVIOUS
<1>2. CASE states' = states
  BY <1>1, <1>2 DEF Known
<1>3. ASSUME NEW v \in [Fields -> Values], states' = Append(states, v)
      PROVE  /\ Len(states') >= Len(states)
             /\ \A s : Known(s) =>
                  s = NoState \/ (s.version \in 1 .. Len(states') /\ s.value = states'[s.version])
  <2>1. Len(states') = Len(states) + 1 /\ \A i \in 1 .. Len(states) : states'[i] = states[i]
    BY <1>1, <1>3
  <2> QED
    BY <1>1, <2>1 DEF Known
<1> QED
  BY <1>2, <1>3

\* What is known stays known in the row, the cache and every request, when each keeps
\* its state or takes one that is known.
LEMMA KnownFrame ==
  ASSUME TypeOK, StatesAreKnown, UNCHANGED states,
         state' = state \/ state' = NoState,
         Known(cache'),
         NEW r \in Requests, Known(req'[r].state),
         \A q \in Requests \ {r} : req'[q] = req[q]
  PROVE  StatesAreKnown'
BY DEF StatesAreKnown, Known

\* A request keeps up when it stays as it was: what was told, what expired and what
\* slipped only grow.
LEMMA KeepsUpFrame ==
  ASSUME TypeOK, TypeOK', told <= told', expired <= expired', exists' => exists,
         slips \subseteq slips',
         NEW r \in Requests, KeepsUp(r), req'[r] = req[r]
  PROVE  KeepsUp(r)'
<1>1. /\ told \in Nat /\ told' \in Nat /\ expired \in Nat /\ expired' \in Nat
      /\ req[r].owed \in Nat
  BY DEF TypeOK, Preparing
<1> QED
  BY <1>1 DEF KeepsUp

LEMMA StateFrame ==
  ASSUME TypeOK, TypeOK', StateInv, UNCHANGED states,
         state' = state \/ state' = NoState,
         Known(cache'), CacheKeepsUp',
         told <= told', expired <= expired', exists' => exists, slips \subseteq slips',
         NEW r \in Requests, Known(req'[r].state), KeepsUp(r)',
         \A q \in Requests \ {r} : req'[q] = req[q]
  PROVE  StateInv'
<1>1. StatesAreKnown'
  BY KnownFrame DEF StateInv
<1>2. ASSUME NEW q \in Requests PROVE KeepsUp(q)'
  <2>1. CASE q = r
    BY <2>1
  <2>2. CASE q # r
    BY <2>2, KeepsUpFrame DEF StateInv, AnswersKeepUp
  <2> QED
    BY <2>1, <2>2
<1> QED
  BY <1>1, <1>2 DEF StateInv, AnswersKeepUp

\* The same when no request moves.
LEMMA StillFrame ==
  ASSUME TypeOK, TypeOK', StateInv, UNCHANGED <<states, req>>,
         state' = state \/ state' = NoState,
         Known(cache'), CacheKeepsUp',
         told <= told', expired <= expired', exists' => exists, slips \subseteq slips'
  PROVE  StateInv'
<1>1. StatesAreKnown'
  BY DEF StateInv, StatesAreKnown, Known
<1>2. ASSUME NEW q \in Requests PROVE KeepsUp(q)'
  BY KeepsUpFrame DEF StateInv, AnswersKeepUp
<1> QED
  BY <1>1, <1>2 DEF StateInv, AnswersKeepUp

\* What the invariant says of one request, of what was told and of the versions.
LEMMA Sizes ==
  ASSUME IInv, NEW r \in Requests
  PROVE  /\ req \in [Requests -> Preparing] /\ req[r] \in Preparing
         /\ req[r].state \in States /\ req[r].owed \in Nat
         /\ states \in Seq([Fields -> Values]) /\ Len(states) \in Nat
         /\ told \in 0 .. Len(states) /\ told \in Nat /\ told <= Len(states)
         /\ expired \in Nat /\ state \in States /\ cache \in States
         /\ state.version = (IF exists THEN Len(states) ELSE 0)
         /\ Known(state) /\ Known(cache) /\ Known(req[r].state)
         /\ CacheKeepsUp /\ KeepsUp(r) /\ StatesAreKnown /\ AnswersKeepUp
<1>1. TypeOK /\ StateInv
  BY DEF IInv
<1>2. /\ req \in [Requests -> Preparing] /\ states \in Seq([Fields -> Values])
      /\ state \in States /\ cache \in States
      /\ told \in 0 .. Len(states) /\ expired \in 0 .. Len(states)
      /\ state.version = (IF exists THEN Len(states) ELSE 0)
  BY <1>1 DEF TypeOK
<1>3. Len(states) \in Nat /\ told \in Nat /\ told <= Len(states) /\ expired \in Nat
  BY <1>2
<1>4. req[r] \in Preparing
  BY <1>2
<1>5. req[r].state \in States /\ req[r].owed \in Nat
  BY <1>4 DEF Preparing
<1>6. StatesAreKnown /\ CacheKeepsUp /\ AnswersKeepUp
  BY <1>1 DEF StateInv
<1>7. Known(state) /\ Known(cache) /\ Known(req[r].state)
  BY <1>6 DEF StatesAreKnown
<1>8. KeepsUp(r)
  BY <1>6 DEF AnswersKeepUp
<1> QED
  BY <1>2, <1>3, <1>4, <1>5, <1>6, <1>7, <1>8

\* A request that left or begins the summary knows of no state.
LEMMA Leaves ==
  ASSUME TypeOK, NEW r \in Requests, req'[r].state = NoState,
         req'[r].owed = 0, req'[r].at \notin {"cacheSet", "cacheDelete", "reading"},
         told' \in Nat
  PROVE  Known(req'[r].state) /\ KeepsUp(r)'
<1>1. Known(req'[r].state)
  BY DEF Known
<1>2. req'[r].owed <= told'
  OBVIOUS
<1> QED
  BY <1>1, <1>2 DEF KeepsUp

LEMMA StartState ==
  ASSUME IInv, TypeOK', NEW r \in Requests, Start(r)
  PROVE  StateInv'
<1>1. /\ req'[r].at \in {"cache", "row"} /\ req'[r].owed = told /\ req'[r].state = NoState
      /\ \A q \in Requests \ {r} : req'[q] = req[q]
      /\ told' = told
  <2>1. req \in [Requests -> Preparing] /\ told' = told
    BY Sizes DEF Start, stateVars
  <2>2. req'[r].at \in {"cache", "row"} /\ req'[r].owed = told /\ req'[r].state = NoState
    <3>1. req[r] \in Preparing /\ Idle.owed = 0 /\ Idle.state = NoState
      BY Sizes DEF Idle
    <3>2. CASE req' = [req EXCEPT ![r] = [Idle EXCEPT !.at = "cache", !.owed = told]]
      BY <2>1, <3>2 DEF Idle
    <3>3. ASSUME NEW p \in Patches,
                 req' = [req EXCEPT ![r] = [Idle EXCEPT !.at = "row", !.patch = p,
                                                        !.patches = TRUE, !.owed = told]]
          PROVE  req'[r].at \in {"cache", "row"} /\ req'[r].owed = told
                 /\ req'[r].state = NoState
      BY <2>1, <3>3 DEF Idle
    <3> QED
      BY <3>2, <3>3 DEF Start
  <2>3. \A q \in Requests \ {r} : req'[q] = req[q]
    BY <2>1 DEF Start
  <2> QED
    BY <2>1, <2>2, <2>3
<1>2. told \in Nat /\ expired \in Nat
  BY Sizes
<1>3. KeepsUp(r)'
  BY <1>1, <1>2 DEF KeepsUp
<1>4. Known(req'[r].state)
  BY <1>1 DEF Known
<1>5. /\ Known(cache') /\ CacheKeepsUp'
      /\ UNCHANGED <<state, states, exists, expired, slips>>
  BY DEF Start, IInv, StateInv, StatesAreKnown, CacheKeepsUp, stateVars, Known
<1> QED
  BY <1>1, <1>2, <1>3, <1>4, <1>5, StateFrame DEF IInv

\* An answer tells its version.
LEMMA Answers1 ==
  ASSUME TypeOK, NEW r \in Requests, NEW s \in States, AnswerState(r, s)
  PROVE  /\ req'[r].state = s /\ req'[r].at = "reading" /\ req'[r].owed = req[r].owed
         /\ \A q \in Requests \ {r} : req'[q] = req[q]
         /\ told' >= told /\ told' >= s.version /\ told' \in Nat /\ told \in Nat
         /\ told' = told \/ told' = s.version
         /\ s.version \in Nat
<1>1. req[r] \in Preparing /\ told \in Nat /\ s.version \in Nat
  BY DEF TypeOK, States
<1>2. told' = IF s.version > told THEN s.version ELSE told
  BY DEF AnswerState
<1>3. /\ req'[r].state = s /\ req'[r].at = "reading" /\ req'[r].owed = req[r].owed
      /\ \A q \in Requests \ {r} : req'[q] = req[q]
  BY <1>1 DEF AnswerState, TypeOK, Preparing
<1> QED
  BY <1>1, <1>2, <1>3

LEMMA ReadCacheState ==
  ASSUME IInv, TypeOK', NEW r \in Requests, ReadCache(r)
  PROVE  StateInv'
<1>1. /\ cache \in States /\ Known(cache) /\ CacheKeepsUp /\ KeepsUp(r)
      /\ req[r].owed \in Nat /\ told \in Nat /\ expired \in Nat
  BY Sizes
<1>2. /\ UNCHANGED <<exists, state, states, expired, cache, slips>>
      /\ req[r].at = "cache"
  BY DEF ReadCache
<1>3. Known(cache')
  BY <1>1, <1>2
<1>4. CASE cache # NoState /\ AnswerState(r, cache)
  <2>1. /\ req'[r].state = cache /\ req'[r].at = "reading" /\ req'[r].owed = req[r].owed
        /\ \A q \in Requests \ {r} : req'[q] = req[q]
        /\ told' >= told /\ told' >= cache.version /\ told' \in Nat
        /\ told' = told \/ told' = cache.version
        /\ cache.version \in Nat
    BY <1>1, <1>4, Answers1 DEF IInv
  <2>2. CacheKeepsUp'
    BY <1>1, <1>2, <1>4, <2>1 DEF CacheKeepsUp
  <2>3. KeepsUp(r)'
    BY <1>1, <1>2, <1>4, <2>1 DEF KeepsUp, CacheKeepsUp
  <2>4. Known(req'[r].state)
    BY <1>1, <2>1
  <2> QED
    BY <1>1, <1>2, <1>3, <2>1, <2>2, <2>3, <2>4, StateFrame DEF IInv
<1>5. CASE Goto(r, "row") /\ UNCHANGED told
  <2>1. /\ req'[r].state = req[r].state /\ req'[r].at = "row" /\ req'[r].owed = req[r].owed
        /\ \A q \in Requests \ {r} : req'[q] = req[q]
    BY <1>5 DEF Goto, IInv, TypeOK, Preparing
  <2>2. KeepsUp(r)' /\ CacheKeepsUp'
    BY <1>1, <1>2, <1>5, <2>1 DEF KeepsUp, CacheKeepsUp
  <2>3. Known(req'[r].state)
    BY <2>1 DEF IInv, StateInv, StatesAreKnown
  <2> QED
    BY <1>1, <1>2, <1>3, <1>5, <2>1, <2>2, <2>3, StateFrame DEF IInv
<1> QED
  BY <1>4, <1>5 DEF ReadCache

\* What a request finds in the row is the newest version, or nothing that lasts.
LEMMA ReadStateState ==
  ASSUME IInv, TypeOK', NEW r \in Requests, ReadState(r)
  PROVE  StateInv'
<1>1. /\ state \in States /\ Known(state) /\ CacheKeepsUp /\ KeepsUp(r)
      /\ req[r].owed \in Nat /\ told \in Nat /\ expired \in Nat
      /\ state.version = (IF exists THEN Len(states) ELSE 0) /\ told <= Len(states)
      /\ Len(states) \in Nat
  BY Sizes
<1>2. UNCHANGED <<exists, state, states, expired, cache, slips, told>>
  BY DEF ReadState, stateVars
<1>3. PICK next \in {"write", "cacheSet", "cacheDelete"} :
        /\ next = "cacheSet" =>
             \/ ~(state.version <= expired)
        /\ next = "cacheDelete" => state.version <= expired
        /\ req' = [req EXCEPT ![r] =
                    [@ EXCEPT !.at = next,
                              !.state = IF next = "cacheDelete" THEN NoState ELSE state]]
  BY DEF ReadState
<1>4. /\ req'[r].at = next /\ req'[r].owed = req[r].owed
      /\ req'[r].state = IF next = "cacheDelete" THEN NoState ELSE state
      /\ \A q \in Requests \ {r} : req'[q] = req[q]
  BY <1>3 DEF IInv, TypeOK, Preparing
<1>5. Known(req'[r].state)
  BY <1>1, <1>4 DEF Known
<1>6. KeepsUp(r)'
  <2>1. req[r].owed <= told
    BY <1>1 DEF KeepsUp
  <2>2. ASSUME next = "cacheSet" PROVE state.version >= req[r].owed
    BY <1>1, <1>3, <2>1, <2>2
  <2>3. ASSUME next = "cacheDelete" PROVE req[r].owed <= expired \/ ~exists
    BY <1>1, <1>3, <2>1, <2>3
  <2> QED
    BY <1>2, <1>4, <2>1, <2>2, <2>3 DEF KeepsUp
<1>7. Known(cache') /\ CacheKeepsUp'
  BY <1>1, <1>2 DEF IInv, StateInv, StatesAreKnown, CacheKeepsUp
<1> QED
  BY <1>1, <1>2, <1>4, <1>5, <1>6, <1>7, StateFrame DEF IInv

\* A state that is put is newer than all that were told.
LEMMA PutState1 ==
  ASSUME IInv, TypeOK', exists, UNCHANGED <<exists, expired, cache, slips, told>>,
         NEW r \in Requests, NEW value \in [Fields -> Values],
         PutState(r, [version |-> state.version + 1, value |-> value])
  PROVE  StateInv'
<1> DEFINE new == [version |-> state.version + 1, value |-> value]
<1>1. /\ states \in Seq([Fields -> Values]) /\ Len(states) \in Nat
      /\ state.version = Len(states) /\ told \in 0 .. Len(states)
      /\ req[r] \in Preparing /\ req[r].owed \in Nat
      /\ StatesAreKnown /\ CacheKeepsUp /\ AnswersKeepUp
  BY Sizes
<1>2. new.version = Len(states) + 1 /\ new.value = value
  BY <1>1
<1>3. /\ state' = new /\ states' = Append(states, value)
      /\ req' = [req EXCEPT ![r] = [req[r] EXCEPT !.at = "cacheSet", !.state = new]]
  BY <1>2 DEF PutState
<1>4. /\ req'[r].at = "cacheSet" /\ req'[r].owed = req[r].owed /\ req'[r].state = new
      /\ \A q \in Requests \ {r} : req'[q] = req[q]
  <2> HIDE DEF new
  <2> QED
    BY <1>1, <1>3 DEF IInv, TypeOK, Preparing
<1>5. Len(states') = Len(states) + 1 /\ states'[Len(states) + 1] = value
  BY <1>1, <1>3
<1>6. \A s : Known(s) =>
        s = NoState \/ (s.version \in 1 .. Len(states') /\ s.value = states'[s.version])
  BY <1>1, <1>3, KnownStays
<1>7. new.version \in 1 .. Len(states') /\ new.value = states'[new.version]
  BY <1>1, <1>2, <1>5
<1>8. StatesAreKnown'
  <2> HIDE DEF new
  <2>1. ASSUME NEW q \in Requests PROVE Known(req[q].state)
    BY <1>1 DEF StatesAreKnown
  <2> QED
    BY <1>1, <1>3, <1>4, <1>6, <1>7, <2>1 DEF StatesAreKnown, Known
<1>9. ASSUME NEW q \in Requests PROVE KeepsUp(q)'
  <2>1. CASE q = r
    <3>1. req[r].owed <= told
      BY <1>1 DEF AnswersKeepUp, KeepsUp
    <3>2. req'[r].owed <= told' /\ req'[r].state.version >= req'[r].owed
      <4> HIDE DEF new
      <4> QED
        BY <1>1, <1>2, <1>4, <3>1
    <3> QED
      BY <1>4, <2>1, <3>2 DEF KeepsUp
  <2>2. CASE q # r
    <3>1. told \in Nat /\ expired \in Nat
      BY DEF IInv, TypeOK
    <3> QED
      BY <1>1, <1>4, <2>2, <3>1, KeepsUpFrame DEF IInv, AnswersKeepUp
  <2> QED
    BY <2>1, <2>2
<1> QED
  BY <1>1, <1>8, <1>9 DEF StateInv, AnswersKeepUp, CacheKeepsUp

LEMMA WriteStateState ==
  ASSUME IInv, TypeOK', NEW r \in Requests, WriteState(r)
  PROVE  StateInv'
<1>1. UNCHANGED <<exists, expired, cache, slips, told>>
  BY DEF WriteState
<1>2. CASE /\ exists /\ state.value \in [Fields -> Values]
           /\ PutState(r, [version |-> state.version + 1,
                           value |-> Patched(state.value, req[r].patch)])
  <2>1. req[r].patch \in Patches \cup {NoPatch}
    BY DEF IInv, TypeOK, Preparing
  <2>2. Patched(state.value, req[r].patch) \in [Fields -> Values]
    BY <1>2, <2>1, PatchedType
  <2> QED
    BY <1>1, <1>2, <2>2, PutState1
<1>3. CASE /\ req' = [req EXCEPT ![r].at = "row"] \/ req' = [req EXCEPT ![r] = Idle]
           /\ UNCHANGED <<state, states>>
  <2>1. told \in Nat /\ expired \in Nat /\ req[r] \in Preparing
    BY DEF IInv, TypeOK
  <2>2. Known(req[r].state) /\ KeepsUp(r) /\ Known(cache) /\ CacheKeepsUp
    BY DEF IInv, StateInv, StatesAreKnown, AnswersKeepUp
  <2>3. \A q \in Requests \ {r} : req'[q] = req[q]
    BY <1>3 DEF IInv, TypeOK
  <2>4. \/ req'[r].at = "row" /\ req'[r].owed = req[r].owed /\ req'[r].state = req[r].state
        \/ req'[r] = Idle
    <3>1. req \in [Requests -> Preparing]
      BY DEF IInv, TypeOK
    <3>2. CASE req' = [req EXCEPT ![r].at = "row"]
      BY <2>1, <3>1, <3>2 DEF Preparing
    <3>3. CASE req' = [req EXCEPT ![r] = Idle]
      BY <3>1, <3>3
    <3> QED
      BY <1>3, <3>2, <3>3
  <2>5. Known(req'[r].state) /\ KeepsUp(r)'
    BY <1>1, <1>3, <2>1, <2>2, <2>4 DEF KeepsUp, Known, Idle
  <2>6. Known(cache') /\ CacheKeepsUp'
    BY <1>1, <1>3, <2>2 DEF CacheKeepsUp
  <2> QED
    BY <1>1, <1>3, <2>1, <2>3, <2>5, <2>6, StateFrame DEF IInv
<1> QED
  BY <1>2, <1>3, Writes DEF IInv

\* A cached state is the newest unless its request was overtaken.
LEMMA SetCacheState ==
  ASSUME IInv, TypeOK', NEW r \in Requests, SetCache(r)
  PROVE  StateInv'
<1> DEFINE s == req[r].state
<1>1. /\ s \in States /\ Known(s) /\ Known(cache) /\ CacheKeepsUp /\ KeepsUp(r)
      /\ req[r].owed \in Nat /\ told \in 0 .. Len(states) /\ Len(states) \in Nat
      /\ expired \in Nat /\ told' \in 0 .. Len(states)'
  BY Sizes DEF TypeOK
<1>2. /\ UNCHANGED <<exists, state, states, expired>> /\ slips \subseteq slips'
      /\ req[r].at = "cacheSet" /\ AnswerState(r, s)
  BY DEF SetCache
<1>3. /\ req'[r].state = s /\ req'[r].at = "reading" /\ req'[r].owed = req[r].owed
      /\ \A q \in Requests \ {r} : req'[q] = req[q]
      /\ told' >= told
      /\ told' = told \/ told' = s.version
      /\ s.version \in Nat
  BY <1>1, <1>2, Answers1 DEF IInv
<1>4. Known(req'[r].state) /\ KeepsUp(r)'
  <2>1. req[r].owed <= told /\ s.version >= req[r].owed
    BY <1>1, <1>2 DEF KeepsUp
  <2> HIDE DEF s
  <2>2. req'[r].owed <= told'
    BY <1>1, <1>2, <1>3, <2>1
  <2> QED
    BY <1>1, <1>3, <2>1, <2>2 DEF KeepsUp
<1>5. Known(cache')
  BY <1>1 DEF SetCache, StoreInCache, Known
<1>6. CacheKeepsUp'
  <2>1. CASE /\ StoreInCache(r)
             /\ slips' = IF s.version < Len(states) THEN slips \cup {"overtaken"} ELSE slips
    <3>1. CASE s.version < Len(states)
      BY <2>1, <3>1 DEF CacheKeepsUp
    <3>2. CASE ~(s.version < Len(states))
      <4>1. s.version >= told'
        BY <1>1, <1>2, <1>3, <3>2
      <4> QED
        BY <2>1, <4>1 DEF StoreInCache, CacheKeepsUp
    <3> QED
      BY <3>1, <3>2
  <2>2. CASE slips' = slips \cup {"lost"}
    BY <2>2 DEF CacheKeepsUp
  <2> QED
    BY <2>1, <2>2 DEF SetCache
<1>7. told <= told' /\ expired <= expired'
  BY <1>1, <1>2, <1>3
<1> QED
  <2> HIDE DEF s
  <2> QED
    BY <1>2, <1>3, <1>4, <1>5, <1>6, <1>7, StateFrame DEF IInv

LEMMA DeleteCacheState ==
  ASSUME IInv, TypeOK', NEW r \in Requests, DeleteCache(r)
  PROVE  StateInv'
<1>1. /\ Known(cache) /\ CacheKeepsUp /\ KeepsUp(r)
      /\ req[r].owed \in Nat /\ told \in Nat /\ expired \in Nat
  BY Sizes
<1>2. /\ UNCHANGED <<exists, state, states, expired, slips>>
      /\ req[r].at = "cacheDelete" /\ AnswerState(r, NoState)
      /\ cache' = NoState \/ cache' = cache
  BY DEF DeleteCache
<1>3. /\ req'[r].state = NoState /\ req'[r].at = "reading" /\ req'[r].owed = req[r].owed
      /\ \A q \in Requests \ {r} : req'[q] = req[q]
      /\ told' = told
  <2>1. NoState.version = 0
    BY DEF NoState
  <2> QED
    BY <1>1, <1>2, <2>1, Answers1, Blanks DEF IInv
<1>4. Known(req'[r].state) /\ KeepsUp(r)'
  BY <1>1, <1>2, <1>3 DEF KeepsUp, Known
<1>5. Known(cache') /\ CacheKeepsUp'
  BY <1>1, <1>2, <1>3 DEF CacheKeepsUp, Known
<1> QED
  BY <1>1, <1>2, <1>3, <1>4, <1>5, StateFrame DEF IInv

LEMMA ReadSnapshotState ==
  ASSUME IInv, TypeOK', NEW r \in Requests, ReadSnapshot(r) \/ PersistWithCas(r)
  PROVE  StateInv'
<1>1. /\ req'[r].state = NoState /\ req'[r].owed = 0
      /\ req'[r].at \notin {"cacheSet", "cacheDelete", "reading"}
      /\ \A q \in Requests \ {r} : req'[q] = req[q]
  <2> DEFINE Moved == /\ req'[r].state = NoState /\ req'[r].owed = 0
                      /\ req'[r].at \notin {"cacheSet", "cacheDelete", "reading"}
                      /\ \A q \in Requests \ {r} : req'[q] = req[q]
  <2>1. req \in [Requests -> Preparing]
    BY DEF IInv, TypeOK
  <2>2. ASSUME Leave(r) PROVE Moved
    BY <2>1, <2>2 DEF Leave, Idle
  <2>3. ASSUME NEW s, NEW m, Decide(r, s, m) PROVE Moved
    <3>1. CASE req' = [req EXCEPT ![r] = [Idle EXCEPT !.at = "persist", !.summary = s,
                                                      !.messages = m]]
      BY <2>1, <3>1 DEF Idle
    <3> QED
      BY <2>2, <2>3, <3>1 DEF Decide
  <2>4. CASE req' = [req EXCEPT ![r] = [Idle EXCEPT !.at = "readSummary", !.summary = summary]]
    BY <2>1, <2>4 DEF Idle
  <2>5. CASE req' = [req EXCEPT ![r] = [Idle EXCEPT !.at = "readMessages",
                                                    !.messages = messages]]
    BY <2>1, <2>5 DEF Idle
  <2> QED
    BY <2>2, <2>3, <2>4, <2>5 DEF ReadSnapshot, PersistWithCas
<1>2. UNCHANGED <<exists, state, states, expired, cache, slips, told>>
  BY DEF ReadSnapshot, PersistWithCas, stateVars
<1>3. told \in Nat /\ expired \in Nat
  BY DEF IInv, TypeOK
<1>4. Known(req'[r].state) /\ KeepsUp(r)'
  BY <1>1, <1>2, <1>3, Leaves DEF IInv
<1>5. Known(cache') /\ CacheKeepsUp'
  BY <1>2 DEF IInv, StateInv, StatesAreKnown, CacheKeepsUp
<1> QED
  BY <1>1, <1>2, <1>3, <1>4, <1>5, StateFrame DEF IInv

\* Every step keeps the state's invariant.
LEMMA NextState ==
  ASSUME IInv, TypeOK', [Next]_vars
  PROVE  StateInv'
<1>1. ASSUME NEW r \in Requests, Prepare(r) PROVE StateInv'
  BY <1>1, StartState, ReadCacheState, ReadStateState, WriteStateState, SetCacheState,
     DeleteCacheState, ReadSnapshotState DEF Prepare
<1>2. told \in Nat /\ expired \in Nat /\ state.version \in Nat
  BY DEF IInv, TypeOK, States
<1>3. Known(cache) /\ CacheKeepsUp
  BY DEF IInv, StateInv, StatesAreKnown
<1>4. CASE /\ UNCHANGED <<states, req, told, slips>>
           /\ state' = state \/ state' = NoState
           /\ exists' => exists
           /\ cache' = cache \/ cache' = NoState
           /\ expired' >= expired
  <2>1. Known(cache') /\ CacheKeepsUp'
    BY <1>3, <1>4 DEF Known, CacheKeepsUp
  <2> QED
    BY <1>2, <1>4, <2>1, StillFrame DEF IInv
<1>5. CASE AppendMessage("USER") \/ AppendMessage("ASSISTANT") \/ Sync
  BY <1>2, <1>4, <1>5 DEF AppendMessage, Sync, stateVars
<1>6. CASE StateExpires
  BY <1>2, <1>4, <1>6 DEF StateExpires
<1>7. CASE CacheEvicts \/ Clear \/ ClearCache \/ UNCHANGED vars
  BY <1>2, <1>4, <1>7 DEF CacheEvicts, Clear, ClearCache, vars, stateVars
<1> QED
  BY <1>1, <1>5, <1>6, <1>7 DEF Next

-----------------------------------------------------------------------------
(* The summary *)

\* Nothing about the summary changes when one request keeps its snapshot, drops it, or
\* takes the summary there is.
LEMMA SummaryFrame ==
  ASSUME IInv, TypeOK', UNCHANGED <<summary, messages, rewritten>>, exists' => exists,
         NEW r \in Requests,
         req'[r].summary \in {req[r].summary, NoSummary, summary},
         req'[r].at = "persist" => Answers(req'[r].summary, req'[r].messages) # {},
         \A q \in Requests \ {r} : req'[q] = req[q]
  PROVE  SummaryInv'
<1>1. summary.version \in Nat /\ NoSummary.version = 0
  BY DEF IInv, TypeOK, Summaries, NoSummary
<1>2. Covers'
  BY DEF IInv, SummaryInv, Covers
<1>3. VersionIdentifies'
  BY <1>1 DEF IInv, SummaryInv, VersionIdentifies
<1>4. ASSUME NEW q \in Requests, req'[q].at = "persist"
      PROVE  Answers(req'[q].summary, req'[q].messages) # {}
  BY <1>4 DEF IInv, SummaryInv, Targeted
<1> QED
  BY <1>2, <1>3, <1>4 DEF SummaryInv, Targeted

\* A request in the state's half keeps its empty or old snapshot.
LEMMA StateHalf ==
  ASSUME IInv, TypeOK', NEW r \in Requests,
         \/ Start(r) \/ ReadCache(r) \/ ReadState(r) \/ WriteState(r) \/ SetCache(r)
         \/ DeleteCache(r)
  PROVE  SummaryInv'
<1>1. /\ req \in [Requests -> Preparing] /\ req[r] \in Preparing
      /\ Idle.summary = NoSummary /\ Idle.at = "idle"
  BY DEF IInv, TypeOK, Idle
<1>2. UNCHANGED <<summary, messages, rewritten, exists>>
  BY DEF Start, ReadCache, ReadState, WriteState, SetCache, DeleteCache, messageVars
<1> DEFINE Kept == /\ req'[r].summary \in {req[r].summary, NoSummary, summary}
                   /\ req'[r].at # "persist"
                   /\ \A q \in Requests \ {r} : req'[q] = req[q]
<1> SUFFICES Kept
  BY <1>2, SummaryFrame
<1>3. ASSUME NEW a \in {"write", "cacheSet", "cacheDelete", "reading"}, NEW s,
             req' = [req EXCEPT ![r] = [req[r] EXCEPT !.at = a, !.state = s]]
      PROVE  Kept
  <2> DEFINE q == [req[r] EXCEPT !.at = a, !.state = s]
  <2>1. q.summary = req[r].summary /\ q.at = a
    BY <1>1 DEF Preparing
  <2>2. req' = [req EXCEPT ![r] = q]
    BY <1>3
  <2> HIDE DEF q
  <2>3. req'[r] = q /\ \A o \in Requests \ {r} : req'[o] = req[o]
    BY <1>1, <2>2
  <2> QED
    BY <2>1, <2>3
<1>4. ASSUME Goto(r, "row") PROVE Kept
  <2>1. req'[r].summary = req[r].summary /\ req'[r].at = "row"
    BY <1>1, <1>4 DEF Goto, Preparing
  <2>2. \A o \in Requests \ {r} : req'[o] = req[o]
    BY <1>1, <1>4 DEF Goto
  <2> QED
    BY <2>1, <2>2
<1>5. CASE Start(r)
  <2>1. req'[r].summary = NoSummary /\ req'[r].at \in {"cache", "row"}
    BY <1>1, <1>5 DEF Start, Idle
  <2>2. \A o \in Requests \ {r} : req'[o] = req[o]
    BY <1>1, <1>5 DEF Start
  <2> QED
    BY <2>1, <2>2
<1> HIDE DEF Kept
<1>6. ASSUME NEW s, AnswerState(r, s) PROVE Kept
  <2>1. req' = [req EXCEPT ![r] = [req[r] EXCEPT !.at = "reading", !.state = s]]
    BY <1>6 DEF AnswerState
  <2> QED
    BY <1>3, <2>1
<1>7. CASE ReadCache(r) \/ SetCache(r) \/ DeleteCache(r)
  BY <1>4, <1>6, <1>7 DEF ReadCache, SetCache, DeleteCache
<1>8. CASE ReadState(r)
  <2>1. PICK a \in {"write", "cacheSet", "cacheDelete"} :
          req' = [req EXCEPT ![r] =
                   [req[r] EXCEPT !.at = a,
                                  !.state = IF a = "cacheDelete" THEN NoState ELSE state]]
    BY <1>8 DEF ReadState
  <2> QED
    BY <1>3, <2>1
<1>9. CASE WriteState(r)
  <2>1. ASSUME NEW s, PutState(r, s) PROVE Kept
    <3>1. req' = [req EXCEPT ![r] = [req[r] EXCEPT !.at = "cacheSet", !.state = s]]
      BY <2>1 DEF PutState
    <3> QED
      BY <1>3, <3>1
  <2>2. CASE req' = [req EXCEPT ![r].at = "row"]
    BY <1>4, <2>2 DEF Goto
  <2>3. CASE req' = [req EXCEPT ![r] = Idle]
    BY <1>1, <2>3 DEF Kept
  <2> QED
    BY <1>9, <2>1, <2>2, <2>3, Writes DEF IInv
<1> QED
  BY <1>5, <1>7, <1>8, <1>9

LEMMA ReadSnapshotSummary ==
  ASSUME IInv, TypeOK', NEW r \in Requests, ReadSnapshot(r)
  PROVE  SummaryInv'
<1>1. req \in [Requests -> Preparing] /\ UNCHANGED <<summary, messages, rewritten, exists>>
  BY DEF IInv, TypeOK, ReadSnapshot, messageVars
<1> DEFINE Taken ==
      /\ req'[r].summary \in {req[r].summary, NoSummary, summary}
      /\ req'[r].at = "persist" => Answers(req'[r].summary, req'[r].messages) # {}
      /\ \A q \in Requests \ {r} : req'[q] = req[q]
<1> SUFFICES Taken
  BY <1>1, SummaryFrame
<1>2. CASE Leave(r)
  <2>1. req'[r] = Idle /\ \A o \in Requests \ {r} : req'[o] = req[o]
    BY <1>1, <1>2 DEF Leave
  <2> QED
    BY <2>1 DEF Idle
<1>3. ASSUME NEW s \in {req[r].summary, summary}, NEW m, Decide(r, s, m) PROVE Taken
  <2>1. CASE /\ Answers(s, m) # {}
             /\ req' = [req EXCEPT ![r] = [Idle EXCEPT !.at = "persist", !.summary = s,
                                                       !.messages = m]]
    <3>1. req'[r].summary = s /\ req'[r].messages = m
      BY <1>1, <2>1 DEF Idle
    <3>2. \A o \in Requests \ {r} : req'[o] = req[o]
      BY <1>1, <2>1
    <3> QED
      BY <2>1, <3>1, <3>2
  <2> QED
    BY <1>2, <1>3, <2>1 DEF Decide
<1>4. CASE req' = [req EXCEPT ![r] = [Idle EXCEPT !.at = "readSummary", !.summary = summary]]
  <2>1. req'[r].summary = summary /\ req'[r].at = "readSummary"
    BY <1>1, <1>4 DEF Idle
  <2>2. \A o \in Requests \ {r} : req'[o] = req[o]
    BY <1>1, <1>4
  <2> QED
    BY <2>1, <2>2
<1>5. CASE req' = [req EXCEPT ![r] = [Idle EXCEPT !.at = "readMessages",
                                                  !.messages = messages]]
  <2>1. req'[r].summary = NoSummary /\ req'[r].at = "readMessages"
    BY <1>1, <1>5 DEF Idle
  <2>2. \A o \in Requests \ {r} : req'[o] = req[o]
    BY <1>1, <1>5
  <2> QED
    BY <2>1, <2>2
<1> HIDE DEF Taken
<1> QED
  BY <1>3, <1>4, <1>5 DEF ReadSnapshot

LEMMA PersistSummary ==
  ASSUME IInv, TypeOK', NEW r \in Requests, PersistWithCas(r)
  PROVE  SummaryInv'
<1>1. /\ req' = [req EXCEPT ![r] = Idle] /\ UNCHANGED <<messages, rewritten, exists>>
      /\ req'[r] = Idle /\ \A q \in Requests \ {r} : req'[q] = req[q]
      /\ Idle.summary = NoSummary /\ Idle.at = "idle" /\ NoSummary.version = 0
  BY DEF PersistWithCas, Leave, messageVars, IInv, TypeOK, Idle, NoSummary
<1>2. CASE summary' = summary
  BY <1>1, <1>2, SummaryFrame
<1>3. CASE summary' # summary
  <2>1. /\ summary'.version = summary.version + 1
        /\ summary'.covered > summary.covered
        /\ summary'.covered <= Len(messages)
        /\ Len(summary'.of) = Len(summary.of) + (summary'.covered - summary.covered)
        /\ \A i \in 1 .. Len(summary'.of) :
             summary'.of[i] = IF i <= Len(summary.of) THEN summary.of[i]
                              ELSE messages[summary.covered + (i - Len(summary.of))].text
    BY <1>3, Persists DEF IInv
  <2>2. /\ summary.version \in Nat /\ summary.covered \in Nat /\ summary.of \in Seq(Nat)
        /\ Len(summary.of) \in Nat /\ summary'.covered \in Nat
    BY DEF IInv, TypeOK, Summaries
  <2>3. ASSUME ~rewritten'
        PROVE  /\ Len(summary'.of) = summary'.covered
               /\ \A i \in 1 .. summary'.covered : summary'.of[i] = messages[i].text
    <3>1. /\ Len(summary.of) = summary.covered
          /\ \A i \in 1 .. summary.covered : summary.of[i] = messages[i].text
      BY <1>1, <2>3 DEF IInv, SummaryInv, Covers
    <3>2. Len(summary'.of) = summary'.covered
      BY <2>1, <2>2, <3>1
    <3>3. ASSUME NEW i \in 1 .. summary'.covered PROVE summary'.of[i] = messages[i].text
      <4>1. CASE i <= summary.covered
        <5>1. i \in 1 .. summary.covered
          BY <2>2, <4>1
        <5> QED
          BY <2>1, <3>1, <3>2, <4>1, <5>1
      <4>2. CASE ~(i <= summary.covered)
        <5>1. summary.covered + (i - Len(summary.of)) = i
          BY <2>2, <3>1
        <5> QED
          BY <2>1, <3>1, <3>2, <4>2, <5>1
      <4> QED
        BY <4>1, <4>2
    <3> QED
      BY <3>2, <3>3
  <2>4. Covers'
    BY <1>1, <2>1, <2>3 DEF Covers
  <2>5. ASSUME NEW q \in Requests, exists' PROVE req'[q].summary.version < summary'.version
    <3>1. CASE q = r
      BY <1>1, <2>1, <2>2, <3>1
    <3>2. CASE q # r
      <4>1. req[q].summary.version <= summary.version /\ req[q].summary.version \in Nat
        BY <1>1, <2>5 DEF IInv, SummaryInv, VersionIdentifies, TypeOK, Preparing, Summaries
      <4> QED
        BY <1>1, <2>1, <2>2, <3>2, <4>1
    <3> QED
      BY <3>1, <3>2
  <2>6. VersionIdentifies'
    <3>1. summary'.version # 0 /\ summary'.version \in Nat
      BY <2>1, <2>2
    <3>2. ASSUME NEW q \in Requests PROVE req'[q].summary.version \in Nat
      BY DEF TypeOK, Preparing, Summaries
    <3> QED
      BY <2>5, <3>1, <3>2 DEF VersionIdentifies
  <2>7. Targeted'
    BY <1>1 DEF IInv, SummaryInv, Targeted
  <2> QED
    BY <2>4, <2>6, <2>7 DEF SummaryInv
<1> QED
  BY <1>2, <1>3

\* Every step keeps the summary's invariant.
LEMMA NextSummary ==
  ASSUME IInv, TypeOK', [Next]_vars
  PROVE  SummaryInv'
<1>1. ASSUME NEW r \in Requests, Prepare(r) PROVE SummaryInv'
  BY <1>1, StateHalf, ReadSnapshotSummary, PersistSummary DEF Prepare
<1>2. CASE UNCHANGED <<summary, messages, rewritten, exists, req>>
  BY <1>2 DEF IInv, SummaryInv, Covers, VersionIdentifies, Targeted
<1>3. CASE StateExpires \/ CacheEvicts \/ ClearCache \/ UNCHANGED vars
  BY <1>2, <1>3 DEF StateExpires, CacheEvicts, ClearCache, vars, messageVars
<1>4. ASSUME UNCHANGED <<summary, exists, req>>,
             ~rewritten' => /\ ~rewritten /\ summary.covered <= Len(messages')
                            /\ \A i \in 1 .. summary.covered : messages'[i] = messages[i]
      PROVE  SummaryInv'
  <2>1. Covers'
    BY <1>4 DEF IInv, SummaryInv, Covers
  <2> QED
    BY <1>4, <2>1 DEF IInv, SummaryInv, VersionIdentifies, Targeted
<1>5. CASE Sync
  <2>1. UNCHANGED <<summary, exists, req>>
    BY <1>5 DEF Sync
  <2> QED
    BY <1>4, <1>5, <2>1, SyncTypes DEF IInv
<1>6. ASSUME NEW role \in {"USER", "ASSISTANT"}, AppendMessage(role) PROVE SummaryInv'
  <2>1. UNCHANGED <<summary, exists, req, rewritten>>
    BY <1>6 DEF AppendMessage
  <2>2. /\ Len(messages') = Len(messages) + 1 /\ Len(messages) \in Nat
        /\ \A i \in 1 .. Len(messages) : messages'[i] = messages[i]
    BY <1>6, AppendTypes DEF IInv
  <2>3. ASSUME ~rewritten
        PROVE  /\ summary.covered <= Len(messages')
               /\ \A i \in 1 .. summary.covered : messages'[i] = messages[i]
    <3>1. summary.covered <= Len(messages) /\ summary.covered \in Nat
      BY <2>3 DEF IInv, SummaryInv, Covers, TypeOK, Summaries
    <3>2. \A i \in 1 .. summary.covered : i \in 1 .. Len(messages)
      BY <2>2, <3>1
    <3> QED
      BY <2>2, <3>1, <3>2
  <2> QED
    BY <1>4, <2>1, <2>3
<1>7. CASE Clear
  <2>1. /\ summary' = NoSummary /\ ~exists' /\ messages' = <<>>
        /\ UNCHANGED <<req, rewritten>>
    BY <1>7 DEF Clear
  <2>2. Covers'
    BY <2>1 DEF Covers, NoSummary
  <2>3. VersionIdentifies'
    BY <2>1 DEF VersionIdentifies
  <2> QED
    BY <2>1, <2>2, <2>3 DEF IInv, SummaryInv, Targeted
<1> QED
  BY <1>1, <1>3, <1>5, <1>6, <1>7 DEF Next

-----------------------------------------------------------------------------
(* The theorems *)

LEMMA InitInv == Init => IInv
<1> SUFFICES ASSUME Init PROVE IInv
  OBVIOUS
<1>1. TypeOK
  BY InitTypes
<1>2. StateInv
  BY DEF Init, StateInv, StatesAreKnown, Known, CacheKeepsUp, AnswersKeepUp, KeepsUp, Idle
<1>3. SummaryInv
  BY DEF Init, SummaryInv, Covers, VersionIdentifies, Targeted, Idle, NoSummary
<1> QED
  BY <1>1, <1>2, <1>3 DEF IInv

LEMMA NextInv == IInv /\ [Next]_vars => IInv'
BY NextTypes, NextState, NextSummary DEF IInv

LEMMA Invariance == Spec => []IInv
BY InitInv, NextInv, PTL DEF Spec

\* Types: the rows, the cache, the messages and what every request holds are of their
\* kinds, versions never exceed those the row had, and the bounds hold.
THEOREM TypeCorrect == Spec => []TypeOK
<1>1. IInv => TypeOK
  BY DEF IInv
<1> QED
  BY <1>1, Invariance, PTL

\* However many requests overlap, and whatever fails in Redis: answers are states the
\* row had, not older than what was told before unless a slip explains it, and each new
\* version is the one before with the patch of one request (resolveState).
THEOREM StateIsSoundAlways == Spec => StateIsSound
<1>1. IInv => AnswersAreCurrent
  BY DEF IInv, StateInv, StatesAreKnown, Known, AnswersKeepUp, KeepsUp, AnswersAreCurrent, Real
<1>2. IInv /\ [Next]_vars => [PatchesCompose]_vars
  <2> SUFFICES ASSUME IInv, [Next]_vars, state' # state, exists'
               PROVE  /\ state'.version = state.version + 1
                      /\ \E r \in Requests : state'.value = Patched(state.value, req[r].patch)
    BY DEF PatchesCompose
  <2>1. PICK r \in Requests : WriteState(r)
    BY DEF Next, Prepare, vars, stateVars, Start, ReadCache, ReadState, SetCache, DeleteCache,
       ReadSnapshot, PersistWithCas, StateExpires, CacheEvicts, AppendMessage, Sync, Clear,
       ClearCache
  <2>2. PutState(r, [version |-> state.version + 1,
                     value |-> Patched(state.value, req[r].patch)])
    BY <2>1, Writes DEF IInv
  <2> QED
    BY <2>2 DEF PutState
<1> QED
  BY <1>1, <1>2, Invariance, PTL DEF Spec, StateIsSound

\* However many requests summarise at once: the summary is of the covered messages, each
\* once and as stored, as long as none of them was replaced, and its watermark only
\* advances (persistWithCas).
THEOREM SummaryIsSoundAlways == Spec => SummaryIsSound
<1>1. IInv => SummaryIsComplete
  <2> SUFFICES ASSUME IInv, ~rewritten
               PROVE  summary.of = [i \in 1 .. summary.covered |-> messages[i].text]
    BY DEF SummaryIsComplete
  <2>1. /\ Len(summary.of) = summary.covered
        /\ \A i \in 1 .. summary.covered : summary.of[i] = messages[i].text
    BY DEF IInv, SummaryInv, Covers
  <2>2. summary.of \in Seq(Nat)
    BY DEF IInv, TypeOK, Summaries
  <2>3. DOMAIN summary.of = 1 .. summary.covered
    BY <2>1, <2>2
  <2> QED
    BY <2>1, <2>2, <2>3
<1>2. IInv /\ [Next]_vars => [SummaryAdvances]_vars
  <2> SUFFICES ASSUME IInv, [Next]_vars, summary' # summary, exists'
               PROVE  /\ summary'.version = summary.version + 1
                      /\ summary'.covered > summary.covered
    BY DEF SummaryAdvances
  <2>1. PICK r \in Requests : PersistWithCas(r)
    BY DEF Next, Prepare, vars, stateVars, Start, ReadCache, ReadState, WriteState, SetCache,
       DeleteCache, ReadSnapshot, StateExpires, CacheEvicts, AppendMessage, Sync, Clear,
       ClearCache
  <2> QED
    BY <2>1, Persists DEF IInv
<1> QED
  BY <1>1, <1>2, Invariance, PTL DEF Spec, SummaryIsSound

-----------------------------------------------------------------------------
(* Part two: the replay stream *)

\* The places of the history.
Ids == 1 .. Len(history)

\* Numbers run on within a life and lives follow each other; what was appended in this
\* life leads up to the counter.
HistoryInv ==
  /\ \A i, j \in Ids : i <= j =>
       /\ history[i].life <= history[j].life
       /\ history[i].life = history[j].life => history[j].seq - history[i].seq = j - i
  /\ \A i \in Ids :
       /\ history[i].life <= life
       /\ history[i].life = life => history[i].seq = counter - 1 - (Len(history) - i)

\* A terminal event is the last one of its life, and in this life it has left the marker.
SealInv ==
  \A i \in Ids : history[i].id \in Final =>
    /\ history[i].life = life => sealed
    /\ \A j \in Ids : i < j => history[i].life < history[j].life

\* A follower's cursor and number are those of the entry it showed last.
Sound(f) ==
  /\ f.preview = <<>> => f.last = None
  /\ f.preview # <<>> => f.cursor = f.preview[Len(f.preview)] /\ f.last = history[f.cursor].seq
  /\ \A i, j \in 1 .. Len(f.preview) : i < j => f.preview[i] < f.preview[j]
  /\ Gapless(f)

ReplayInv == Sound(stored) /\ \A t \in Tabs : Sound(tab[t]) /\ Sound(loaded[t])

StreamInv == StreamTypeOK /\ HistoryInv /\ SealInv /\ LogIsSuffix /\ ReplayInv

-----------------------------------------------------------------------------
(* Numbers and finite sets of them *)

\* A nonempty set of numbers has a least one.
LEMMA Least ==
  ASSUME NEW T, T \subseteq Nat, T # {}
  PROVE  \E i \in T : \A j \in T : i <= j
<1> DEFINE R == {ss \in Nat \X Nat : ss[1] < ss[2]}
<1>1. IsWellFoundedOn(R, Nat)
  BY NatLessThanWellFounded DEF OpToRel
<1>2. PICK i \in T : \A j \in T : ~ (<<j, i>> \in R)
  <2> HIDE DEF R
  <2> QED
    BY <1>1, WFMin
<1>3. ASSUME NEW j \in T PROVE i <= j
  <2>1. i \in Nat /\ j \in Nat
    OBVIOUS
  <2>2. ~ (j < i)
    BY <1>2, <2>1
  <2> QED
    BY <2>1, <2>2
<1> QED
  BY <1>3

\* Sets of places up to a length are finite, and parts of them are smaller.
LEMMA Positions ==
  ASSUME NEW n \in Nat, NEW S, S \subseteq 1 .. n
  PROVE  /\ IsFiniteSet(S) /\ Cardinality(S) \in Nat
         /\ \A T \in SUBSET S : Cardinality(T) \in Nat /\ Cardinality(T) <= Cardinality(S)
<1>1. IsFiniteSet(1 .. n)
  BY FS_Interval
<1>2. IsFiniteSet(S) /\ Cardinality(S) \in Nat
  BY <1>1, FS_Subset, FS_CardinalityType
<1>3. ASSUME NEW T \in SUBSET S
      PROVE  Cardinality(T) \in Nat /\ Cardinality(T) <= Cardinality(S)
  BY <1>2, FS_Subset, FS_CardinalityType
<1> QED
  BY <1>2, <1>3

-----------------------------------------------------------------------------
(* Trimming *)

\* The newest entries stay, the last one among them, and no more than allowed.
LEMMA TrimEventsIs ==
  ASSUME NEW n \in Nat, NEW S, S \subseteq 1 .. n, n \in S
  PROVE  /\ TrimEvents(S) \subseteq S /\ n \in TrimEvents(S)
         /\ \A c \in TrimEvents(S) : \A d \in S : d >= c => d \in TrimEvents(S)
         /\ Cardinality(TrimEvents(S)) <= MaxEvents
<1> DEFINE newer(c) == {d \in S : d > c}
           T == TrimEvents(S)
<1>1. MaxEvents \in Nat /\ MaxEvents > 0
  BY StreamAssumption
<1>2. T \subseteq S /\ T \subseteq 1 .. n
  BY DEF TrimEvents
<1>0. \A d \in S : d \in Nat /\ d <= n
  OBVIOUS
<1>3. n \in T
  <2>1. newer(n) = {}
    <3> SUFFICES ASSUME NEW d \in S, d > n PROVE FALSE
      OBVIOUS
    <3> QED BY <1>0
  <2> QED
    BY <1>1, <2>1, FS_EmptySet DEF TrimEvents
<1>4. ASSUME NEW c \in T, NEW d \in S, d >= c PROVE d \in T
  <2>1. newer(d) \in SUBSET newer(c) /\ newer(c) \subseteq 1 .. n
    <3>1. ASSUME NEW e \in S, e > d PROVE e > c
      BY <1>4, <1>2, <1>0, <3>1
    <3> QED BY <3>1
  <2>2. Cardinality(newer(d)) \in Nat /\ Cardinality(newer(d)) <= Cardinality(newer(c))
        /\ Cardinality(newer(c)) \in Nat
    <3> HIDE DEF newer
    <3> QED BY <2>1, Positions
  <2>3. Cardinality(newer(c)) < MaxEvents
    BY <1>4 DEF TrimEvents
  <2> QED
    BY <1>1, <1>4, <2>2, <2>3 DEF TrimEvents
<1>5. Cardinality(T) <= MaxEvents
  <2>1. PICK m \in T : \A c \in T : m <= c
    <3>1. T \subseteq Nat /\ T # {}
      BY <1>2, <1>3
    <3> HIDE DEF T
    <3> QED BY <3>1, Least
  <2>2. T \ {m} \in SUBSET newer(m) /\ newer(m) \subseteq 1 .. n
    <3>1. ASSUME NEW c \in T \ {m} PROVE c \in S /\ c > m
      <4>1. c \in S /\ m \in S /\ m <= c /\ m # c
        BY <1>2, <2>1
      <4> QED BY <1>0, <4>1
    <3> QED BY <3>1
  <2>3. Cardinality(newer(m)) < MaxEvents
    BY DEF TrimEvents
  <2>4. IsFiniteSet(T)
    <3> HIDE DEF T
    <3> QED BY <1>2, Positions
  <2>5. Cardinality(T \ {m}) = Cardinality(T) - 1 /\ Cardinality(T) \in Nat
    <3> HIDE DEF T
    <3> QED BY <2>1, <2>4, FS_RemoveElement, FS_CardinalityType
  <2>6. Cardinality(newer(m)) \in Nat /\ Cardinality(T \ {m}) <= Cardinality(newer(m))
    <3> HIDE DEF T, newer
    <3> QED BY <2>2, Positions
  <2> HIDE DEF T, newer
  <2> QED
    BY <1>1, <2>3, <2>5, <2>6
<1> QED
  BY <1>2, <1>3, <1>4, <1>5

\* Fewer entries have fewer bytes, and one entry has its own.
LEMMA BytesAre ==
  ASSUME NEW n \in Nat, NEW entries, \A c \in 1 .. n : entries[c].id \in EventIds,
         NEW S, S \subseteq 1 .. n
  PROVE  /\ Bytes(entries, S) \in Nat
         /\ \A T \in SUBSET S : Bytes(entries, T) \in Nat /\ Bytes(entries, T) <= Bytes(entries, S)
         /\ \A c \in S : Bytes(entries, {c}) <= MaxBytes
<1> DEFINE units(T) == UNION {{c} \X (1 .. BytesOf[entries[c].id]) : c \in T}
<1> DEFINE U == (1 .. n) \X (1 .. MaxBytes)
<1>1. MaxBytes \in Nat /\ \A c \in 1 .. n : BytesOf[entries[c].id] \in 1 .. MaxBytes
  BY StreamAssumption
<1>2. IsFiniteSet(U)
  <2>1. IsFiniteSet(1 .. n) /\ IsFiniteSet(1 .. MaxBytes)
    BY <1>1, FS_Interval
  <2> QED
    BY <2>1, FS_Product
<1>3. \A T \in SUBSET S : units(T) \subseteq units(S) /\ units(S) \subseteq U
  BY <1>1
<1>4. IsFiniteSet(units(S)) /\ Cardinality(units(S)) \in Nat
  <2> HIDE DEF units, U
  <2> QED BY <1>2, <1>3, FS_Subset, FS_CardinalityType
<1>5. ASSUME NEW T \in SUBSET S
      PROVE  Cardinality(units(T)) \in Nat /\ Cardinality(units(T)) <= Cardinality(units(S))
  <2>1. units(T) \in SUBSET units(S)
    BY <1>3
  <2> HIDE DEF units
  <2> QED BY <2>1, <1>4, FS_Subset, FS_CardinalityType
<1>6. ASSUME NEW c \in S PROVE Cardinality(units({c})) <= MaxBytes
  <2>1. units({c}) = {c} \X (1 .. BytesOf[entries[c].id])
    OBVIOUS
  <2>2. BytesOf[entries[c].id] \in Nat /\ BytesOf[entries[c].id] <= MaxBytes
    BY <1>1
  <2>3. Cardinality({c} \X (1 .. BytesOf[entries[c].id])) = 1 * BytesOf[entries[c].id]
    <3>1. IsFiniteSet(1 .. BytesOf[entries[c].id])
          /\ Cardinality(1 .. BytesOf[entries[c].id]) = BytesOf[entries[c].id]
      <4> DEFINE b == BytesOf[entries[c].id]
      <4>1. b \in Nat
        BY <2>2
      <4> HIDE DEF b
      <4>2. IsFiniteSet(1 .. b) /\ Cardinality(1 .. b) = b
        BY <4>1, FS_Interval
      <4> QED BY <4>2 DEF b
    <3>2. IsFiniteSet({c}) /\ Cardinality({c}) = 1
      BY FS_Singleton
    <3> QED
      BY <3>1, <3>2, FS_Product
  <2> DEFINE b == BytesOf[entries[c].id]
  <2>4. Cardinality(units({c})) = 1 * b /\ b \in Nat /\ b <= MaxBytes
    BY <2>1, <2>2, <2>3
  <2> HIDE DEF units, b
  <2> QED BY <1>1, <2>4
<1> QED
  BY <1>4, <1>5, <1>6 DEF Bytes

\* The newest entries stay, the last one among them, and no more bytes than allowed.
LEMMA TrimBytesIs ==
  ASSUME NEW n \in Nat, NEW entries, \A c \in 1 .. n : entries[c].id \in EventIds,
         NEW S, S \subseteq 1 .. n, n \in S,
         \A c \in S : entries[c].id \in Final => c = n
  PROVE  /\ TrimBytes(entries, S) \subseteq S /\ n \in TrimBytes(entries, S)
         /\ \A c \in TrimBytes(entries, S) : \A d \in S : d >= c => d \in TrimBytes(entries, S)
         /\ Bytes(entries, TrimBytes(entries, S)) <= MaxBytes
<1> DEFINE final == {c \in S : entries[c].id \in Final}
           from(c) == {d \in S : d >= c} \cup final
           T == {c \in S : c \in final \/ Bytes(entries, from(c)) <= MaxBytes}
<1>1. T = TrimBytes(entries, S)
  BY DEF TrimBytes
<1>2. MaxBytes \in Nat
  BY StreamAssumption
<1>0. \A d \in S : d \in Nat /\ d <= n
  OBVIOUS
<1>3. \A c \in S : from(c) = {d \in S : d >= c} /\ from(c) \subseteq 1 .. n
  BY <1>0
<1>4. \A c \in S : Bytes(entries, from(c)) <= MaxBytes => c \in T
  OBVIOUS
<1>5. n \in T
  <2>1. from(n) = {n}
    BY <1>3
  <2>2. Bytes(entries, {n}) <= MaxBytes
    BY BytesAre
  <2> QED
    BY <1>4, <2>1, <2>2
<1>6. ASSUME NEW c \in T PROVE Bytes(entries, from(c)) <= MaxBytes
  <2>1. CASE c = n
    <3>1. from(n) = {n}
      BY <1>3
    <3>2. Bytes(entries, {n}) <= MaxBytes
      BY BytesAre
    <3> QED
      BY <2>1, <3>1, <3>2
  <2>2. CASE c # n
    BY <2>2
  <2> QED
    BY <2>1, <2>2
<1>7. ASSUME NEW c \in T, NEW d \in S, d >= c PROVE d \in T
  <2>1. c \in S /\ from(d) \in SUBSET from(c) /\ from(c) \subseteq 1 .. n
    BY <1>3, <1>7
  <2>2. /\ Bytes(entries, from(d)) \in Nat /\ Bytes(entries, from(c)) \in Nat
        /\ Bytes(entries, from(d)) <= Bytes(entries, from(c))
    <3> HIDE DEF from
    <3> QED BY <2>1, BytesAre
  <2>3. Bytes(entries, from(d)) <= MaxBytes
    <3>1. Bytes(entries, from(c)) <= MaxBytes
      BY <1>6
    <3> HIDE DEF from, T
    <3> QED BY <1>2, <2>2, <3>1
  <2> QED
    BY <1>4, <2>3
<1>8. Bytes(entries, T) <= MaxBytes
  <2>1. PICK m \in T : \A c \in T : m <= c
    <3>1. T \subseteq Nat /\ T # {}
      BY <1>0, <1>5
    <3> HIDE DEF T
    <3> QED BY <3>1, Least
  <2>2. m \in S /\ T \in SUBSET from(m) /\ from(m) \subseteq 1 .. n
    BY <1>3, <2>1
  <2>3. Bytes(entries, from(m)) <= MaxBytes
    BY <1>6
  <2>4. /\ Bytes(entries, T) \in Nat /\ Bytes(entries, from(m)) \in Nat
        /\ Bytes(entries, T) <= Bytes(entries, from(m))
    <3> HIDE DEF from, T
    <3> QED BY <2>2, BytesAre
  <2> HIDE DEF from, T
  <2> QED
    BY <1>2, <2>3, <2>4
<1>9. T \subseteq S
  OBVIOUS
<1> HIDE DEF from, T
<1> QED
  BY <1>1, <1>5, <1>7, <1>8, <1>9

-----------------------------------------------------------------------------
(* The append script *)

\* What an append makes of the history.
LEMMA AppendIs ==
  ASSUME StreamTypeOK, NEW id \in EventIds, AppendEntry(id)
  PROVE  /\ history' \in Seq(Appended) /\ Len(history') = Len(history) + 1 /\ Len(history) \in Nat
         /\ \A i \in Ids : history'[i] = history[i]
         /\ history'[Len(history) + 1] = [id |-> id, seq |-> counter, life |-> life]
         /\ \A i \in 1 .. Len(history') : history'[i].id \in EventIds
         /\ \A i \in Ids : history[i].life \in Nat /\ history[i].seq \in Nat
<1> DEFINE entry == [id |-> id, seq |-> counter, life |-> life]
<1>1. history \in Seq(Appended) /\ entry \in Appended
  BY DEF StreamTypeOK, Appended
<1>2. history' = Append(history, entry)
  BY DEF AppendEntry
<1>3. /\ history' \in Seq(Appended) /\ Len(history') = Len(history) + 1 /\ Len(history) \in Nat
      /\ \A i \in Ids : history'[i] = history[i]
      /\ history'[Len(history) + 1] = entry
  <2> HIDE DEF entry
  <2> QED
    BY <1>1, <1>2, AppendProperties, LenProperties DEF Ids
<1>4. \A i \in 1 .. Len(history') : history'[i] \in Appended
  BY <1>3, ElementOfSeq
<1>5. \A i \in Ids : history[i] \in Appended
  BY <1>1, ElementOfSeq DEF Ids
<1>6. history'[Len(history) + 1] = [id |-> id, seq |-> counter, life |-> life]
  BY <1>3
<1>7. \A i \in 1 .. Len(history') : history'[i].id \in EventIds
  BY <1>4 DEF Appended
<1>8. \A i \in Ids : history[i].life \in Nat /\ history[i].seq \in Nat
  BY <1>5, StreamAssumption DEF Appended
<1> HIDE DEF entry
<1> QED
  BY <1>3, <1>6, <1>7, <1>8

\* An append continues the numbers of this life.
LEMMA AppendHistory ==
  ASSUME StreamTypeOK, HistoryInv, NEW id \in EventIds, AppendEntry(id), life' = life
  PROVE  HistoryInv'
<1> DEFINE n == Len(history)
<1>1. /\ n \in Nat /\ Len(history') = n + 1 /\ \A i \in 1 .. n : history'[i] = history[i]
      /\ history'[n + 1].seq = counter /\ history'[n + 1].life = life
      /\ \A i \in 1 .. n : history[i].life \in Nat /\ history[i].seq \in Nat
      /\ counter' = counter + 1 /\ counter \in Nat /\ life \in Nat
  BY AppendIs, StreamAssumption DEF Ids, AppendEntry, StreamTypeOK
<1>2. /\ \A i, j \in 1 .. n : i <= j =>
           /\ history[i].life <= history[j].life
           /\ history[i].life = history[j].life => history[j].seq - history[i].seq = j - i
      /\ \A i \in 1 .. n :
           /\ history[i].life <= life
           /\ history[i].life = life => history[i].seq = counter - 1 - (n - i)
  BY DEF HistoryInv, Ids
<1> HIDE DEF n
<1>3. ASSUME NEW i \in 1 .. n + 1
      PROVE  /\ history'[i].life <= life
             /\ history'[i].life = life => history'[i].seq = counter' - 1 - (n + 1 - i)
  <2>1. CASE i \in 1 .. n
    BY <1>1, <1>2, <2>1
  <2>2. CASE i = n + 1
    BY <1>1, <2>2
  <2> QED
    BY <1>1, <2>1, <2>2
<1>4. ASSUME NEW i \in 1 .. n + 1, NEW j \in 1 .. n + 1, i <= j
      PROVE  /\ history'[i].life <= history'[j].life
             /\ history'[i].life = history'[j].life => history'[j].seq - history'[i].seq = j - i
  <2>1. CASE i \in 1 .. n /\ j \in 1 .. n
    BY <1>1, <1>2, <1>4, <2>1
  <2>2. CASE i \in 1 .. n /\ j = n + 1
    BY <1>1, <1>2, <2>2
  <2>3. CASE i = n + 1 /\ j = n + 1
    BY <1>1, <2>3
  <2> QED
    BY <1>1, <1>4, <2>1, <2>2, <2>3
<1> QED
  BY <1>1, <1>3, <1>4 DEF HistoryInv, Ids, n

\* An append finds the stream not sealed, and seals it when it is terminal.
LEMMA AppendSeal ==
  ASSUME StreamTypeOK, HistoryInv, SealInv, NEW id \in EventIds, AppendEntry(id), ~sealed,
         life' = life
  PROVE  SealInv'
<1> DEFINE n == Len(history)
<1>1. /\ n \in Nat /\ Len(history') = n + 1 /\ \A i \in 1 .. n : history'[i] = history[i]
      /\ history'[n + 1].id = id /\ history'[n + 1].life = life
      /\ \A i \in 1 .. n : history[i].life \in Nat
      /\ life \in Nat
  <2>1. history'[n + 1] = [id |-> id, seq |-> counter, life |-> life]
    BY AppendIs
  <2>2. history'[n + 1].id = id /\ history'[n + 1].life = life
    BY <2>1
  <2>3. life \in Nat
    BY StreamAssumption DEF StreamTypeOK
  <2> QED
    BY <2>2, <2>3, AppendIs DEF Ids
<1>0. id \in Final => sealed'
  BY DEF AppendEntry
<1>2. \A i \in 1 .. n : history[i].life <= life
  BY DEF HistoryInv, Ids
<1>3. \A i \in 1 .. n : history[i].id \in Final =>
        history[i].life # life /\ \A j \in 1 .. n : i < j => history[i].life < history[j].life
  BY DEF SealInv, Ids
<1> HIDE DEF n
<1>4. ASSUME NEW i \in 1 .. n + 1, history'[i].id \in Final
      PROVE  /\ history'[i].life = life => sealed'
             /\ \A j \in 1 .. n + 1 : i < j => history'[i].life < history'[j].life
  <2>1. CASE i \in 1 .. n
    <3>1. history[i].life < life
      BY <1>1, <1>2, <1>3, <1>4, <2>1
    <3>2. ASSUME NEW j \in 1 .. n + 1, i < j PROVE history'[i].life < history'[j].life
      <4>1. CASE j \in 1 .. n
        BY <1>1, <1>3, <1>4, <2>1, <3>2, <4>1
      <4>2. CASE j = n + 1
        BY <1>1, <2>1, <3>1, <4>2
      <4> QED
        BY <1>1, <4>1, <4>2
    <3> QED
      BY <1>1, <2>1, <3>1, <3>2
  <2>2. CASE i = n + 1
    BY <1>0, <1>1, <1>4, <2>2
  <2> QED
    BY <1>1, <2>1, <2>2
<1> QED
  BY <1>1, <1>4 DEF SealInv, Ids, n

\* After an append and both trims the log is still an unbroken end.
LEMMA AppendLog ==
  ASSUME StreamTypeOK, HistoryInv, LogIsSuffix, NEW id \in EventIds, AppendEntry(id), ~HasFinal,
         life' = life
  PROVE  log' \subseteq 1 .. Len(history') /\ LogIsSuffix'
<1> DEFINE n == Len(history)
           S == log \cup {n + 1}
           T == TrimEvents(S)
<1>1. /\ n \in Nat /\ Len(history') = n + 1 /\ \A i \in 1 .. n : history'[i] = history[i]
      /\ history'[n + 1].id = id /\ history'[n + 1].seq = counter /\ history'[n + 1].life = life
      /\ \A i \in 1 .. n + 1 : history'[i].id \in EventIds
      /\ counter' = counter + 1 /\ counter \in Nat /\ life \in Nat
  BY AppendIs, StreamAssumption DEF Ids, AppendEntry, StreamTypeOK
<1>2. log' = TrimBytes(history', T)
  BY <1>1 DEF AppendEntry
<1>3. log \subseteq 1 .. n /\ S \subseteq 1 .. n + 1 /\ n + 1 \in S /\ n + 1 \in Nat
  <2>1. log \subseteq 1 .. n
    BY DEF StreamTypeOK
  <2> HIDE DEF n
  <2> QED
    BY <1>1, <2>1
<1>4. \A c \in log : c .. n \subseteq log /\ history[c].life = life
  BY DEF LogIsSuffix
<1>5. \A c \in log : history[c].id \notin Final
  BY DEF HasFinal
<1>6. /\ T \subseteq S /\ n + 1 \in T /\ Cardinality(T) <= MaxEvents
      /\ \A c \in T : \A d \in S : d >= c => d \in T
  <2> HIDE DEF S, n
  <2> QED BY <1>3, TrimEventsIs
<1>7. \A c \in T : history'[c].id \in Final => c = n + 1
  BY <1>1, <1>3, <1>5, <1>6
<1>8. T \subseteq 1 .. n + 1
  BY <1>3, <1>6
<1>9. /\ log' \subseteq T /\ n + 1 \in log' /\ Bytes(history', log') <= MaxBytes
      /\ \A c \in log' : \A d \in T : d >= c => d \in log'
  <2> HIDE DEF S, n, T
  <2> QED BY <1>1, <1>2, <1>3, <1>6, <1>7, <1>8, TrimBytesIs
<1>10. ASSUME NEW c \in log' PROVE c .. n + 1 \subseteq log' /\ history'[c].life = life
  <2>1. c \in S /\ c \in T
    BY <1>6, <1>9
  <2>2. history'[c].life = life
    BY <1>1, <1>3, <1>4, <2>1
  <2>3. ASSUME NEW e \in c .. n + 1 PROVE e \in S
    <3>1. CASE c \in log
      BY <1>1, <1>3, <1>4, <3>1
    <3>2. CASE c = n + 1
      BY <1>1, <3>2
    <3> QED
      BY <2>1, <3>1, <3>2
  <2>4. ASSUME NEW e \in c .. n + 1 PROVE e \in log'
    <3>1. c \in Nat /\ e >= c
      BY <1>1, <1>8, <2>1
    <3> HIDE DEF S, T, n
    <3> QED BY <1>6, <1>9, <2>1, <2>3, <3>1
  <2> QED
    BY <2>2, <2>4
<1>11. \A c, d \in log' : history'[d].seq - history'[c].seq = d - c
  <2>1. HistoryInv'
    BY AppendHistory
  <2>2. \A c \in log' : c \in 1 .. n + 1 /\ history'[c].seq = counter' - 1 - (n + 1 - c)
    <3>1. \A i \in 1 .. Len(history') :
            history'[i].life = life' => history'[i].seq = counter' - 1 - (Len(history') - i)
      BY <2>1 DEF HistoryInv, Ids
    <3>2. Len(history') = n + 1 /\ log' \subseteq 1 .. n + 1
      BY <1>1, <1>8, <1>9
    <3> HIDE DEF T, n
    <3>3. ASSUME NEW c \in log'
          PROVE  c \in 1 .. n + 1 /\ history'[c].seq = counter' - 1 - (n + 1 - c)
      <4>1. c \in 1 .. n + 1 /\ history'[c].life = life'
        BY <1>10, <3>2
      <4> QED
        BY <1>1, <3>1, <3>2, <4>1
    <3> QED
      BY <3>3
  <2> QED
    BY <1>1, <2>2
<1>12. Cardinality(log') <= MaxEvents
  <2>1. MaxEvents \in Nat
    BY StreamAssumption
  <2>2. /\ Cardinality(T) \in Nat
        /\ Cardinality(log') \in Nat /\ Cardinality(log') <= Cardinality(T)
    <3> HIDE DEF T, n
    <3>1. log' \in SUBSET T /\ n + 1 \in Nat
      BY <1>1, <1>9
    <3> QED BY <1>8, <3>1, Positions
  <2> HIDE DEF T
  <2> QED BY <1>6, <2>1, <2>2
<1>13. Len(history') \in log' /\ counter' = history'[Len(history')].seq + 1
  BY <1>1, <1>9
<1> HIDE DEF T, S
<1> QED
  BY <1>1, <1>8, <1>9, <1>10, <1>11, <1>12, <1>13 DEF LogIsSuffix

\* The server's part of the invariant; the history only grows.
ServerInv ==
  /\ history \in Seq(Appended) /\ log \subseteq 1 .. Len(history) /\ counter \in Nat
  /\ sealed \in BOOLEAN /\ life \in 0 .. MaxExpiries
  /\ HistoryInv /\ SealInv /\ LogIsSuffix

HistoryGrows ==
  /\ Len(history) \in Nat /\ Len(history') \in Nat /\ Len(history) <= Len(history')
  /\ \A i \in Ids : history'[i] = history[i]

\* The script appends or leaves everything as it is.
LEMMA AppendScriptKeeps ==
  ASSUME StreamInv, NEW id \in EventIds, AppendScript(id), life' = life
  PROVE  ServerInv' /\ HistoryGrows
<1>1. StreamTypeOK /\ HistoryInv /\ SealInv /\ LogIsSuffix /\ Len(history) \in Nat
  BY LenProperties DEF StreamInv, StreamTypeOK
<1>2. CASE UNCHANGED <<log, counter, sealed, history>>
  <2>1. HistoryInv' /\ SealInv' /\ LogIsSuffix'
    BY <1>1, <1>2 DEF HistoryInv, SealInv, LogIsSuffix, Ids
  <2>2. HistoryGrows
    BY <1>1, <1>2 DEF HistoryGrows
  <2> QED
    BY <1>1, <1>2, <2>1, <2>2 DEF ServerInv, StreamTypeOK
<1>3. CASE AppendEntry(id) /\ ~HasFinal /\ ~sealed
  <2>1. HistoryInv' /\ SealInv' /\ LogIsSuffix' /\ log' \subseteq 1 .. Len(history')
    BY <1>1, <1>3, AppendHistory, AppendSeal, AppendLog
  <2>2. history' \in Seq(Appended) /\ HistoryGrows
    <3>1. history' \in Seq(Appended) /\ Len(history') = Len(history) + 1
          /\ \A i \in Ids : history'[i] = history[i]
      BY <1>1, <1>3, AppendIs
    <3> QED
      BY <1>1, <3>1 DEF HistoryGrows
  <2>3. counter' \in Nat /\ sealed' \in BOOLEAN /\ life' \in 0 .. MaxExpiries
    BY <1>1, <1>3 DEF StreamTypeOK, AppendEntry
  <2> QED
    BY <2>1, <2>2, <2>3 DEF ServerInv
<1> QED
  BY <1>1, <1>2, <1>3 DEF AppendScript, StreamTypeOK

\* A new life begins with nothing, and all that was appended is of earlier ones.
LEMMA ExpireKeeps ==
  ASSUME StreamInv, Expire
  PROVE  ServerInv' /\ HistoryGrows
<1>1. /\ history \in Seq(Appended) /\ Len(history) \in Nat /\ life \in 0 .. MaxExpiries
      /\ MaxExpiries \in Nat
      /\ \A i \in Ids : history[i] \in Appended
  BY LenProperties, ElementOfSeq, StreamAssumption DEF StreamInv, StreamTypeOK, Ids
<1>2. /\ log' = {} /\ counter' = 0 /\ sealed' = FALSE /\ life' = life + 1 /\ history' = history
      /\ life < MaxExpiries
  BY DEF Expire
<1>3. \A i \in Ids : history[i].life \in Nat /\ history[i].life < life'
  BY <1>1, <1>2 DEF StreamInv, HistoryInv, Appended
<1>4. HistoryInv'
  BY <1>1, <1>2, <1>3 DEF StreamInv, HistoryInv, Ids
<1>5. SealInv'
  BY <1>1, <1>2, <1>3 DEF StreamInv, SealInv, Ids
<1>6. LogIsSuffix'
  <2>1. Cardinality(log') = 0 /\ Bytes(history', log') = 0
    BY <1>2, FS_EmptySet DEF Bytes
  <2> QED
    BY <1>2, <2>1, StreamAssumption DEF LogIsSuffix
<1>7. life' \in 0 .. MaxExpiries /\ HistoryGrows
  BY <1>1, <1>2 DEF HistoryGrows
<1>8. history' \in Seq(Appended) /\ log' \subseteq 1 .. Len(history') /\ counter' \in Nat
      /\ sealed' \in BOOLEAN
  BY <1>1, <1>2
<1> QED
  BY <1>4, <1>5, <1>6, <1>7, <1>8 DEF ServerInv

-----------------------------------------------------------------------------
(* Followers *)

\* What a follower is made of.
LEMMA FollowerFields ==
  ASSUME StreamTypeOK, NEW f \in Followers
  PROVE  /\ f.cursor \in 0 .. Len(history) /\ f.last \in {None} \cup Nat
         /\ f.preview \in Seq(1 .. Len(history)) /\ f.seen \subseteq EventIds
         /\ Len(history) \in Nat /\ Len(f.preview) \in Nat
         /\ \A i \in 1 .. Len(f.preview) : f.preview[i] \in 1 .. Len(history)
         /\ f.preview # <<>> => Len(f.preview) >= 1
<1>1. f.preview \in Seq(1 .. Len(history)) /\ history \in Seq(Appended)
  BY DEF Followers, StreamTypeOK
<1>2. Len(history) \in Nat /\ Len(f.preview) \in Nat
  BY <1>1, LenProperties
<1>3. \A i \in 1 .. Len(f.preview) : f.preview[i] \in 1 .. Len(history)
  BY <1>1, ElementOfSeq
<1>4. f.preview # <<>> => Len(f.preview) >= 1
  BY <1>1, <1>2, EmptySeq
<1> QED
  BY <1>1, <1>2, <1>3, <1>4 DEF Followers

\* A follower stays sound when the history grows.
LEMMA SoundStays ==
  ASSUME StreamTypeOK, HistoryGrows, NEW f \in Followers, Sound(f)
  PROVE  f \in Followers' /\ Sound(f)'
<1> DEFINE m == Len(f.preview)
<1>1. /\ f.cursor \in 0 .. Len(history) /\ f.preview \in Seq(1 .. Len(history))
      /\ Len(history) \in Nat /\ Len(history') \in Nat /\ Len(history) <= Len(history')
      /\ m \in Nat /\ \A i \in 1 .. m : f.preview[i] \in 1 .. Len(history)
      /\ f.preview # <<>> => m >= 1
  BY FollowerFields DEF HistoryGrows
<1>2. f \in Followers'
  <2>1. 1 .. Len(history) \subseteq 1 .. Len(history')
    BY <1>1
  <2>2. f.preview \in Seq(1 .. Len(history'))
    BY <1>1, <2>1, SeqMonotonic
  <2>3. f.cursor \in 0 .. Len(history')
    BY <1>1
  <2> QED
    BY <2>2, <2>3 DEF Followers
<1>3. \A i \in 1 .. m : history'[f.preview[i]] = history[f.preview[i]]
  BY <1>1 DEF HistoryGrows, Ids
<1>4. f.preview # <<>> => f.cursor = f.preview[m] /\ f.last = history'[f.cursor].seq
  <2> SUFFICES ASSUME f.preview # <<>>
               PROVE  f.cursor = f.preview[m] /\ f.last = history'[f.cursor].seq
    OBVIOUS
  <2>1. f.cursor = f.preview[m] /\ f.last = history[f.cursor].seq
    BY DEF Sound
  <2>2. m \in 1 .. m
    BY <1>1
  <2> QED
    BY <1>3, <2>1, <2>2
<1>5. ASSUME NEW i \in 1 .. m - 1
      PROVE  /\ f.preview[i] < f.preview[i + 1]
             /\ history'[f.preview[i]].life = history'[f.preview[i + 1]].life =>
                  f.preview[i + 1] = f.preview[i] + 1
  <2>1. i \in 1 .. m /\ i + 1 \in 1 .. m
    BY <1>1
  <2> QED
    BY <1>3, <2>1 DEF Sound, Gapless
<1>6. Gapless(f)'
  BY <1>5 DEF Gapless
<1> QED
  BY <1>2, <1>4, <1>6 DEF Sound

\* A run of numbers in order is counted through.
LEMMA InOrderIs ==
  ASSUME NEW n \in Nat, NEW S, S \subseteq 1 .. n, S # {}, \A a, b \in S : a .. b \subseteq S
  PROVE  /\ Cardinality(S) \in Nat /\ Cardinality(S) >= 1
         /\ InOrder(S) \in [1 .. Cardinality(S) -> S]
         /\ \A i, j \in 1 .. Cardinality(S) : i < j => InOrder(S)[i] < InOrder(S)[j]
         /\ \A i \in 1 .. Cardinality(S) - 1 : InOrder(S)[i + 1] = InOrder(S)[i] + 1
         /\ \A c \in S : InOrder(S)[1] <= c
<1> DEFINE k == Cardinality(S)
           Good(s) == Range(s) = S /\ \A i, j \in 1 .. k : i < j => s[i] < s[j]
<1>1. PICK lo \in S : \A c \in S : lo <= c
  <2>1. S \subseteq Nat
    OBVIOUS
  <2> QED
    BY <2>1, Least
<1>2. PICK hi \in S : \A c \in S : c <= hi
  BY Greatest
<1>0. \A c \in S : c \in Nat
  OBVIOUS
<1>3. S = lo .. hi /\ lo \in Nat /\ hi \in Nat /\ lo <= hi
  <2>1. lo \in Nat /\ hi \in Nat /\ lo <= hi /\ lo .. hi \subseteq S
    BY <1>0, <1>1, <1>2
  <2>2. ASSUME NEW c \in S PROVE c \in lo .. hi
    BY <1>0, <1>1, <1>2, <2>1
  <2> QED
    BY <2>1, <2>2
<1>4. k = hi - lo + 1
  BY <1>3, FS_Interval
<1>5. k \in Nat /\ k >= 1
  BY <1>3, <1>4
<1>6. \E s \in [1 .. k -> S] : Good(s)
  <2> DEFINE s == [i \in 1 .. k |-> lo + i - 1]
  <2> HIDE DEF k
  <2>1. s \in [1 .. k -> S]
    BY <1>3, <1>4, <1>5
  <2>2. \A i, j \in 1 .. k : i < j => s[i] < s[j]
    BY <1>3, <1>5
  <2>3. ASSUME NEW c \in S PROVE c \in Range(s)
    <3>1. c - lo + 1 \in 1 .. k
      BY <1>3, <1>4, <1>5
    <3>2. s[c - lo + 1] = c
      BY <1>3, <3>1
    <3> HIDE DEF s
    <3> QED
      BY <2>1, <3>1, <3>2 DEF Range
  <2> HIDE DEF s
  <2>4. Range(s) = S
    BY <2>1, <2>3 DEF Range
  <2> QED
    BY <2>1, <2>2, <2>4
<1>7. InOrder(S) = CHOOSE s \in [1 .. k -> S] : Good(s)
  BY DEF InOrder
<1> DEFINE o == InOrder(S)
<1>8. o \in [1 .. k -> S] /\ Good(o)
  <2> HIDE DEF k, Good
  <2> QED BY <1>6, <1>7
<1>9. Range(o) = S /\ \A i, j \in 1 .. k : i < j => o[i] < o[j]
  BY <1>8
<1> HIDE DEF k, Good, o
<1>10. \A i \in 1 .. k : o[i] \in S /\ o[i] \in Nat
  BY <1>0, <1>8
<1>11. \A c \in S : \E i \in 1 .. k : o[i] = c
  BY <1>8, <1>9 DEF Range
<1>12. ASSUME NEW i \in 1 .. k - 1 PROVE o[i + 1] = o[i] + 1
  <2>1. i \in 1 .. k /\ i + 1 \in 1 .. k
    BY <1>5
  <2>2. o[i] < o[i + 1] /\ o[i] \in Nat /\ o[i + 1] \in Nat
    BY <1>5, <1>9, <1>10, <2>1
  <2>3. o[i] + 1 \in S
    <3>1. o[i] + 1 \in o[i] .. o[i + 1]
      BY <2>2
    <3>2. o[i] \in S /\ o[i + 1] \in S
      BY <1>10, <2>1
    <3> QED
      BY <3>1, <3>2
  <2>4. PICK j \in 1 .. k : o[j] = o[i] + 1
    BY <1>11, <2>3
  <2>5. ~ (j <= i)
    <3> SUFFICES ASSUME j <= i PROVE FALSE
      OBVIOUS
    <3>1. j = i \/ j < i
      BY <1>5, <2>1
    <3>2. o[j] <= o[i]
      BY <1>9, <1>10, <2>1, <2>2, <3>1
    <3> QED
      BY <2>2, <2>4, <3>2
  <2>6. ~ (j > i + 1)
    <3> SUFFICES ASSUME j > i + 1 PROVE FALSE
      OBVIOUS
    <3>1. o[i + 1] < o[j]
      BY <1>9, <2>1
    <3> QED
      BY <2>2, <2>4, <3>1
  <2>7. j = i + 1
    BY <1>5, <2>1, <2>5, <2>6
  <2> QED
    BY <2>4, <2>7
<1>13. ASSUME NEW c \in S PROVE o[1] <= c
  <2>1. PICK i \in 1 .. k : o[i] = c
    BY <1>11
  <2>2. i = 1 \/ 1 < i
    BY <1>5
  <2>3. 1 \in 1 .. k
    BY <1>5
  <2> QED
    BY <1>9, <1>10, <2>1, <2>2, <2>3
<1> QED
  BY <1>5, <1>8, <1>9, <1>12, <1>13 DEF k, o

\* What is new on a page and connects has no hole and follows what was shown.
LEMMA NewIs ==
  ASSUME StreamInv, NEW f \in Followers, Sound(f),
         NEW new, new \subseteq Page(f.cursor), \A c \in new : ~Skips(f, c),
         \A c \in new : ~Breaks(f, new, c)
  PROVE  /\ new \subseteq 1 .. Len(history)
         /\ \A a, b \in new : a .. b \subseteq new
         /\ \A c \in new : f.cursor < c /\ history[c].seq \in Nat
         /\ \A c \in new : (\A d \in new : c <= d) /\ f.preview # <<>>
                             /\ history[f.cursor].life = history[c].life => c = f.cursor + 1
<1>1. StreamTypeOK /\ Len(history) \in Nat /\ f.last \in {None} \cup Nat /\ f.cursor \in Nat
  BY FollowerFields DEF StreamInv
<1>2. \A c \in new : c \in log /\ c > f.cursor
  BY DEF Page
<1>3. new \subseteq 1 .. Len(history)
  BY <1>2 DEF StreamInv, StreamTypeOK
<1>4. \A c \in new : history[c].seq \in Nat /\ c \in Nat
  <2>1. \A c \in new : history[c] \in Appended
    BY <1>1, <1>3, ElementOfSeq DEF StreamTypeOK
  <2> QED
    BY <1>3, <2>1 DEF Appended
<1>5. \A c, d \in new : history[d].seq - history[c].seq = d - c
  BY <1>2 DEF StreamInv, LogIsSuffix
<1>6. \A c \in new : f.last # None => history[c].seq > f.last
  BY <1>1, <1>4 DEF Skips, None
<1>7. ASSUME NEW c \in new, f.last # None \/ \E d \in new : d < c
      PROVE  history[c].seq - 1 = f.last \/ \E d \in new : d = c - 1
  <2>1. history[c].seq - 1 = f.last \/ \E d \in new : history[d].seq = history[c].seq - 1
    BY <1>7 DEF Breaks
  <2>2. ASSUME NEW d \in new, history[d].seq = history[c].seq - 1 PROVE d = c - 1
    BY <1>4, <1>5, <2>2
  <2> QED
    BY <2>1, <2>2
<1>8. ASSUME NEW a \in new, NEW b \in new, NEW e \in a .. b, e \notin new
      PROVE  FALSE
  <2> DEFINE T == {c \in new : c > e}
  <2>0. e \in Int /\ a <= e /\ e <= b /\ e # a /\ e # b
    BY <1>4, <1>8
  <2>1. T \subseteq Nat /\ b \in T
    BY <1>4, <2>0
  <2>2. PICK c \in T : \A d \in T : c <= d
    <3> HIDE DEF T
    <3> QED BY <2>1, Least
  <2>3. c \in new /\ c > e /\ a < c
    BY <1>4, <2>0
  <2>4. CASE \E d \in new : d = c - 1
    <3>1. c - 1 \in new /\ c - 1 # e
      BY <1>8, <2>4
    <3>2. c - 1 \in T
      BY <1>4, <2>0, <2>3, <3>1
    <3> QED
      BY <1>4, <2>2, <2>3, <3>2
  <2>5. CASE history[c].seq - 1 = f.last
    <3>1. history[c].seq - history[a].seq = c - a
      BY <1>5, <2>3
    <3>2. history[a].seq < history[c].seq /\ history[a].seq \in Nat /\ history[c].seq \in Nat
      BY <1>4, <2>3, <3>1
    <3>3. f.last # None
      BY <2>5, <3>2 DEF None
    <3>4. history[a].seq > f.last
      BY <1>6, <3>3
    <3> QED
      BY <1>1, <2>5, <3>2, <3>4 DEF None
  <2> QED
    BY <1>7, <2>3, <2>4, <2>5
<1>9. ASSUME NEW c \in new, \A d \in new : c <= d, f.preview # <<>>,
             history[f.cursor].life = history[c].life
      PROVE  c = f.cursor + 1
  <2>1. /\ f.cursor \in 1 .. Len(history) /\ f.last = history[f.cursor].seq /\ f.last \in Nat
    <3>1. f.cursor \in 1 .. Len(history) /\ f.last = history[f.cursor].seq
      BY <1>1, <1>9, FollowerFields DEF Sound
    <3>2. history[f.cursor] \in Appended
      BY <1>1, <3>1, ElementOfSeq DEF StreamTypeOK
    <3> QED
      BY <3>1, <3>2 DEF Appended
  <2>2. ~ \E d \in new : d = c - 1
    BY <1>4, <1>9
  <2>3. history[c].seq - 1 = f.last
    BY <1>7, <2>1, <2>2 DEF None
  <2>4. history[c].seq - history[f.cursor].seq = c - f.cursor
    <3>1. f.cursor \in Ids /\ c \in Ids /\ f.cursor <= c
      BY <1>1, <1>2, <1>3, <1>4, <2>1 DEF Ids
    <3> QED
      BY <1>9, <3>1 DEF StreamInv, HistoryInv
  <2> QED
    BY <1>1, <1>4, <2>1, <2>3, <2>4
<1> QED
  BY <1>2, <1>3, <1>4, <1>8, <1>9

\* A page that was applied leaves the follower sound.
LEMMA ShowKeeps ==
  ASSUME StreamInv, NEW f \in Followers, Sound(f),
         NEW new, new \subseteq Page(f.cursor), new # {}, \A c \in new : ~Skips(f, c),
         \A c \in new : ~Breaks(f, new, c),
         NEW g \in Followers, g.preview = f.preview \o InOrder(new),
         g.cursor = InOrder(new)[Cardinality(new)], g.last = history[g.cursor].seq
  PROVE  Sound(g)
<1> DEFINE m == Len(f.preview)
           k == Cardinality(new)
           o == InOrder(new)
           N == 1 .. Len(history)
<1>1. /\ StreamTypeOK /\ Len(history) \in Nat /\ m \in Nat /\ f.preview \in Seq(N)
      /\ \A i \in 1 .. m : f.preview[i] \in N
      /\ f.preview # <<>> => m >= 1
  BY FollowerFields DEF StreamInv
<1>2. /\ new \subseteq N /\ \A a, b \in new : a .. b \subseteq new
      /\ \A c \in new : f.cursor < c
      /\ \A c \in new : (\A d \in new : c <= d) /\ f.preview # <<>>
                          /\ history[f.cursor].life = history[c].life => c = f.cursor + 1
  BY NewIs
<1>3. /\ k \in Nat /\ k >= 1 /\ o \in [1 .. k -> new]
      /\ \A i, j \in 1 .. k : i < j => o[i] < o[j]
      /\ \A i \in 1 .. k - 1 : o[i + 1] = o[i] + 1
      /\ \A c \in new : o[1] <= c
  <2> HIDE DEF k, o
  <2> QED BY <1>1, <1>2, InOrderIs DEF k, o
<1>4. o \in Seq(N) /\ Len(o) = k
  <2> HIDE DEF k, o
  <2>1. o \in [1 .. k -> N]
    BY <1>2, <1>3
  <2> HIDE DEF N
  <2>2. o \in Seq(N)
    BY <1>3, <2>1, SeqDef
  <2>3. Len(o) \in Nat /\ DOMAIN o = 1 .. Len(o) /\ DOMAIN o = 1 .. k
    BY <2>1, <2>2, LenProperties
  <2> QED
    BY <1>3, <2>2, <2>3
<1> HIDE DEF k, o
<1>5. /\ g.preview \in Seq(N) /\ Len(g.preview) = m + k
      /\ \A i \in 1 .. m + k : g.preview[i] = IF i <= m THEN f.preview[i] ELSE o[i - m]
  <2>1. g.preview = f.preview \o o
    BY DEF o
  <2> HIDE DEF N
  <2>2. Len(f.preview) = m /\ f.preview \in Seq(N) /\ o \in Seq(N) /\ Len(o) = k
    BY <1>1, <1>4
  <2>3. /\ f.preview \o o \in Seq(N) /\ Len(f.preview \o o) = Len(f.preview) + Len(o)
        /\ \A i \in 1 .. Len(f.preview) + Len(o) : (f.preview \o o)[i] =
             IF i <= Len(f.preview) THEN f.preview[i] ELSE o[i - Len(f.preview)]
    BY <2>2, ConcatProperties
  <2> QED
    BY <2>1, <2>2, <2>3
<1> DEFINE p == g.preview
<1>6. \A i \in 1 .. m : p[i] = f.preview[i] /\ p[i] \in N /\ p[i] \in Nat
  BY <1>1, <1>3, <1>5
<1>7. \A i \in 1 .. k : p[m + i] = o[i] /\ o[i] \in new /\ o[i] \in Nat
  <2> SUFFICES ASSUME NEW i \in 1 .. k PROVE p[m + i] = o[i] /\ o[i] \in new /\ o[i] \in Nat
    OBVIOUS
  <2>1. m + i \in 1 .. m + k /\ ~ (m + i <= m) /\ (m + i) - m = i
    BY <1>1, <1>3
  <2>2. o[i] \in new
    BY <1>3
  <2> QED
    <3>1. p[m + i] = o[i]
      BY <1>5, <2>1
    <3>2. o[i] \in Nat
      BY <1>1, <1>2, <2>2
    <3> HIDE DEF p
    <3> QED
      BY <2>2, <3>1, <3>2
<1>8. \A i \in 1 .. m : p[i] <= f.cursor
  <2> SUFFICES ASSUME NEW i \in 1 .. m PROVE f.preview[i] <= f.cursor
    BY <1>6
  <2>1. f.preview # <<>> /\ m \in 1 .. m
    BY <1>1
  <2>2. f.cursor = f.preview[m] /\ (i < m => f.preview[i] < f.preview[m])
    BY <2>1 DEF Sound
  <2>3. i = m \/ i < m
    BY <1>1
  <2> QED
    BY <1>1, <2>1, <2>2, <2>3
<1>9. f.cursor \in Nat
  BY <1>1, FollowerFields
<1> HIDE DEF m, N, p
<1>10. ASSUME NEW i \in 1 .. m + k, NEW j \in 1 .. m + k, i < j PROVE p[i] < p[j]
  <2>1. CASE j \in 1 .. m
    <3>1. i \in 1 .. m
      BY <1>1, <1>3, <1>10, <2>1
    <3> QED
      BY <1>6, <1>10, <2>1, <3>1 DEF Sound, m
  <2>2. CASE i \in 1 .. m /\ j \notin 1 .. m
    <3>1. j - m \in 1 .. k /\ m + (j - m) = j
      BY <1>1, <1>3, <2>2
    <3>2. p[j] = o[j - m] /\ o[j - m] \in new /\ o[j - m] \in Nat
      BY <1>7, <3>1
    <3> QED
      BY <1>2, <1>6, <1>8, <1>9, <2>2, <3>2
  <2>3. CASE i \notin 1 .. m /\ j \notin 1 .. m
    <3>1. /\ j - m \in 1 .. k /\ m + (j - m) = j /\ i - m \in 1 .. k /\ m + (i - m) = i
          /\ i - m < j - m
      BY <1>1, <1>3, <1>10, <2>3
    <3> QED
      BY <1>3, <1>7, <3>1
  <2> QED
    BY <1>1, <1>3, <1>10, <2>1, <2>2, <2>3
<1>11. ASSUME NEW i \in 1 .. m + k - 1, history[p[i]].life = history[p[i + 1]].life
       PROVE  p[i + 1] = p[i] + 1
  <2>1. CASE i + 1 \in 1 .. m
    <3>1. i \in 1 .. m /\ i \in 1 .. m - 1
      BY <1>1, <1>3, <2>1
    <3> QED
      BY <1>6, <1>11, <2>1, <3>1 DEF Sound, Gapless, m
  <2>2. CASE i = m
    <3>1. p[i + 1] = o[1] /\ o[1] \in new
      BY <1>3, <1>7, <2>2
    <3>2. f.preview # <<>> /\ p[i] = f.cursor
      <4>1. m \in 1 .. m
        BY <1>1, <1>3, <2>2
      <4>2. f.preview # <<>>
        BY <4>1 DEF m
      <4> QED
        BY <1>6, <2>2, <4>1, <4>2 DEF Sound, m
    <3> QED
      BY <1>2, <1>3, <1>11, <3>1, <3>2
  <2>3. CASE i > m
    <3>1. /\ i - m \in 1 .. k - 1 /\ i - m \in 1 .. k /\ i - m + 1 \in 1 .. k
          /\ m + (i - m) = i /\ m + (i - m + 1) = i + 1
      BY <1>1, <1>3, <2>3
    <3> QED
      BY <1>3, <1>7, <3>1
  <2> QED
    BY <1>1, <1>3, <2>1, <2>2, <2>3
<1>12. g.cursor = p[m + k] /\ m + k \in Nat /\ m + k >= 1
  <2>1. k \in 1 .. k
    BY <1>3
  <2>2. g.cursor = o[k]
    BY DEF o, k
  <2> QED
    BY <1>1, <1>3, <1>7, <2>1, <2>2
<1>13. p # <<>>
  <2>1. Len(p) # 0
    BY <1>5, <1>12 DEF p
  <2> QED
    BY <2>1, EmptySeq
<1>14. Len(p) = m + k
  BY <1>5 DEF p
<1>15. Gapless(g)
  <2>0. Len(g.preview) - 1 = m + k - 1
    BY <1>1, <1>3, <1>14 DEF p
  <2> SUFFICES ASSUME NEW i \in 1 .. m + k - 1
               PROVE  /\ g.preview[i] < g.preview[i + 1]
                      /\ history[g.preview[i]].life = history[g.preview[i + 1]].life =>
                           g.preview[i + 1] = g.preview[i] + 1
    BY <2>0, Zenon DEF Gapless
  <2>1. i \in 1 .. m + k /\ i + 1 \in 1 .. m + k /\ i < i + 1
    BY <1>1, <1>3
  <2> QED
    BY <1>10, <1>11, <2>1 DEF p
<1> QED
  BY <1>10, <1>12, <1>13, <1>14, <1>15 DEF Sound, p

\* Whatever a page says, the follower stays one that its entries account for.
LEMMA ApplyKeeps ==
  ASSUME StreamInv, NEW f \in Followers, Sound(f)
  PROVE  ApplyPage(f, Page(f.cursor)) \in Followers /\ Sound(ApplyPage(f, Page(f.cursor)))
<1> DEFINE page == Page(f.cursor)
           new == {c \in page : ~Skips(f, c)}
           breaks == {c \in new : Breaks(f, new, c)}
           applied == {c \in new : \A b \in breaks : c < b}
           shown == InOrder(new)
           newest == shown[Cardinality(new)]
           ids(S) == {history[c].id : c \in S}
           g == ApplyPage(f, page)
<1>1. StreamTypeOK /\ history \in Seq(Appended) /\ Len(history) \in Nat
  BY LenProperties DEF StreamInv, StreamTypeOK
<1>2. \A c \in new : c \in 1 .. Len(history) /\ history[c] \in Appended
  <2>1. \A c \in new : c \in log
    BY DEF Page
  <2>2. \A c \in new : c \in 1 .. Len(history)
    BY <1>1, <2>1 DEF StreamTypeOK
  <2> HIDE DEF new
  <2> QED
    BY <1>1, <2>2, ElementOfSeq
<1>3. ids(new) \subseteq EventIds /\ ids(applied) \subseteq EventIds
  BY <1>2 DEF Appended
<1>4. CASE ~WellFormed(page)
  <2>1. g = [f EXCEPT !.transport = "status_only"]
    BY <1>4 DEF ApplyPage
  <2>2. g \in Followers
    BY <2>1 DEF Followers
  <2>3. g.preview = f.preview /\ g.cursor = f.cursor /\ g.last = f.last
    BY <2>1 DEF Followers
  <2> HIDE DEF g
  <2> QED
    BY <2>2, <2>3 DEF Sound, Gapless, g
<1>5. CASE WellFormed(page) /\ breaks # {}
  <2>1. g = [f EXCEPT !.transport = "status_only", !.seen = @ \cup ids(applied)]
    BY <1>5 DEF ApplyPage
  <2> HIDE DEF g, applied, new, breaks
  <2>2. g \in Followers
    BY <1>3, <2>1 DEF Followers
  <2>3. g.preview = f.preview /\ g.cursor = f.cursor /\ g.last = f.last
    BY <2>1 DEF Followers
  <2> QED
    BY <2>2, <2>3 DEF Sound, Gapless, g
<1>6. CASE WellFormed(page) /\ breaks = {} /\ new = {}
  BY <1>6 DEF ApplyPage
<1>7. CASE WellFormed(page) /\ breaks = {} /\ new # {}
  <2>1. g = [f EXCEPT !.cursor = newest, !.last = history[newest].seq,
                      !.preview = @ \o shown, !.seen = @ \cup ids(new)]
    BY <1>7 DEF ApplyPage
  <2>2. \A c \in new : ~Breaks(f, new, c) /\ ~Skips(f, c)
    BY <1>7
  <2>3. new \subseteq page
    OBVIOUS
  <2> HIDE DEF g, new, breaks, page
  <2>4. new \subseteq 1 .. Len(history) /\ \A a, b \in new : a .. b \subseteq new
    BY <2>2, <2>3, NewIs DEF page
  <2>5. /\ Cardinality(new) \in Nat /\ Cardinality(new) >= 1
        /\ shown \in [1 .. Cardinality(new) -> new]
    BY <1>1, <1>7, <2>4, InOrderIs
  <2>6. newest \in 1 .. Len(history) /\ history[newest].seq \in Nat
    <3>1. newest \in new
      BY <2>5
    <3> HIDE DEF newest
    <3> QED BY <1>2, <3>1 DEF Appended
  <2>7. f.preview \o shown \in Seq(1 .. Len(history))
    <3>1. shown \in [1 .. Cardinality(new) -> 1 .. Len(history)]
      BY <2>4, <2>5
    <3>2. shown \in Seq(1 .. Len(history))
      BY <2>5, <3>1, SeqDef
    <3>3. f.preview \in Seq(1 .. Len(history))
      BY <1>1, FollowerFields
    <3> HIDE DEF shown
    <3> QED BY <3>2, <3>3, ConcatProperties
  <2>8. g \in Followers /\ g.preview = f.preview \o shown /\ g.cursor = newest
        /\ g.last = history[newest].seq
    <3> HIDE DEF newest, shown
    <3>1. newest \in 0 .. Len(history)
      BY <1>1, <2>6
    <3> QED BY <1>3, <2>1, <2>6, <2>7, <3>1 DEF Followers
  <2>9. Sound(g)
    <3>1. new \subseteq Page(f.cursor)
      BY <2>3 DEF page
    <3> QED BY <1>7, <2>2, <2>8, <3>1, ShowKeeps
  <2> QED
    BY <2>8, <2>9 DEF g, page
<1> QED
  BY <1>4, <1>5, <1>6, <1>7

-----------------------------------------------------------------------------
(* Every step keeps the invariant *)

\* The browser's part of the invariant.
BrowserInv ==
  /\ rpc \in [Tabs -> {"status", "check", "fetch", "done"}]
  /\ tab \in [Tabs -> Followers] /\ loaded \in [Tabs -> Followers]
  /\ stored \in Followers /\ kept \in BOOLEAN /\ reloads \in 0 .. MaxReloads
  /\ ReplayInv

\* The publishers' part of it.
PublisherInv ==
  /\ verdict \in {"OPEN"} \cup Verdicts
  /\ stage \in [Deliveries -> {"idle", "generating", "closing", "over"}]
  /\ unsent \in [Deliveries -> Seq(EventIds)]

\* The invariant by the processes that change its parts, now and after a step.
LEMMA StreamInvIs == StreamInv <=> PublisherInv /\ ServerInv /\ BrowserInv
BY DEF StreamInv, StreamTypeOK, PublisherInv, ServerInv, BrowserInv

LEMMA StreamInvStays ==
  ASSUME PublisherInv', ServerInv', BrowserInv'
  PROVE  StreamInv'
BY DEF StreamInv, StreamTypeOK, PublisherInv, ServerInv, BrowserInv

\* What the server does leaves the browser's part as it is.
LEMMA FollowersStay ==
  ASSUME StreamInv, HistoryGrows, UNCHANGED browser
  PROVE  BrowserInv'
<1>1. StreamTypeOK /\ BrowserInv
  BY StreamInvIs DEF StreamInv
<1>2. stored \in Followers' /\ Sound(stored)'
  BY <1>1, SoundStays DEF BrowserInv, ReplayInv, browser
<1>3. ASSUME NEW t \in Tabs
      PROVE  /\ tab[t] \in Followers' /\ loaded[t] \in Followers'
             /\ Sound(tab[t])' /\ Sound(loaded[t])'
  <2>1. /\ tab[t] \in Followers /\ Sound(tab[t]) /\ loaded[t] \in Followers /\ Sound(loaded[t])
        /\ tab' = tab /\ loaded' = loaded
    BY <1>1 DEF BrowserInv, ReplayInv, browser
  <2>2. tab[t] \in Followers' /\ loaded[t] \in Followers'
    BY <1>1, <2>1, SoundStays
  <2>3. Sound(tab[t])'
    BY <1>1, <2>1, SoundStays
  <2>4. Sound(loaded[t])'
    BY <1>1, <2>1, SoundStays
  <2> QED
    BY <2>2, <2>3, <2>4
<1> QED
  BY <1>1, <1>2, <1>3 DEF BrowserInv, ReplayInv, browser

\* What leaves the keys alone keeps the server's part.
LEMMA LogUntouched ==
  ASSUME StreamInv, UNCHANGED <<log, counter, sealed, history, life>>
  PROVE  ServerInv' /\ HistoryGrows
<1>1. ServerInv /\ Len(history) \in Nat
  BY StreamInvIs, LenProperties DEF StreamInv, StreamTypeOK
<1>2. HistoryInv' /\ SealInv' /\ LogIsSuffix'
  BY <1>1 DEF ServerInv, HistoryInv, SealInv, LogIsSuffix, Ids
<1>3. HistoryGrows
  BY <1>1 DEF HistoryGrows
<1> QED
  BY <1>1, <1>2, <1>3 DEF ServerInv

\* What deliveries publish.
LEMMA EventsAre ==
  /\ "started" \in EventIds /\ \A v : Announcement(v) \in EventIds
  /\ \A d \in Deliveries : <<"started">> \o Chunks[d] \in Seq(EventIds)
  /\ \A id \in EventIds : <<id>> \in Seq(EventIds) /\ <<"started", id>> \in Seq(EventIds)
<1>1. "started" \in EventIds /\ \A v : Announcement(v) \in EventIds
  BY DEF EventIds, Announcement, Final
<1>2. \A id \in EventIds : <<id>> \in Seq(EventIds) /\ <<"started", id>> \in Seq(EventIds)
  BY <1>1
<1>3. \A d \in Deliveries : <<"started">> \o Chunks[d] \in Seq(EventIds)
  BY <1>1, <1>2, StreamAssumption, ConcatProperties
<1> QED
  BY <1>1, <1>2, <1>3

\* Steps of a delivery.
LEMMA PublisherStep ==
  ASSUME StreamInv, NEW d \in Deliveries, Begin(d) \/ Publish(d) \/ Conclude(d) \/ GiveUp(d)
  PROVE  StreamInv'
<1>1. PublisherInv
  BY StreamInvIs
<1>2. unsent[d] \in Seq(EventIds) /\ <<>> \in Seq(EventIds)
  BY <1>1 DEF PublisherInv
<1>3. CASE Begin(d)
  <2>1. PublisherInv'
    <3>1. \E s \in Seq(EventIds), place \in {"closing", "generating"} :
            /\ stage' = [stage EXCEPT ![d] = place]
            /\ unsent' = [unsent EXCEPT ![d] = s]
      <4>1. CASE Terminal
        BY <1>3, <4>1, EventsAre DEF Begin
      <4>2. CASE ~Terminal
        BY <1>3, <4>2, EventsAre DEF Begin
      <4> QED BY <4>1, <4>2
    <3> QED
      BY <1>1, <1>3, <3>1 DEF PublisherInv, Begin
  <2>2. ServerInv' /\ BrowserInv'
    <3>1. UNCHANGED <<log, counter, sealed, history, life>> /\ UNCHANGED browser
      BY <1>3 DEF Begin
    <3> QED BY <3>1, LogUntouched, FollowersStay
  <2> QED
    BY <2>1, <2>2, StreamInvStays
<1>4. CASE Publish(d)
  <2>1. unsent[d] # <<>> /\ Head(unsent[d]) \in EventIds /\ Tail(unsent[d]) \in Seq(EventIds)
    BY <1>2, <1>4, HeadTailProperties DEF Publish
  <2>2. PublisherInv'
    BY <1>1, <1>4, <2>1 DEF PublisherInv, Publish
  <2>3. ServerInv' /\ HistoryGrows
    <3>1. life' = life
      BY <1>4 DEF Publish
    <3>2. AppendScript(Head(unsent[d])) \/ UNCHANGED <<log, counter, sealed, history>>
      BY <1>4 DEF Publish
    <3>3. CASE AppendScript(Head(unsent[d]))
      BY <2>1, <3>1, <3>3, AppendScriptKeeps
    <3>4. CASE UNCHANGED <<log, counter, sealed, history>>
      BY <3>1, <3>4, LogUntouched
    <3> QED
      BY <3>2, <3>3, <3>4
  <2>4. BrowserInv'
    BY <1>4, <2>3, FollowersStay DEF Publish
  <2> QED
    BY <2>2, <2>3, <2>4, StreamInvStays
<1>5. CASE Conclude(d)
  <2>1. PublisherInv'
    <3>1. "completed" \in EventIds /\ "failed" \in EventIds
      BY DEF EventIds, Final
    <3>2. /\ stage' = [stage EXCEPT ![d] = "closing"]
          /\ verdict' \in {verdict} \cup Verdicts
          /\ \E s \in Seq(EventIds) : unsent' = [unsent EXCEPT ![d] = s]
      BY <1>5, <3>1, EventsAre DEF Conclude, Verdicts
    <3> QED
      BY <1>1, <3>2 DEF PublisherInv
  <2>2. ServerInv' /\ BrowserInv'
    <3>1. UNCHANGED <<log, counter, sealed, history, life>> /\ UNCHANGED browser
      BY <1>5 DEF Conclude
    <3> QED BY <3>1, LogUntouched, FollowersStay
  <2> QED
    BY <2>1, <2>2, StreamInvStays
<1>6. CASE GiveUp(d)
  <2>1. PublisherInv'
    BY <1>1, <1>2, <1>6 DEF PublisherInv, GiveUp
  <2>2. ServerInv' /\ BrowserInv'
    <3>1. UNCHANGED <<log, counter, sealed, history, life>> /\ UNCHANGED browser
      BY <1>6 DEF GiveUp
    <3> QED BY <3>1, LogUntouched, FollowersStay
  <2> QED
    BY <2>1, <2>2, StreamInvStays
<1> QED
  BY <1>3, <1>4, <1>5, <1>6

\* The owner cancels, or the keys expire.
LEMMA ServerStep ==
  ASSUME StreamInv, Cancel \/ Expire
  PROVE  StreamInv'
<1>1. PublisherInv
  BY StreamInvIs
<1>2. PublisherInv' /\ UNCHANGED browser
  BY <1>1 DEF PublisherInv, Cancel, Expire, Verdicts
<1>3. ServerInv' /\ HistoryGrows
  <2>1. CASE Cancel
    BY <2>1, LogUntouched DEF Cancel
  <2>2. CASE Expire
    BY <2>2, ExpireKeeps
  <2> QED
    BY <2>1, <2>2
<1> QED
  BY <1>2, <1>3, FollowersStay, StreamInvStays

\* A follower with another transport, or without its event ids, is as sound as before.
LEMMA SoundBut ==
  ASSUME NEW f \in Followers, Sound(f)
  PROVE  /\ [f EXCEPT !.transport = "status_only"] \in Followers
         /\ [f EXCEPT !.seen = {}] \in Followers
         /\ Sound([f EXCEPT !.transport = "status_only"]) /\ Sound([f EXCEPT !.seen = {}])
<1> DEFINE g == [f EXCEPT !.transport = "status_only"]
           h == [f EXCEPT !.seen = {}]
<1>1. g \in Followers /\ h \in Followers
  BY DEF Followers
<1>2. /\ g.preview = f.preview /\ g.cursor = f.cursor /\ g.last = f.last
      /\ h.preview = f.preview /\ h.cursor = f.cursor /\ h.last = f.last
  BY DEF Followers
<1> HIDE DEF g, h
<1>3. Sound(g) /\ Sound(h)
  BY <1>2 DEF Sound, Gapless
<1> QED
  BY <1>1, <1>3 DEF g, h

\* A fresh follower has shown nothing.
LEMMA FreshIs ==
  ASSUME Len(history) \in Nat
  PROVE  Fresh \in Followers /\ Sound(Fresh)
<1>1. <<>> \in Seq(1 .. Len(history)) /\ Len(<<>>) = 0
  BY EmptySeq
<1>2. Fresh.preview = <<>> /\ Fresh.last = None
  BY DEF Fresh
<1>3. Fresh \in Followers
  BY <1>1 DEF Fresh, Followers
<1>4. \A i, j \in 1 .. 0 : i < j => Fresh.preview[i] < Fresh.preview[j]
  OBVIOUS
<1>5. Gapless(Fresh)
  BY <1>1, <1>2 DEF Gapless
<1> QED
  BY <1>1, <1>2, <1>3, <1>5 DEF Sound

\* Steps of a tab.
LEMMA TabStep ==
  ASSUME StreamInv, NEW t \in Tabs,
         Follow(t) \/ FetchFails(t) \/ Checkpoint(t) \/ Reload(t) \/ Restart(t)
  PROVE  StreamInv'
<1>1. StreamTypeOK /\ PublisherInv /\ ServerInv /\ BrowserInv /\ Len(history) \in Nat
  BY StreamInvIs, LenProperties DEF StreamInv, StreamTypeOK
<1>2. UNCHANGED server
  BY DEF Follow, ReadStatus, CheckCursor, Fetch, FetchFails, Checkpoint, Reload, Restart
<1>3. PublisherInv' /\ ServerInv'
  BY <1>1, <1>2, LogUntouched DEF server, PublisherInv
<1>4. Followers' = Followers
  BY <1>2 DEF server, Followers
<1>5. \A f : Sound(f)' <=> Sound(f)
  BY <1>2 DEF server, Sound, Gapless
<1>6. /\ tab[t] \in Followers /\ Sound(tab[t]) /\ loaded[t] \in Followers /\ Sound(loaded[t])
      /\ stored \in Followers /\ Sound(stored) /\ Fresh \in Followers /\ Sound(Fresh)
  BY <1>1, FreshIs DEF BrowserInv, ReplayInv
<1>7. ASSUME NEW g \in Followers, Sound(g), tab' = [tab EXCEPT ![t] = g], loaded' = loaded,
             rpc' \in [Tabs -> {"status", "check", "fetch", "done"}],
             UNCHANGED <<stored, kept>>, reloads' \in 0 .. MaxReloads
      PROVE  BrowserInv'
  <2>1. ReplayInv'
    BY <1>1, <1>5, <1>7 DEF BrowserInv, ReplayInv
  <2> QED
    BY <1>1, <1>4, <1>7, <2>1 DEF BrowserInv
<1>8. ASSUME NEW place \in {"status", "check", "fetch", "done"}
      PROVE  Step(t, place) => rpc' \in [Tabs -> {"status", "check", "fetch", "done"}]
  BY <1>1 DEF Step, BrowserInv
<1>9. CASE ReadStatus(t)
  <2>1. /\ stored' \in Followers /\ Sound(stored') /\ kept' \in BOOLEAN
        /\ rpc' \in [Tabs -> {"status", "check", "fetch", "done"}]
        /\ UNCHANGED <<tab, loaded, reloads>>
    BY <1>1, <1>6, <1>8, <1>9 DEF ReadStatus, BrowserInv
  <2>2. ReplayInv'
    BY <1>1, <1>5, <2>1 DEF BrowserInv, ReplayInv
  <2> QED
    BY <1>1, <1>3, <1>4, <2>1, <2>2, StreamInvStays DEF BrowserInv
<1>10. CASE CheckCursor(t) \/ FetchFails(t)
  <2>1. \E g \in {tab[t], [tab[t] EXCEPT !.transport = "status_only"]} :
          tab' = [tab EXCEPT ![t] = g]
    <3>1. CASE UNCHANGED tab
      <4>1. tab' = [tab EXCEPT ![t] = tab[t]]
        BY <1>1, <3>1 DEF BrowserInv
      <4> QED BY <4>1
    <3>2. CASE StatusOnly(t)
      BY <3>2 DEF StatusOnly
    <3> QED
      BY <1>10, <3>1, <3>2 DEF CheckCursor, FetchFails
  <2>2. /\ rpc' \in [Tabs -> {"status", "check", "fetch", "done"}]
        /\ UNCHANGED <<loaded, stored, kept, reloads>>
    BY <1>8, <1>10 DEF CheckCursor, FetchFails
  <2>3. \A g \in {tab[t], [tab[t] EXCEPT !.transport = "status_only"]} :
          g \in Followers /\ Sound(g)
    BY <1>6, SoundBut
  <2>4. reloads' \in 0 .. MaxReloads
    BY <1>1, <2>2 DEF BrowserInv
  <2>5. BrowserInv'
    BY <1>7, <2>1, <2>2, <2>3, <2>4
  <2> QED
    BY <1>3, <2>5, StreamInvStays
<1>11. CASE Fetch(t)
  <2>1. tab' = [tab EXCEPT ![t] = ApplyPage(tab[t], Page(tab[t].cursor))]
    BY <1>11 DEF Fetch
  <2>2. ApplyPage(tab[t], Page(tab[t].cursor)) \in Followers
        /\ Sound(ApplyPage(tab[t], Page(tab[t].cursor)))
    BY <1>6, ApplyKeeps
  <2>3. /\ rpc' \in [Tabs -> {"status", "check", "fetch", "done"}]
        /\ UNCHANGED <<loaded, stored, kept, reloads>>
    BY <1>8, <1>11 DEF Fetch
  <2>4. reloads' \in 0 .. MaxReloads
    BY <1>1, <2>3 DEF BrowserInv
  <2>5. BrowserInv'
    BY <1>7, <2>1, <2>2, <2>3, <2>4
  <2> QED
    BY <1>3, <2>5, StreamInvStays
<1>12. CASE Checkpoint(t)
  <2>1. stored' \in Followers /\ Sound(stored') /\ UNCHANGED <<tab, rpc, loaded, kept, reloads>>
    BY <1>6, <1>12, SoundBut DEF Checkpoint
  <2>2. ReplayInv'
    BY <1>1, <1>5, <2>1 DEF BrowserInv, ReplayInv
  <2> QED
    BY <1>1, <1>3, <1>4, <2>1, <2>2, StreamInvStays DEF BrowserInv
<1>13. CASE Reload(t)
  <2>1. /\ tab' = [tab EXCEPT ![t] = stored] /\ loaded' = [loaded EXCEPT ![t] = stored]
        /\ UNCHANGED <<stored, kept>> /\ reloads < MaxReloads /\ reloads' = reloads + 1
        /\ rpc' \in [Tabs -> {"status", "check", "fetch", "done"}]
    BY <1>8, <1>13 DEF Reload
  <2>2. ReplayInv'
    BY <1>1, <1>5, <1>6, <2>1 DEF BrowserInv, ReplayInv
  <2>3. reloads' \in 0 .. MaxReloads
    BY <1>1, <2>1, StreamAssumption DEF BrowserInv
  <2> QED
    BY <1>1, <1>3, <1>4, <2>1, <2>2, <2>3, StreamInvStays DEF BrowserInv
<1>14. CASE Restart(t)
  <2>1. /\ tab' = [tab EXCEPT ![t] = loaded[t]] /\ loaded' = loaded /\ UNCHANGED <<stored, kept>>
        /\ rpc' \in [Tabs -> {"status", "check", "fetch", "done"}]
        /\ reloads < MaxReloads /\ reloads' = reloads + 1
    BY <1>8, <1>14 DEF Restart
  <2>2. reloads' \in 0 .. MaxReloads
    BY <1>1, <2>1, StreamAssumption DEF BrowserInv
  <2>3. BrowserInv'
    BY <1>6, <1>7, <2>1, <2>2
  <2> QED
    BY <1>3, <2>3, StreamInvStays
<1> QED
  BY <1>9, <1>10, <1>11, <1>12, <1>13, <1>14 DEF Follow

\* The invariant holds initially.
LEMMA StreamInitInv == StreamInit => StreamInv
<1> SUFFICES ASSUME StreamInit PROVE StreamInv
  OBVIOUS
<1>1. history = <<>> /\ Len(history) = 0 /\ history \in Seq(Appended) /\ Ids = {}
  BY EmptySeq DEF StreamInit, Ids
<1>2. PublisherInv
  BY EmptySeq DEF StreamInit, PublisherInv
<1>3. HistoryInv /\ SealInv
  BY <1>1 DEF HistoryInv, SealInv
<1>4. LogIsSuffix
  <2>1. log = {} /\ Cardinality(log) = 0 /\ Bytes(history, log) = 0
    BY FS_EmptySet DEF StreamInit, Bytes
  <2> QED
    BY <2>1, StreamAssumption DEF LogIsSuffix
<1>5. ServerInv
  <2>1. log = {} /\ counter = 0 /\ sealed = FALSE /\ life = 0 /\ 0 \in 0 .. MaxExpiries
    BY StreamAssumption DEF StreamInit
  <2>2. log \subseteq 1 .. Len(history) /\ counter \in Nat /\ sealed \in BOOLEAN
        /\ life \in 0 .. MaxExpiries
    BY <2>1
  <2> QED
    BY <1>1, <1>3, <1>4, <2>2 DEF ServerInv
<1>6. BrowserInv
  <2>1. Fresh \in Followers /\ Sound(Fresh)
    BY <1>1, FreshIs
  <2> QED
    BY <2>1, StreamAssumption DEF StreamInit, BrowserInv, ReplayInv
<1> QED
  BY <1>2, <1>5, <1>6, StreamInvIs

\* Every step keeps the invariant.
LEMMA StreamNextInv == StreamInv /\ [StreamNext]_streamVars => StreamInv'
<1> SUFFICES ASSUME StreamInv, [StreamNext]_streamVars PROVE StreamInv'
  OBVIOUS
<1>1. CASE StreamNext
  BY <1>1, PublisherStep, ServerStep, TabStep DEF StreamNext
<1>2. CASE UNCHANGED streamVars
  <2>1. UNCHANGED <<log, counter, sealed, history, life>> /\ UNCHANGED browser
    BY <1>2 DEF streamVars, server
  <2>2. ServerInv' /\ BrowserInv'
    BY <2>1, LogUntouched, FollowersStay
  <2>3. PublisherInv'
    BY <1>2, StreamInvIs DEF streamVars, server, PublisherInv
  <2> QED
    BY <2>2, <2>3, StreamInvStays
<1> QED
  BY <1>1, <1>2

-----------------------------------------------------------------------------
(* What is seen of the stream *)

\* A terminal event ends its life, and the log and the previews are as the invariant says.
LEMMA SoundFollows == StreamInv => ReplayIsSound
<1> SUFFICES ASSUME StreamInv PROVE ReplayIsSound
  OBVIOUS
<1>1. Len(history) \in Nat
  BY LenProperties DEF StreamInv, StreamTypeOK
<1>2. TerminalIsLast
  <2> SUFFICES ASSUME NEW i \in 1 .. Len(history) - 1, history[i].id \in Final
               PROVE  history[i + 1].life > history[i].life
    BY DEF TerminalIsLast
  <2>1. i \in Ids /\ i + 1 \in Ids /\ i < i + 1
    BY <1>1 DEF Ids
  <2>2. history[i].life < history[i + 1].life
    BY <2>1 DEF StreamInv, SealInv
  <2> QED
    BY <2>2
<1>3. PreviewIsGapless
  BY DEF StreamInv, ReplayInv, Sound, PreviewIsGapless
<1> QED
  BY <1>2, <1>3 DEF StreamInv, ReplayIsSound, LogIsSound

\* So it always holds.
LEMMA StreamAlways == StreamSpec => []StreamInv
BY StreamInitInv, StreamNextInv, PTL DEF StreamSpec

\* The fields keep their types: cursors and previews point to entries that were appended,
\* deliveries publish known events.
THEOREM StreamTypeCorrect == StreamSpec => []StreamTypeOK
<1>1. StreamInv => StreamTypeOK
  BY DEF StreamInv
<1> QED
  BY <1>1, StreamAlways, PTL

\* However deliveries overlap, whatever Redis loses, trims or forgets and whenever a tab
\* reads, the log is one unbroken end of what was appended, within both bounds, ended at most
\* once in a life, and every preview shows entries once, in order and without a hole.
THEOREM ReplayIsSoundAlways == StreamSpec => []ReplayIsSound
BY SoundFollows, StreamAlways, PTL

\* A removed recovery record stays removed and its progress never goes back, whoever still
\* checkpoints.
THEOREM RecordHoldsAlways == StreamSpec => RecordHolds
<1> DEFINE Holds ==
      /\ kept' => kept
      /\ kept' /\ stored.last # None /\ stored'.last # None => stored'.last >= stored.last
<1>1. ASSUME StreamInv, [StreamNext]_streamVars PROVE [Holds]_streamVars
  <2>1. stored \in Followers /\ \A t \in Tabs : tab[t] \in Followers
    BY <1>1 DEF StreamInv, StreamTypeOK
  <2>2. stored.last \in {None} \cup Nat /\ \A t \in Tabs : tab[t].last \in {None} \cup Nat
    BY <2>1 DEF Followers
  <2>3. CASE UNCHANGED <<stored, kept>>
    BY <2>2, <2>3
  <2>4. ASSUME NEW t \in Tabs, ReadStatus(t), Terminal PROVE Holds
    BY <2>4 DEF ReadStatus
  <2>5. ASSUME NEW t \in Tabs, Checkpoint(t) PROVE Holds
    <3>1. stored' = [tab[t] EXCEPT !.seen = {}] /\ kept' = kept
          /\ ~(stored.last # None /\ tab[t].last # None /\ tab[t].last < stored.last)
      BY <2>5 DEF Checkpoint
    <3>2. stored'.last = tab[t].last
      BY <2>1, <3>1 DEF Followers
    <3> QED
      BY <2>2, <3>1, <3>2
  <2>6. CASE \E d \in Deliveries : Begin(d) \/ Publish(d) \/ Conclude(d) \/ GiveUp(d)
    BY <2>3, <2>6 DEF Begin, Publish, Conclude, GiveUp, browser
  <2>7. CASE Cancel \/ Expire
    BY <2>3, <2>7 DEF Cancel, Expire, browser
  <2>8. ASSUME NEW t \in Tabs,
               Follow(t) \/ FetchFails(t) \/ Checkpoint(t) \/ Reload(t) \/ Restart(t)
        PROVE  Holds
    <3>1. ReadStatus(t) /\ ~Terminal => UNCHANGED <<stored, kept>>
      BY DEF ReadStatus
    <3>2. CheckCursor(t) \/ Fetch(t) \/ FetchFails(t) \/ Reload(t) \/ Restart(t)
            => UNCHANGED <<stored, kept>>
      BY DEF CheckCursor, Fetch, FetchFails, Reload, Restart
    <3>3. CASE UNCHANGED <<stored, kept>>
      BY <2>2, <3>3
    <3>4. CASE ReadStatus(t) /\ Terminal
      BY <2>4, <3>4
    <3>5. CASE Checkpoint(t)
      BY <2>5, <3>5
    <3> HIDE DEF Holds
    <3> QED
      BY <2>8, <3>1, <3>2, <3>3, <3>4, <3>5 DEF Follow
  <2>9. CASE UNCHANGED streamVars
    BY <2>9
  <2> QED
    BY <1>1, <2>6, <2>7, <2>8, <2>9 DEF StreamNext
<1>2. StreamInv /\ [StreamNext]_streamVars => [Holds]_streamVars
  BY <1>1
<1> QED
  BY <1>2, StreamAlways, PTL DEF StreamSpec, RecordHolds

-----------------------------------------------------------------------------
(* A stream that is never trimmed and never expires *)

\* All that deliveries publish fits, and the keys outlive the turn.
Units == UNION {{id} \X (1 .. BytesOf[id]) : id \in EventIds}
Roomy ==
  /\ MaxExpiries = 0
  /\ IsFiniteSet(EventIds) /\ Cardinality(EventIds) <= MaxEvents
  /\ IsFiniteSet(Units) /\ Cardinality(Units) <= MaxBytes

\* Then everything appended is kept, so no event id is appended twice.
Once == log = Ids /\ \A i, j \in Ids : i # j => history[i].id # history[j].id

\* Entries with different ids fit.
LEMMA EntriesFit ==
  ASSUME Roomy, NEW n \in Nat, NEW entries, \A c \in 1 .. n : entries[c].id \in EventIds,
         \A i, j \in 1 .. n : i # j => entries[i].id # entries[j].id
  PROVE  /\ n <= MaxEvents /\ Bytes(entries, 1 .. n) <= MaxBytes
<1> DEFINE S == 1 .. n
           U == UNION {{c} \X (1 .. BytesOf[entries[c].id]) : c \in S}
           f == [c \in S |-> entries[c].id]
           g == [u \in U |-> <<entries[u[1]].id, u[2]>>]
<1>1. MaxEvents \in Nat /\ MaxBytes \in Nat
  BY StreamAssumption
<1>2. f \in Injection(S, EventIds)
  BY DEF Injection, IsInjective
<1>3. IsFiniteSet(S) /\ Cardinality(S) = n /\ Cardinality(S) <= Cardinality(EventIds)
  <2>1. Cardinality(S) <= Cardinality(EventIds) /\ IsFiniteSet(S)
    <3> HIDE DEF f, S
    <3> QED BY <1>2, FS_Injection DEF Roomy
  <2> QED
    BY <2>1, FS_Interval
<1>4. Cardinality(EventIds) \in Nat /\ Cardinality(Units) \in Nat
  BY FS_CardinalityType DEF Roomy
<1>5. \A u \in U : u[1] \in S /\ u[2] \in 1 .. BytesOf[entries[u[1]].id] /\ u = <<u[1], u[2]>>
  OBVIOUS
<1>6. \A u \in U : <<entries[u[1]].id, u[2]>> \in Units
  BY <1>5 DEF Units
<1>7. \A u, v \in U : <<entries[u[1]].id, u[2]>> = <<entries[v[1]].id, v[2]>> => u = v
  <2> SUFFICES ASSUME NEW u \in U, NEW v \in U, entries[u[1]].id = entries[v[1]].id, u[2] = v[2]
               PROVE  u = v
    OBVIOUS
  <2>1. u[1] = v[1]
    BY <1>5
  <2> QED
    BY <1>5, <2>1
<1>8. g \in Injection(U, Units)
  <2> HIDE DEF U
  <2> QED BY <1>6, <1>7 DEF Injection, IsInjective
<1>9. IsFiniteSet(U) /\ Cardinality(U) <= Cardinality(Units) /\ Cardinality(U) \in Nat
  <2> HIDE DEF g, U
  <2> QED BY <1>8, FS_Injection, FS_CardinalityType DEF Roomy
<1>10. Bytes(entries, 1 .. n) = Cardinality(U)
  BY DEF Bytes
<1> HIDE DEF U, S
<1> QED
  BY <1>1, <1>3, <1>4, <1>9, <1>10 DEF Roomy

\* Entries that fit are not trimmed.
LEMMA NothingTrimmed ==
  ASSUME NEW n \in Nat, NEW entries, \A c \in 1 .. n : entries[c].id \in EventIds,
         n <= MaxEvents, Bytes(entries, 1 .. n) <= MaxBytes
  PROVE  TrimBytes(entries, TrimEvents(1 .. n)) = 1 .. n
<1> DEFINE S == 1 .. n
<1>1. MaxEvents \in Nat /\ MaxBytes \in Nat
  BY StreamAssumption
<1>2. IsFiniteSet(S) /\ Cardinality(S) = n
  BY FS_Interval
<1>3. ASSUME NEW c \in S PROVE Cardinality({d \in S : d > c}) < MaxEvents
  <2> DEFINE newer == {d \in S : d > c}
  <2>1. newer \in SUBSET (S \ {c})
    OBVIOUS
  <2>2. IsFiniteSet(S \ {c}) /\ Cardinality(S \ {c}) = n - 1
    <3> HIDE DEF S
    <3> QED BY <1>2, FS_RemoveElement
  <2>3. Cardinality(newer) <= n - 1 /\ Cardinality(newer) \in Nat
    <3> HIDE DEF newer, S
    <3> QED BY <2>1, <2>2, FS_Subset, FS_CardinalityType
  <2> HIDE DEF newer
  <2> QED
    <3>1. Cardinality(newer) < MaxEvents
      BY <1>1, <2>3
    <3> QED BY <3>1 DEF newer
<1>4. TrimEvents(S) = S
  BY <1>3 DEF TrimEvents
<1>5. ASSUME NEW final \in SUBSET S, NEW c \in S
      PROVE  Bytes(entries, {d \in S : d >= c} \cup final) <= MaxBytes
  <2> DEFINE from == {d \in S : d >= c} \cup final
  <2>1. from \in SUBSET S /\ S \subseteq 1 .. n
    OBVIOUS
  <2>2. Bytes(entries, from) \in Nat /\ Bytes(entries, S) \in Nat
        /\ Bytes(entries, from) <= Bytes(entries, S)
    <3> HIDE DEF from, S
    <3> QED BY <2>1, BytesAre
  <2> HIDE DEF from
  <2>3. Bytes(entries, from) <= MaxBytes
    BY <1>1, <2>2
  <2> QED
    BY <2>3 DEF from
<1>6. TrimBytes(entries, S) = S
  <2>1. {c \in S : entries[c].id \in Final} \in SUBSET S
    OBVIOUS
  <2> HIDE DEF S
  <2> QED
    BY <1>5, <2>1 DEF TrimBytes
<1> QED
  BY <1>4, <1>6

\* An id that no entry has is appended at most once.
LEMMA AppendOnce ==
  ASSUME Roomy, StreamTypeOK, Once, NEW id \in EventIds, AppendEntry(id), ~HasEntry(id)
  PROVE  Once'
<1> DEFINE n == Len(history)
<1>1. /\ n \in Nat /\ Len(history') = n + 1 /\ \A i \in 1 .. n : history'[i] = history[i]
      /\ \A i \in 1 .. n + 1 : history'[i].id \in EventIds
      /\ history'[n + 1].id = id
  <2>1. history'[n + 1] = [id |-> id, seq |-> counter, life |-> life]
    BY AppendIs
  <2>2. history'[n + 1].id = id
    BY <2>1
  <2> QED
    BY <2>2, AppendIs DEF Ids
<1>2. log' = TrimBytes(history', TrimEvents(log \cup {n + 1}))
  BY <1>1 DEF AppendEntry
<1>3. /\ log = 1 .. n /\ \A i, j \in 1 .. n : i # j => history[i].id # history[j].id
      /\ \A i \in 1 .. n : history[i].id # id
  BY DEF Once, Ids, HasEntry
<1> HIDE DEF n
<1>4. log \cup {n + 1} = 1 .. n + 1
  BY <1>1, <1>3
<1>5. ASSUME NEW i \in 1 .. n + 1, NEW j \in 1 .. n + 1, i # j
      PROVE  history'[i].id # history'[j].id
  <2>1. (i \in 1 .. n \/ i = n + 1) /\ (j \in 1 .. n \/ j = n + 1)
    BY <1>1
  <2> QED
    BY <1>1, <1>3, <1>5, <2>1
<1>6. n + 1 <= MaxEvents /\ Bytes(history', 1 .. n + 1) <= MaxBytes
  BY <1>1, <1>5, EntriesFit
<1>7. log' = 1 .. n + 1
  <2>1. n + 1 \in Nat
    BY <1>1
  <2>2. TrimBytes(history', TrimEvents(1 .. n + 1)) = 1 .. n + 1
    BY <1>1, <1>6, <2>1, NothingTrimmed
  <2> QED
    BY <1>2, <1>4, <2>2
<1> QED
  BY <1>1, <1>5, <1>7 DEF Once, Ids

\* Every step keeps what was appended, once each.
LEMMA OnceNext == Roomy /\ StreamInv /\ Once /\ [StreamNext]_streamVars => Once'
<1> SUFFICES ASSUME Roomy, StreamInv, Once, [StreamNext]_streamVars PROVE Once'
  OBVIOUS
<1>1. CASE UNCHANGED <<log, history>>
  BY <1>1 DEF Once, Ids
<1>2. ASSUME NEW d \in Deliveries, Publish(d) PROVE Once'
  <2>1. unsent[d] # <<>> /\ unsent[d] \in Seq(EventIds)
    BY <1>2 DEF Publish, StreamInv, StreamTypeOK
  <2>2. Head(unsent[d]) \in EventIds
    BY <2>1, HeadTailProperties
  <2>3. CASE UNCHANGED <<log, counter, sealed, history>>
    BY <1>1, <2>3
  <2>4. CASE AppendScript(Head(unsent[d]))
    BY <1>1, <2>2, <2>4, AppendOnce DEF AppendScript, StreamInv
  <2> QED
    BY <1>2, <2>3, <2>4 DEF Publish
<1>3. ASSUME NEW d \in Deliveries, Begin(d) \/ Conclude(d) \/ GiveUp(d) PROVE Once'
  BY <1>1, <1>3 DEF Begin, Conclude, GiveUp
<1>4. ~Expire
  BY DEF Roomy, Expire, StreamInv, StreamTypeOK
<1>5. CASE Cancel
  BY <1>1, <1>5 DEF Cancel
<1>6. ASSUME NEW t \in Tabs,
             Follow(t) \/ FetchFails(t) \/ Checkpoint(t) \/ Reload(t) \/ Restart(t)
      PROVE  Once'
  BY <1>1, <1>6 DEF Follow, ReadStatus, CheckCursor, Fetch, FetchFails, Checkpoint, Reload,
                    Restart, server
<1>7. CASE UNCHANGED streamVars
  BY <1>1, <1>7 DEF streamVars, server
<1> QED
  BY <1>2, <1>3, <1>4, <1>5, <1>6, <1>7 DEF StreamNext

\* While nothing is trimmed and the keys last, no chunk is shown twice, however often the
\* deliveries of the turn publish it.
THEOREM ChunksShownOnceAlways ==
  ASSUME Roomy
  PROVE  StreamSpec => []ChunksShownOnce
<1>1. StreamInit => Once
  <2> SUFFICES ASSUME StreamInit PROVE Once
    OBVIOUS
  <2>1. history = <<>> /\ Len(history) = 0 /\ log = {}
    BY EmptySeq DEF StreamInit
  <2> QED
    BY <2>1 DEF Once, Ids
<1>2. StreamInv /\ Once => ChunksShownOnce
  <2> SUFFICES ASSUME StreamInv, Once, NEW t \in Tabs,
                      NEW i \in 1 .. Len(tab[t].preview), NEW j \in 1 .. Len(tab[t].preview),
                      i # j
               PROVE  history[tab[t].preview[i]].id # history[tab[t].preview[j]].id
    BY DEF ChunksShownOnce
  <2>1. tab[t] \in Followers /\ Sound(tab[t]) /\ StreamTypeOK
    BY DEF StreamInv, StreamTypeOK, ReplayInv
  <2>2. /\ tab[t].preview[i] \in Ids /\ tab[t].preview[j] \in Ids /\ Len(tab[t].preview) \in Nat
        /\ Len(history) \in Nat
    BY <2>1, FollowerFields DEF Ids
  <2>3. tab[t].preview[i] # tab[t].preview[j]
    <3>1. i < j \/ j < i
      BY <2>2
    <3>2. tab[t].preview[i] < tab[t].preview[j] \/ tab[t].preview[j] < tab[t].preview[i]
      BY <2>1, <3>1 DEF Sound
    <3>3. tab[t].preview[i] \in Int /\ tab[t].preview[j] \in Int
      BY <2>2 DEF Ids
    <3> QED
      BY <3>2, <3>3
  <2> QED
    BY <2>2, <2>3 DEF Once
<1>3. StreamInv /\ Once /\ [StreamNext]_streamVars => Once'
  BY OnceNext
<1>4. StreamSpec => []StreamInv
  BY StreamAlways
<1> QED
  BY <1>1, <1>2, <1>3, <1>4, PTL DEF StreamSpec
=============================================================================
