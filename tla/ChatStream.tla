------------------------------ MODULE ChatStream ------------------------------
(***************************************************************************)
(* The replay stream of one chat turn.  Deliveries of the turn publish     *)
(* events with an atomic Redis script (idempotent, sealed by the first     *)
(* terminal event, bounded in events and bytes, forgotten after a TTL);    *)
(* browser tabs follow the turn by polling its durable status and, while   *)
(* the transport lasts, replaying the stream behind a cursor, and keep a   *)
(* checkpoint of their progress for the next page load.                    *)
(*                                                                         *)
(* An entry's cursor (the Redis stream id) is its position in history, the *)
(* sequence of all entries ever appended: ids only grow.  The stream and   *)
(* the shown preview are represented by the cursors of their entries.      *)
(***************************************************************************)
EXTENDS Integers, Sequences, FiniteSets, Functions

CONSTANTS
  Tabs,         \* browser tabs that follow the turn
  Chunks,       \* Chunks[d]: the text_delta event ids of delivery d
  BytesOf,      \* [EventIds -> 1 .. MaxBytes]: stored size of an event
  MaxEvents,    \* CHAT_STREAM_MAX_EVENTS
  MaxBytes,     \* CHAT_STREAM_MAX_BYTES
  PageLimit,    \* CHAT_TURN_REPLAY_PAGE_LIMIT
  MaxExpiries,  \* bound: how often the keys expire
  MaxReloads    \* bound: page loads and restarts of the loop

Deliveries == DOMAIN Chunks
Final == {"completed", "failed"}
EventIds == {"started"} \cup Final \cup UNION {Range(Chunks[d]) : d \in Deliveries}

\* append refuses an event larger than the bound.
ASSUME StreamAssumption ==
  /\ {MaxEvents, MaxBytes, PageLimit} \subseteq Nat \ {0}
  /\ {MaxExpiries, MaxReloads} \subseteq Nat
  /\ \A d \in Deliveries : Chunks[d] \in Seq(EventIds)
  /\ BytesOf \in [EventIds -> 1 .. MaxBytes]

VARIABLES
  verdict,   \* ChatTurn.status: "OPEN" or terminal
  stage,     \* [Deliveries -> {"idle", "generating", "closing", "over"}]
  unsent,    \* [Deliveries -> Seq(EventIds)]: what the delivery publishes next
  log,       \* KEYS[1], the stream: the cursors of the entries it holds
  counter,   \* KEYS[2]: the next sequence number
  sealed,    \* KEYS[3]: is the terminal marker set?
  history,   \* Seq([id, seq, life]): every entry ever appended
  life,      \* how often the keys have expired
  tab,       \* [Tabs -> Follower]
  rpc,       \* [Tabs -> {"status", "check", "fetch", "done"}]
  loaded,    \* [Tabs -> Follower]: the recovery record the page was loaded with
  stored,    \* the recovery record in IndexedDB
  kept,      \* is there such a record?
  reloads

server == <<verdict, stage, unsent, log, counter, sealed, history, life>>
browser == <<tab, rpc, loaded, stored, kept, reloads>>
streamVars == <<server, browser>>

Verdicts == {"SUCCEEDED", "FAILED", "CANCELLED"}
Terminal == verdict \in Verdicts

None == -1
Fresh == [cursor |-> 0, last |-> None, preview |-> <<>>, transport |-> "available", seen |-> {}]

StreamInit ==
  /\ verdict = "OPEN"
  /\ stage = [d \in Deliveries |-> "idle"]
  /\ unsent = [d \in Deliveries |-> <<>>]
  /\ log = {} /\ counter = 0 /\ sealed = FALSE
  /\ history = <<>> /\ life = 0
  /\ tab = [t \in Tabs |-> Fresh]
  /\ rpc = [t \in Tabs |-> "status"]
  /\ loaded = [t \in Tabs |-> Fresh]
  /\ stored = Fresh /\ kept = TRUE
  /\ reloads = 0

-----------------------------------------------------------------------------
(* APPEND_SCRIPT *)

Bytes(entries, held) ==
  Cardinality(UNION {{c} \X (1 .. BytesOf[entries[c].id]) : c \in held})

\* XTRIM MAXLEN, which spares nothing.
TrimEvents(held) == {c \in held : Cardinality({d \in held : d > c}) < MaxEvents}

\* Mutant of TrimBytes: the newest entries are dropped.
TrimBytesNewest(entries, held) ==
  LET final == {c \in held : entries[c].id \in Final}
      upTo(c) == {d \in held : d <= c} \cup final
  IN {c \in held : c \in final \/ Bytes(entries, upTo(c)) <= MaxBytes}

\* The oldest entries that are not terminal go until the bytes fit: one stays if it fits
\* together with all behind it and the terminal ones.
TrimBytes(entries, held) ==
  LET final == {c \in held : entries[c].id \in Final}
      from(c) == {d \in held : d >= c} \cup final
  IN {c \in held : c \in final \/ Bytes(entries, from(c)) <= MaxBytes}

HasEntry(id) == \E c \in log : history[c].id = id
HasFinal == \E c \in log : history[c].id \in Final

AppendEntry(id) ==
  LET entries == Append(history, [id |-> id, seq |-> counter, life |-> life])
  IN /\ history' = entries
     /\ log' = TrimBytes(entries, TrimEvents(log \cup {Len(entries)}))
     /\ counter' = counter + 1
     /\ sealed' = (id \in Final)

\* Mutant of AppendScript: no terminal check.
AppendUnsealed(id) ==
  IF HasEntry(id) THEN UNCHANGED <<log, counter, sealed, history>> ELSE AppendEntry(id)

\* Mutant of AppendScript: event ids are not compared.
AppendRepeated(id) ==
  IF HasFinal \/ sealed THEN UNCHANGED <<log, counter, sealed, history>> ELSE AppendEntry(id)

\* Nothing happens to a duplicate or conflicting event id, nor to a sealed
\* stream; the publisher ignores the answer.
AppendScript(id) ==
  IF HasEntry(id) \/ HasFinal \/ sealed
    THEN UNCHANGED <<log, counter, sealed, history>>
    ELSE AppendEntry(id)

\* The TTL ran out; each append had renewed it for the three keys together.
Expire ==
  /\ life < MaxExpiries /\ log # {}
  /\ log' = {} /\ counter' = 0 /\ sealed' = FALSE
  /\ life' = life + 1
  /\ UNCHANGED <<verdict, stage, unsent, history, browser>>

-----------------------------------------------------------------------------
(* The publishers: deliveries of the turn, which may overlap *)

\* Mutant of Announcement: any other verdict names its own event.
AnnouncementRaw(v) == IF v = "SUCCEEDED" THEN "completed" ELSE v

Announcement(v) == IF v = "SUCCEEDED" THEN "completed" ELSE "failed"

\* claim: a terminal turn is announced again, any other is started.
Begin(d) ==
  /\ stage[d] = "idle"
  /\ \A p \in Deliveries : p < d => stage[p] # "idle"
  /\ IF Terminal
       THEN /\ stage' = [stage EXCEPT ![d] = "closing"]
            /\ unsent' = [unsent EXCEPT ![d] = <<"started", Announcement(verdict)>>]
       ELSE /\ stage' = [stage EXCEPT ![d] = "generating"]
            /\ unsent' = [unsent EXCEPT ![d] = <<"started">> \o Chunks[d]]
  /\ UNCHANGED <<verdict, log, counter, sealed, history, life, browser>>

\* appendStreamEvent: an unavailable Redis loses the event.
Publish(d) ==
  /\ unsent[d] # <<>>
  /\ unsent' = [unsent EXCEPT ![d] = Tail(@)]
  /\ AppendScript(Head(unsent[d])) \/ UNCHANGED <<log, counter, sealed, history>>
  /\ UNCHANGED <<verdict, stage, life, browser>>

\* The delivery's transaction gives the turn its verdict, or finds that it has
\* one; a delivery that generated may still announce its own completion.  It fails
\* before its text, which is published when it is whole, or after it.
Conclude(d) ==
  /\ stage[d] = "generating" /\ unsent[d] \in {<<>>, Chunks[d]}
  /\ stage' = [stage EXCEPT ![d] = "closing"]
  /\ \/ /\ unsent[d] = <<>> /\ ~Terminal
        /\ verdict' = "SUCCEEDED"
        /\ unsent' = [unsent EXCEPT ![d] = <<"completed">>]
     \/ /\ ~Terminal
        /\ verdict' = "FAILED"
        /\ unsent' = [unsent EXCEPT ![d] = <<"failed">>]
     \/ /\ unsent[d] = <<>> /\ Terminal
        /\ unsent' = [unsent EXCEPT ![d] = <<"completed">>]
        /\ UNCHANGED verdict
     \/ /\ Terminal
        /\ unsent' = [unsent EXCEPT ![d] = <<"started", Announcement(verdict)>>]
        /\ UNCHANGED verdict
  /\ UNCHANGED <<log, counter, sealed, history, life, browser>>

\* The delivery throws and is retried later, or its process dies.
GiveUp(d) ==
  /\ stage[d] = "generating"
  /\ stage' = [stage EXCEPT ![d] = "over"]
  /\ unsent' = [unsent EXCEPT ![d] = <<>>]
  /\ UNCHANGED <<verdict, log, counter, sealed, history, life, browser>>

Cancel ==
  /\ ~Terminal
  /\ verdict' = "CANCELLED"
  /\ UNCHANGED <<stage, unsent, log, counter, sealed, history, life, browser>>

-----------------------------------------------------------------------------
(* followChatTurn *)

Step(t, next) == rpc' = [rpc EXCEPT ![t] = next]
StatusOnly(t) == tab' = [tab EXCEPT ![t].transport = "status_only"]

\* Mutant of ReadStatus: a tab without the stream stops asking.
ReadStatusByStream(t) ==
  /\ rpc[t] = "status"
  /\ tab[t].transport = "available"
  /\ IF Terminal
       THEN Step(t, "done") /\ stored' = Fresh /\ kept' = FALSE
       ELSE /\ Step(t, IF tab[t].cursor = 0 THEN "fetch" ELSE "check")
            /\ UNCHANGED <<stored, kept>>
  /\ UNCHANGED <<server, tab, loaded, reloads>>

\* getStatus: only the durable verdict ends the loop.  (A failing request is
\* retried.)  The recovery record is removed with it.
ReadStatus(t) ==
  /\ rpc[t] = "status"
  /\ IF Terminal
       THEN Step(t, "done") /\ stored' = Fresh /\ kept' = FALSE
       ELSE /\ tab[t].transport = "available"
            /\ Step(t, IF tab[t].cursor = 0 THEN "fetch" ELSE "check")
            /\ UNCHANGED <<stored, kept>>
  /\ UNCHANGED <<server, tab, loaded, reloads>>

\* ChatStreamStore.read, first XRANGE: the cursor must not have been trimmed.
CheckCursor(t) ==
  /\ rpc[t] = "check"
  /\ IF \A c \in log : tab[t].cursor < c
       THEN StatusOnly(t) /\ Step(t, "status")
       ELSE Step(t, "fetch") /\ UNCHANGED tab
  /\ UNCHANGED <<server, loaded, stored, kept, reloads>>

\* Second XRANGE: the entries behind the cursor, at most a page.
Page(cursor) ==
  LET behind == {c \in log : c > cursor}
  IN {c \in behind : Cardinality({d \in behind : d <= c}) <= PageLimit}

WellFormed(page) ==
  \A c, d \in page : c < d /\ (\A e \in page : e <= c \/ e >= d) =>
    history[d].seq = history[c].seq + 1

\* An event already seen is skipped; so is one whose number is old.  (No two entries of a
\* stream have the same event id.)
Skips(f, c) == history[c].id \in f.seen \/ (f.last # None /\ history[c].seq <= f.last)

\* Mutant of Breaks: a jump in the numbers is accepted.
BreaksNever(f, new, c) == FALSE

\* Something was applied before c, but not the number before c's.
Breaks(f, new, c) ==
  /\ f.last # None \/ \E d \in new : d < c
  /\ history[c].seq - 1 \notin {f.last} \cup {history[d].seq : d \in new}

InOrder(S) ==
  CHOOSE s \in [1 .. Cardinality(S) -> S] :
    Range(s) = S /\ \A i, j \in 1 .. Cardinality(S) : i < j => s[i] < s[j]

\* applyReplayPage: the follower after the page, or the reason to stop replaying: an entry
\* that does not connect.  What was applied before it stays marked as seen.
ApplyPage(f, page) ==
  LET new == {c \in page : ~Skips(f, c)}
      breaks == {c \in new : Breaks(f, new, c)}
      applied == {c \in new : \A b \in breaks : c < b}
      shown == InOrder(new)
      newest == shown[Cardinality(new)]
  IN CASE ~WellFormed(page) -> [f EXCEPT !.transport = "status_only"]
       [] WellFormed(page) /\ breaks # {} ->
            [f EXCEPT !.transport = "status_only", !.seen = @ \cup {history[c].id : c \in applied}]
       [] WellFormed(page) /\ breaks = {} /\ new = {} -> f
       [] OTHER -> [f EXCEPT !.cursor = newest, !.last = history[newest].seq,
                             !.preview = @ \o shown, !.seen = @ \cup {history[c].id : c \in new}]

Fetch(t) ==
  /\ rpc[t] = "fetch"
  /\ tab' = [tab EXCEPT ![t] = ApplyPage(@, Page(@.cursor))]
  /\ Step(t, "status")
  /\ UNCHANGED <<server, loaded, stored, kept, reloads>>

\* The events request fails (the same or the status-only transport follows) or
\* Redis is unavailable to the server.
FetchFails(t) ==
  /\ rpc[t] \in {"check", "fetch"}
  /\ StatusOnly(t) \/ UNCHANGED tab
  /\ Step(t, "status")
  /\ UNCHANGED <<server, loaded, stored, kept, reloads>>

\* Mutant of Checkpoint: progress that is behind is written too.
CheckpointAlways(t) ==
  /\ rpc[t] = "status"
  /\ kept
  /\ stored' = [tab[t] EXCEPT !.seen = {}]
  /\ UNCHANGED <<server, tab, rpc, loaded, kept, reloads>>

\* checkpoint, which onProgress calls after every round: progress that is behind
\* the record's is dropped, and a removed record stays removed.
Checkpoint(t) ==
  /\ rpc[t] = "status"
  /\ kept
  /\ ~(stored.last # None /\ tab[t].last # None /\ tab[t].last < stored.last)
  /\ stored' = [tab[t] EXCEPT !.seen = {}]
  /\ UNCHANGED <<server, tab, rpc, loaded, kept, reloads>>

\* The page is loaded again and follows the turn from the recovery record.
Reload(t) ==
  /\ reloads < MaxReloads
  /\ reloads' = reloads + 1
  /\ loaded' = [loaded EXCEPT ![t] = stored]
  /\ tab' = [tab EXCEPT ![t] = stored]
  /\ Step(t, IF kept THEN "status" ELSE "done")
  /\ UNCHANGED <<server, stored, kept>>

\* The effect runs again, with a new access token say: the loop starts over from
\* the record as it was when the page was loaded.
Restart(t) ==
  /\ reloads < MaxReloads
  /\ rpc[t] # "done"
  /\ reloads' = reloads + 1
  /\ tab' = [tab EXCEPT ![t] = loaded[t]]
  /\ Step(t, "status")
  /\ UNCHANGED <<server, loaded, stored, kept>>

Follow(t) == ReadStatus(t) \/ CheckCursor(t) \/ Fetch(t)

-----------------------------------------------------------------------------
StreamNext ==
  \/ \E d \in Deliveries : Begin(d) \/ Publish(d) \/ Conclude(d) \/ GiveUp(d)
  \/ Cancel \/ Expire
  \/ \E t \in Tabs : Follow(t) \/ FetchFails(t) \/ Checkpoint(t)
                   \/ Reload(t) \/ Restart(t)

StreamSpec == StreamInit /\ [][StreamNext]_streamVars

\* The loop of an open page keeps polling.
FairSpec == StreamSpec /\ \A t \in Tabs : WF_streamVars(Follow(t))

-----------------------------------------------------------------------------
Appended == [id : EventIds, seq : Nat, life : 0 .. MaxExpiries]
Followers ==
  [cursor : 0 .. Len(history), last : {None} \cup Nat, preview : Seq(1 .. Len(history)),
   transport : {"available", "status_only"}, seen : SUBSET EventIds]

StreamTypeOK ==
  /\ verdict \in {"OPEN"} \cup Verdicts
  /\ stage \in [Deliveries -> {"idle", "generating", "closing", "over"}]
  /\ unsent \in [Deliveries -> Seq(EventIds)]
  /\ history \in Seq(Appended) /\ log \subseteq 1 .. Len(history)
  /\ counter \in Nat /\ sealed \in BOOLEAN /\ life \in 0 .. MaxExpiries
  /\ rpc \in [Tabs -> {"status", "check", "fetch", "done"}]
  /\ tab \in [Tabs -> Followers] /\ loaded \in [Tabs -> Followers]
  /\ stored \in Followers /\ kept \in BOOLEAN
  /\ reloads \in 0 .. MaxReloads

\* What Redis keeps is the unbroken end of what was appended since the keys last
\* expired, newest entry included, within both bounds: trimming makes no hole.
LogIsSuffix ==
  /\ log # {} => Len(history) \in log /\ counter = history[Len(history)].seq + 1
  /\ \A c \in log : c .. Len(history) \subseteq log /\ history[c].life = life
  /\ \A c, d \in log : history[d].seq - history[c].seq = d - c
  /\ Cardinality(log) <= MaxEvents /\ Bytes(history, log) <= MaxBytes

\* A terminal event ends a life of the stream, however many deliveries publish.
TerminalIsLast ==
  \A i \in 1 .. Len(history) - 1 :
    history[i].id \in Final => history[i + 1].life > history[i].life

\* What a tab can read is one unbroken end of a story that ends at most once.
LogIsSound == LogIsSuffix /\ TerminalIsLast

\* Every preview, the stored one included, shows entries once, in the order they
\* were appended and without a hole, whatever was trimmed between two requests.
Gapless(f) ==
  \A i \in 1 .. Len(f.preview) - 1 :
    LET a == f.preview[i]
        b == f.preview[i + 1]
    IN a < b /\ (history[a].life = history[b].life => b = a + 1)
PreviewIsGapless == Gapless(stored) /\ \A t \in Tabs : Gapless(tab[t])

ReplayIsSound == LogIsSound /\ PreviewIsGapless

\* The record is never overwritten by older progress and never comes back once it
\* was removed, whoever still checkpoints.
RecordHolds ==
  [][/\ kept' => kept
     /\ kept' /\ stored.last # None /\ stored'.last # None => stored'.last >= stored.last]_streamVars

\* Every tab learns the verdict, with or without the stream.
FollowersFinish == \A t \in Tabs : Terminal ~> rpc[t] = "done"

\* A chunk of text is not shown twice.
ChunksShownOnce ==
  \A t \in Tabs : \A i, j \in 1 .. Len(tab[t].preview) :
    i # j => LET a == history[tab[t].preview[i]].id
                 b == history[tab[t].preview[j]].id
             IN a = b => a = "started"
=============================================================================
