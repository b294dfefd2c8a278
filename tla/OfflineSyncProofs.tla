--------------------------- MODULE OfflineSyncProofs ---------------------------
(***************************************************************************)
(* Theorems about reviews behind the offline queue, for every number of    *)
(* tabs, tasks, commands and faults: type correctness, that each rating    *)
(* counts once, for the due date it was made for, and that a rating the    *)
(* user was told is saved is not lost.                                     *)
(***************************************************************************)
EXTENDS OfflineSync, TLAPS

\* The card is due at the date its last review gave it.
DueByLastReview == card.due = Len(logs)

\* A rating under way at the server read a task that exists, due at the date the
\* card then had, and found no review of its number up to that date.
OpenSaw ==
  \A l \in Lines : call[l].at = "open" =>
    /\ call[l].kind = "rating"
    /\ tasks[call[l].key].status # "NONE"
    /\ tasks[call[l].key].due = call[l].seen.due
    /\ call[l].seen.due <= Len(logs)
    /\ \A k \in 1 .. call[l].seen.due : logs[k].n # Number(l)

\* The card never forgets what the old endpoint has yet to overwrite.
DirectSaw == direct.at = "open" => direct.seen.count <= card.count

Reviewed == DueByLastReview /\ OpenSaw /\ DirectSaw /\ ReviewsAgree

IInv == TypeOK /\ Reviewed

-----------------------------------------------------------------------------
(* Types *)

ItemStatuses == {"ready", "syncing", "waiting", "terminal"}

\* No item, no call and the idle page are of their types; the records they are not
\* are told from them by one field.
LEMMA Blanks ==
  /\ NoItem \in Items /\ NoCall \in Calls /\ Idle \in Savers
  /\ \A i \in Items : i.status # "none" => i \in Items \ {NoItem}
  /\ \A c \in Calls : c.at # "none" => c # NoCall
  /\ \A s \in Savers : s.at # "idle" => s # Idle
BY DEF Items, Calls, Savers, NoItem, NoCall, Idle

\* The number of a request is one of its commands.
LEMMA NumberType ==
  ASSUME call \in [Lines -> Calls], NEW l \in Lines, call[l].at # "none"
  PROVE  Number(l) \in call[l].cmds /\ Number(l) \in Ids
BY Blanks DEF Number, Calls, NoCall

\* What a command puts in the queue is an item of the kind and key asked for.
LEMMA NewItemType ==
  ASSUME TypeOK, NEW n \in Commands
  PROVE  NewItem(n) \in Items \ {NoItem} /\ n \in Ids
<1>1. n \in Ids /\ n \in DOMAIN asked
  BY SyncAssumption DEF TypeOK, Commands, Ids
<1>2. asked[n] \in Asks
  BY <1>1 DEF TypeOK
<1> QED
  BY <1>1, <1>2 DEF NewItem, Items, NoItem, Asks, Keyed

\* ... also when it is merged with one that was there.
LEMMA MergeType ==
  ASSUME TypeOK, NEW n \in Commands, NEW was \in Items
  PROVE  MergeMutationQueueItems(was, n) \in Items \ {NoItem}
<1>1. NewItem(n) \in Items \ {NoItem} /\ n \in Ids
  BY NewItemType
<1>2. CASE was.kind = "update" /\ asked[n].kind = "update"
  <2>1. was.cmds \cup {n} \in (SUBSET Ids) \ {{}}
    BY <1>1, <1>2 DEF Items, NoItem
  <2> QED
    BY <1>1, <1>2, <2>1 DEF MergeMutationQueueItems, Items, NoItem, Keyed, NewItem
<1>3. CASE ~(was.kind = "update" /\ asked[n].kind = "update")
  BY <1>1, <1>3 DEF MergeMutationQueueItems
<1> QED
  BY <1>2, <1>3

\* A change of status keeps the queue a queue, whether or not the item is there.
LEMMA SetStatusType ==
  ASSUME queue \in [Ids -> Items], NEW i \in Ids, NEW status \in ItemStatuses,
         SetStatus(i, status)
  PROVE  queue' \in [Ids -> Items]
<1>1. CASE Present(i)
  <2>1. [queue[i] EXCEPT !.status = status] \in Items
    BY <1>1 DEF Present, Items, NoItem, ItemStatuses, Keyed
  <2> QED
    BY <1>1, <2>1 DEF SetStatus
<1> QED
  BY <1>1 DEF SetStatus

LEMMA ApplyResultType ==
  ASSUME queue \in [Ids -> Items], NEW p, flush[p].cur \in Ids, NEW answer,
         ApplyResult(p, answer)
  PROVE  queue' \in [Ids -> Items]
<1>1. CASE queue' = [queue EXCEPT ![flush[p].cur] = NoItem]
  BY <1>1, Blanks
<1>2. CASE \E status \in {"waiting", "terminal"} : SetStatus(flush[p].cur, status)
  BY <1>2, SetStatusType DEF ItemStatuses
<1> QED
  BY <1>1, <1>2 DEF ApplyResult

\* A request that is under way keeps its kind and key whatever becomes of it.
LEMMA CallType ==
  ASSUME NEW c \in Calls, c.at # "none"
  PROVE  /\ \A at \in {"sent", "open"} \cup Answers : [c EXCEPT !.at = at] \in Calls
         /\ \A seen \in Cards : [c EXCEPT !.at = "open", !.seen = seen] \in Calls
<1> DEFINE Shape == [at : {"sent", "open"} \cup Answers, kind : {"rating", "update", "delete"},
                     key : Keys, cmds : (SUBSET Ids) \ {{}}, seen : Cards]
<1>1. c \in Shape /\ Keyed(c)
  BY DEF Calls, NoCall
<1>2. \A d \in Shape : d.kind = c.kind /\ d.key = c.key => d \in Calls
  BY <1>1 DEF Calls, Keyed
<1> HIDE DEF Shape
<1>3. ASSUME NEW at \in {"sent", "open"} \cup Answers
      PROVE  [c EXCEPT !.at = at] \in Calls
  <2>1. [c EXCEPT !.at = at] \in Shape
    BY <1>1 DEF Shape
  <2>2. [c EXCEPT !.at = at].kind = c.kind /\ [c EXCEPT !.at = at].key = c.key
    BY <1>1 DEF Shape
  <2> QED
    BY <1>2, <2>1, <2>2
<1>5. ASSUME NEW seen \in Cards
      PROVE  [c EXCEPT !.at = "open", !.seen = seen] \in Calls
  <2> DEFINE d == [c EXCEPT !.at = "open", !.seen = seen]
  <2>1. d \in Shape
    BY <1>1 DEF Shape
  <2>2. d.kind = c.kind /\ d.key = c.key
    BY <1>1 DEF Shape
  <2> QED
    BY <1>2, <2>1, <2>2
<1> QED
  BY <1>3, <1>5

\* A request for an ask or an item.
LEMMA SentType ==
  ASSUME NEW kind \in {"rating", "update", "delete"}, NEW key \in Keys,
         (kind = "rating") = (key \in Tasks), NEW cmds \in (SUBSET Ids) \ {{}}
  PROVE  [NoCall EXCEPT !.at = "sent", !.kind = kind, !.key = key, !.cmds = cmds] \in Calls
BY DEF Calls, NoCall, Keyed, Cards, NoCard

\* An answer is taken by the request that waits for it.
LEMMA AnswerType ==
  ASSUME call \in [Lines -> Calls], NEW l \in Lines, call[l].at # "none",
         NEW answer \in Answers, Answer(l, answer)
  PROVE  call' \in [Lines -> Calls]
BY Blanks, CallType DEF Answer

\* The lines of a tab, and of different tabs, are different, and it waits on none that
\* was left.
LEMMA LinesOfTabs ==
  /\ \A p \in Tabs : /\ {Save(p), Flush(p), Left(Save(p)), Left(Flush(p))} \subseteq Lines
                     /\ ~IsLeft(Save(p)) /\ ~IsLeft(Flush(p))
                     /\ IsLeft(Left(Save(p))) /\ IsLeft(Left(Flush(p)))
  /\ \A p, q \in Tabs : Save(p) # Flush(q) /\ (Flush(p) = Flush(q) => p = q)
  /\ \A l \in Lines : <<l[1], l[2], "kept">> \in Lines
BY DEF Save, Flush, Left, IsLeft, Lines

\* Every request is one that was there, perhaps on another line.
HandedOn == \A l \in Lines : call'[l] = NoCall \/ \E k \in Lines : call'[l] = call[k]

\* What a tab no longer waits for is handed to the line of what it left; the other tabs
\* go on waiting for what they sent.
LEMMA LeavingHandsOn ==
  ASSUME call \in [Lines -> Calls], NEW p \in Tabs,
         SaveDrops(p) \/ FlushDrops(p) \/ CloseTab(p)
  PROVE  /\ call' \in [Lines -> Calls] /\ HandedOn
         /\ \A q \in Tabs : q # p \/ SaveDrops(p) => call'[Flush(q)] = call[Flush(q)]
<1>1. ASSUME NEW l \in Lines, Leave(l)
      PROVE  /\ \A k \in Lines : call'[k] = IF k = Left(l) THEN call[l]
                                           ELSE IF k = l THEN NoCall ELSE call[k]
             /\ DOMAIN call' = Lines
  BY <1>1 DEF Leave
<1>2. CASE SaveDrops(p)
  <2>1. Leave(Save(p))
    BY <1>2 DEF SaveDrops
  <2>2. \A q \in Tabs : Flush(q) # Save(p) /\ Flush(q) # Left(Save(p))
    BY LinesOfTabs
  <2> QED
    BY <1>1, <2>1, <2>2, Blanks, LinesOfTabs DEF HandedOn, Leave
<1>3. CASE FlushDrops(p) /\ ~SaveDrops(p)
  <2>1. Leave(Flush(p))
    BY <1>3 DEF FlushDrops
  <2>2. \A q \in Tabs : q # p => Flush(q) # Flush(p) /\ Flush(q) # Left(Flush(p))
    BY LinesOfTabs
  <2> QED
    BY <1>1, <1>3, <2>1, <2>2, Blanks, LinesOfTabs DEF HandedOn, Leave
<1>4. CASE CloseTab(p) /\ ~SaveDrops(p)
  <2>1. \A l \in Lines : \/ call'[l] \in {NoCall, call[l]}
                        \/ call'[l] = call[<<l[1], l[2], "kept">>]
    BY <1>4 DEF CloseTab
  <2>2. \A q \in Tabs : q # p => call'[Flush(q)] = call[Flush(q)]
    <3>1. ASSUME NEW q \in Tabs, q # p, NEW k \in {Save(p), Flush(p)}
          PROVE  Flush(q) # k /\ Flush(q) # Left(k)
      BY <3>1, LinesOfTabs
    <3> QED
      BY <1>4, <3>1, LinesOfTabs DEF CloseTab
  <2>3. HandedOn
    BY <2>1, LinesOfTabs DEF HandedOn
  <2>4. call' = [l \in Lines |-> call'[l]]
    BY <1>4 DEF CloseTab
  <2>5. \A l \in Lines : call'[l] \in Calls
    BY <2>3, Blanks DEF HandedOn
  <2>6. call' \in [Lines -> Calls]
    BY <2>4, <2>5
  <2> QED
    BY <1>4, <2>2, <2>3, <2>6
<1> QED
  BY <1>2, <1>3, <1>4

\* Every step keeps the state of its type.
LEMMA StepTypeOK == TypeOK /\ DirectSaw /\ [Next]_vars => TypeOK'
<1> SUFFICES ASSUME TypeOK, DirectSaw, [Next]_vars PROVE TypeOK'
  OBVIOUS
<1> USE SyncAssumption
<1>1. ASSUME NEW p \in Tabs, NEW kind \in {"rating", "update", "delete"}, NEW key \in Keys,
             (kind = "rating") = (key \in Tasks), Ask(p, kind, key)
      PROVE  TypeOK'
  <2>1. Save(p) \in Lines /\ Len(asked) + 1 \in Ids /\ Len(asked) \in Nat
    BY <1>1 DEF Ask, TypeOK, Ids, Lines, Save
  <2>2. asked' \in Seq(Asks) /\ Len(asked') = Len(asked) + 1
    BY <1>1 DEF Ask, TypeOK, Asks, Keyed
  <2>3. call' \in [Lines -> Calls]
    <3>1. [NoCall EXCEPT !.at = "sent", !.kind = kind, !.key = key, !.cmds = {Len(asked) + 1}]
            \in Calls
      BY <1>1, <2>1, SentType
    <3> QED
      BY <1>1, <2>1, <3>1 DEF Ask, TypeOK
  <2>4. /\ saver' \in [Tabs -> Savers]
        /\ \A q \in Tabs : saver'[q].n \in 1 .. Len(asked') \cup {0}
    <3>1. [Idle EXCEPT !.at = "calling", !.n = Len(asked) + 1] \in Savers
      BY <2>1, Blanks DEF Savers, Idle
    <3>2. [Idle EXCEPT !.at = "calling", !.n = Len(asked) + 1].n = Len(asked) + 1
      BY DEF Idle
    <3> QED
      BY <1>1, <2>1, <2>2, <3>1, <3>2 DEF Ask, TypeOK, Commands
  <2> QED
    BY <1>1, <2>1, <2>2, <2>3, <2>4
       DEF Ask, TypeOK, Commands, Ids, records, server, reviews, old
<1>2. ASSUME NEW p \in Tabs, SaveAnswer(p) PROVE TypeOK'
  <2>1. Save(p) \in Lines
    BY DEF Lines, Save
  <2>2. /\ saver' \in [Tabs -> Savers]
        /\ \A q \in Tabs : saver'[q].n \in Commands \cup {0}
    BY <1>2, Blanks DEF SaveAnswer, TypeOK, Idle
  <2>3. call' \in [Lines -> Calls]
    BY <1>2, <2>1, Blanks DEF SaveAnswer, TypeOK
  <2> QED
    BY <1>2, <2>2, <2>3 DEF SaveAnswer, TypeOK, Commands, records, server, reviews, old
<1>3. ASSUME NEW p \in Tabs, FindByDedupeKey(p) PROVE TypeOK'
  <2>1. Save(p) \in Lines
    BY DEF Lines, Save
  <2>2. saver[p] \in Savers \ {Idle}
    <3>1. saver[p].at # "idle"
      BY <1>3 DEF FindByDedupeKey
    <3> QED
      BY <3>1, Blanks DEF TypeOK
  <2>3. /\ [saver[p] EXCEPT !.at = "putting"] \in Savers
        /\ [saver[p] EXCEPT !.at = "putting"].n = saver[p].n
    BY <2>2 DEF Savers
  <2>4. ASSUME NEW i \in Ids
        PROVE  /\ [saver[p] EXCEPT !.at = "putting", !.found = i, !.was = queue[i]] \in Savers
               /\ [saver[p] EXCEPT !.at = "putting", !.found = i, !.was = queue[i]].n
                    = saver[p].n
    <3>1. queue[i] \in Items
      BY DEF TypeOK
    <3> QED
      BY <2>2, <3>1 DEF Savers
  <2>5. /\ saver' \in [Tabs -> Savers]
        /\ \A q \in Tabs : saver'[q].n \in Commands \cup {0}
    <3>1. CASE saver' = [saver EXCEPT ![p].at = "putting"]
      BY <2>3, <3>1 DEF TypeOK
    <3>2. ASSUME NEW i \in Ids,
                 saver' = [saver EXCEPT ![p].at = "putting", ![p].found = i, ![p].was = queue[i]]
          PROVE  <2>5!1 /\ <2>5!2
      BY <2>4, <3>2 DEF TypeOK
    <3> QED
      BY <1>3, <3>1, <3>2 DEF FindByDedupeKey, Queued
  <2>6. call' \in [Lines -> Calls]
    BY <1>3, <2>1, Blanks DEF FindByDedupeKey, TypeOK
  <2> QED
    BY <1>3, <2>5, <2>6 DEF FindByDedupeKey, TypeOK, Commands, records, server, reviews, old
<1>4. ASSUME NEW p \in Tabs, PutItem(p) PROVE TypeOK'
  <2> DEFINE i == IF saver[p].found = 0 THEN saver[p].n ELSE saver[p].found
  <2>1. saver[p] \in Savers \ {Idle} /\ saver[p].n \in Commands
    BY <1>4 DEF PutItem, TypeOK, Idle, Savers, Ids
  <2>2. saver[p].n \in Ids /\ saver[p].was \in Items /\ i \in Ids
    BY <2>1 DEF Savers
  <2>3. queue' \in [Ids -> Items]
    <3>1. MergeMutationQueueItems(saver[p].was, saver[p].n) \in Items
      BY <2>1, <2>2, MergeType
    <3> QED
      BY <1>4, <2>2, <3>1 DEF PutItem, TypeOK
  <2>4. replaced' \in SUBSET Ids /\ told' \in SUBSET Ids
    <3>1. queue[i].cmds \in SUBSET Ids
      BY <2>2 DEF TypeOK, Items, NoItem
    <3> QED
      BY <1>4, <2>2, <3>1 DEF PutItem, TypeOK
  <2>5. /\ saver' \in [Tabs -> Savers]
        /\ \A q \in Tabs : saver'[q].n \in Commands \cup {0}
    BY <1>4, Blanks DEF PutItem, TypeOK, Idle
  <2> QED
    BY <1>4, <2>3, <2>4, <2>5 DEF PutItem, TypeOK, Commands, server, reviews, old
<1>5. ASSUME NEW p \in Tabs, ReadQueue(p) PROVE TypeOK'
  <2>1. \A i \in Ids : queue[i].status = "ready" => queue[i] \in Items \ {NoItem}
    BY Blanks DEF TypeOK
  <2>2. flush' \in [Tabs -> Flushes]
    <3> DEFINE todo == {[id |-> i, item |-> queue[i]] : i \in {i \in Ids : queue[i].status = "ready"}}
    <3>1. todo \in SUBSET [id : Ids, item : Items \ {NoItem}]
      BY <2>1
    <3>2. flush' = [flush EXCEPT ![p].todo = todo]
      BY <1>5 DEF ReadQueue
    <3>3. flush \in [Tabs -> Flushes] /\ flush[p].cur \in Ids \cup {0}
      BY DEF TypeOK, Flushes
    <3>4. [flush[p] EXCEPT !.todo = todo] \in Flushes
      <4> HIDE DEF todo
      <4> QED
        BY <3>1, <3>3 DEF Flushes
    <3> HIDE DEF todo
    <3> QED
      BY <3>2, <3>3, <3>4
  <2> QED
    BY <1>5, <2>2 DEF ReadQueue, TypeOK, Commands, records, server, reviews, old
<1>6. ASSUME NEW p \in Tabs, SendItem(p) PROVE TypeOK'
  <2>1. PICK x \in flush[p].todo : SendItem(p)!2!(x)
    BY <1>6 DEF SendItem
  <2>2. x \in [id : Ids, item : Items \ {NoItem}] /\ Flush(p) \in Lines
    BY DEF TypeOK, Flushes, Lines, Flush
  <2>3. flush' \in [Tabs -> Flushes]
    BY <2>1, <2>2 DEF TypeOK, Flushes
  <2>4. queue' \in [Ids -> Items]
    BY <2>1, <2>2, SetStatusType DEF TypeOK, ItemStatuses
  <2>5. call' \in [Lines -> Calls]
    <3>1. /\ x.item.kind \in {"rating", "update", "delete"} /\ x.item.key \in Keys
          /\ (x.item.kind = "rating") = (x.item.key \in Tasks)
          /\ x.item.cmds \in (SUBSET Ids) \ {{}}
      BY <2>2 DEF Items, Keyed
    <3>2. [NoCall EXCEPT !.at = "sent", !.kind = x.item.kind, !.key = x.item.key,
                         !.cmds = x.item.cmds] \in Calls
      BY <3>1, SentType
    <3> QED
      BY <2>1, <2>2, <3>2 DEF TypeOK
  <2> QED
    BY <1>6, <2>3, <2>4, <2>5 DEF SendItem, TypeOK, Commands, records, server, reviews, old
<1>7. ASSUME NEW p \in Tabs, FlushAnswer(p) PROVE TypeOK'
  <2>1. Flush(p) \in Lines /\ flush[p].cur \in Ids
    BY <1>7 DEF FlushAnswer, TypeOK, Flushes, Lines, Flush
  <2>2. queue' \in [Ids -> Items]
    BY <1>7, <2>1, ApplyResultType DEF FlushAnswer, TypeOK
  <2>3. call' \in [Lines -> Calls]
    BY <1>7, <2>1, Blanks DEF FlushAnswer, TypeOK
  <2>4. flush' \in [Tabs -> Flushes]
    <3>1. [flush[p] EXCEPT !.cur = 0] \in Flushes
      <4>1. flush[p] \in Flushes
        BY DEF TypeOK
      <4> QED
        BY <4>1 DEF Flushes
    <3> QED
      BY <1>7, <3>1 DEF FlushAnswer, TypeOK
  <2> QED
    BY <1>7, <2>2, <2>3, <2>4
       DEF FlushAnswer, TypeOK, Commands, records, server, reviews, old
<1>8. ASSUME RetryTimePasses PROVE TypeOK'
  <2>1. PICK i \in Ids : RetryTimePasses!1!(i)
    BY <1>8 DEF RetryTimePasses
  <2>2. queue' \in [Ids -> Items]
    BY <2>1, SetStatusType DEF SetStatus, Present, TypeOK, ItemStatuses
  <2> QED
    BY <1>8, <2>2 DEF RetryTimePasses, TypeOK, Commands, records, server, reviews, old
<1>9. ASSUME RequestsFail PROVE TypeOK'
  <2>1. call' \in [Lines -> Calls]
    <3>1. \A l \in Lines : call[l].at = "sent" => [call[l] EXCEPT !.at = "retry"] \in Calls
      BY CallType DEF TypeOK, Answers
    <3> QED
      BY <1>9, <3>1 DEF RequestsFail, TypeOK
  <2> QED
    BY <1>9, <2>1
       DEF RequestsFail, Fault, TypeOK, Commands, browser, records, server, reviews, old
<1>10. ASSUME NEW l \in Lines, Unauthorized(l) PROVE TypeOK'
  <2>1. call' \in [Lines -> Calls]
    BY <1>10, CallType DEF Unauthorized, TypeOK, Answers
  <2> QED
    BY <1>10, <2>1
       DEF Unauthorized, Fault, TypeOK, Commands, browser, records, server, reviews, old
<1>11. ASSUME NEW p \in Tabs, SaveDrops(p) PROVE TypeOK'
  <2>2. call' \in [Lines -> Calls]
    BY <1>11, LeavingHandsOn DEF TypeOK
  <2>3. saver[p] \in Savers \ {Idle}
    <3>1. saver[p].at # "idle"
      BY <1>11 DEF SaveDrops
    <3> QED
      BY <3>1, Blanks DEF TypeOK
  <2>4. /\ [saver[p] EXCEPT !.at = "failed"] \in Savers
        /\ [saver[p] EXCEPT !.at = "failed"].n = saver[p].n
    BY <2>3 DEF Savers
  <2>5. /\ saver' \in [Tabs -> Savers]
        /\ \A q \in Tabs : saver'[q].n \in Commands \cup {0}
    BY <1>11, <2>4 DEF SaveDrops, TypeOK
  <2> QED
    BY <1>11, <2>2, <2>5 DEF SaveDrops, Fault, TypeOK, Commands, records, server, reviews, old
<1>12. ASSUME NEW p \in Tabs, FlushDrops(p) PROVE TypeOK'
  <2>1. Flush(p) \in Lines /\ flush[p].cur \in Ids
    BY <1>12 DEF FlushDrops, TypeOK, Flushes, Lines, Flush
  <2>2. queue' \in [Ids -> Items]
    BY <1>12, <2>1, ApplyResultType DEF FlushDrops, TypeOK
  <2>3. call' \in [Lines -> Calls]
    BY <1>12, LeavingHandsOn DEF TypeOK
  <2>4. flush' \in [Tabs -> Flushes]
    <3>1. [flush[p] EXCEPT !.cur = 0] \in Flushes
      <4>1. flush[p] \in Flushes
        BY DEF TypeOK
      <4> QED
        BY <4>1 DEF Flushes
    <3> QED
      BY <1>12, <3>1 DEF FlushDrops, TypeOK
  <2> QED
    BY <1>12, <2>2, <2>3, <2>4
       DEF FlushDrops, Fault, TypeOK, Commands, records, server, reviews, old
<1>13. ASSUME NEW p \in Tabs, CloseTab(p) PROVE TypeOK'
  <2>1. call' \in [Lines -> Calls]
    BY <1>13, LeavingHandsOn DEF TypeOK
  <2>2. flush' \in [Tabs -> Flushes]
    BY <1>13 DEF CloseTab, TypeOK, Flushes
  <2>3. /\ saver' \in [Tabs -> Savers]
        /\ \A q \in Tabs : saver'[q].n \in Commands \cup {0}
    BY <1>13, Blanks DEF CloseTab, TypeOK, Idle
  <2>4. abandoned' \in SUBSET Ids
    BY <1>13 DEF CloseTab, TypeOK, Flushes
  <2> QED
    BY <1>13, <2>1, <2>2, <2>3, <2>4
       DEF CloseTab, Fault, TypeOK, Commands, server, reviews, old
<1>14. ASSUME NEW l \in Lines, ReadForRating(l) PROVE TypeOK'
  <2>1. call' \in [Lines -> Calls]
    <3>1. CASE Answer(l, "ok") \/ Answer(l, "refused")
      BY <1>14, <3>1, AnswerType DEF ReadForRating, TypeOK, Answers
    <3>2. CASE call' = [call EXCEPT ![l].at = "open", ![l].seen = card]
      BY <1>14, <3>2, CallType DEF ReadForRating, TypeOK
    <3> QED
      BY <1>14, <3>1, <3>2 DEF ReadForRating
  <2> QED
    BY <1>14, <2>1
       DEF ReadForRating, ServerOnly, TypeOK, Commands, browser, records, reviews, old
<1>15. ASSUME NEW l \in Lines, CommitRating(l) PROVE TypeOK'
  <2>1. call[l] \in Calls \ {NoCall} /\ Number(l) \in Ids
    <3>1. call[l].at # "none"
      BY <1>15 DEF CommitRating
    <3> QED
      BY <3>1, NumberType, Blanks DEF TypeOK
  <2>2. call' \in [Lines -> Calls]
    BY <1>15, AnswerType DEF CommitRating, TypeOK, Answers
  <2>3. card' \in Cards /\ Len(logs) + 1 \in Nat
    <3>1. call[l].seen.count + 1 \in Nat
      BY <2>1 DEF Calls, Cards
    <3>2. card \in Cards /\ logs \in Seq(LogRows)
      BY DEF TypeOK
    <3>3. Len(logs) + 1 \in Nat
      BY <3>2
    <3> QED
      BY <1>15, <3>1, <3>2, <3>3 DEF CommitRating, Cards, reviews
  <2>4. logs' \in Seq(LogRows)
    <3> DEFINE row == [n |-> Number(l), task |-> call[l].key]
    <3>1. row \in LogRows
      BY <2>1 DEF Calls, LogRows
    <3>2. logs' = logs \/ logs' = Append(logs, row)
      BY <1>15 DEF CommitRating, reviews
    <3>3. logs \in Seq(LogRows)
      BY DEF TypeOK
    <3> HIDE DEF row
    <3> QED
      BY <3>1, <3>2, <3>3
  <2>5. tasks' \in [Tasks -> TaskRows]
    <3>1. \A u \in Tasks : /\ [tasks[u] EXCEPT !.status = "COMPLETED", !.log = Len(logs) + 1]
                               \in TaskRows
                          /\ [tasks[u] EXCEPT !.status = "CANCELLED"] \in TaskRows
      BY <2>3 DEF TypeOK, TaskRows
    <3>2. CASE CompleteTask(call[l].key)
      BY <3>1, <3>2 DEF CompleteTask, TypeOK
    <3> QED
      BY <1>15, <3>2 DEF CommitRating, TypeOK, reviews
  <2> QED
    BY <1>15, <2>2, <2>3, <2>4, <2>5
       DEF CommitRating, ServerOnly, TypeOK, Commands, browser, records, old
<1>16. ASSUME NEW l \in Lines, UpdateQuestion(l) \/ DeleteQuestion(l) PROVE TypeOK'
  <2>1. call' \in [Lines -> Calls]
    BY <1>16, AnswerType DEF UpdateQuestion, DeleteQuestion, TypeOK, Answers
  <2>2. call[l].cmds \in SUBSET Ids
    BY DEF TypeOK, Calls, NoCall
  <2>3. question' \in [exists : BOOLEAN, applied : SUBSET Ids]
    <3>1. /\ [question EXCEPT !.applied = @ \cup call[l].cmds]
               \in [exists : BOOLEAN, applied : SUBSET Ids]
          /\ [question EXCEPT !.exists = FALSE] \in [exists : BOOLEAN, applied : SUBSET Ids]
      BY <2>2 DEF TypeOK
    <3> QED
      BY <1>16, <3>1 DEF UpdateQuestion, DeleteQuestion, TypeOK
  <2> QED
    BY <1>16, <2>1, <2>3
       DEF UpdateQuestion, DeleteQuestion, ServerOnly, TypeOK, Commands, browser, records,
           reviews, old
<1>17. ASSUME NEW t \in Tasks, Skip(t) \/ Reopen(t) \/ CreateTask(t) PROVE TypeOK'
  <2>1. tasks' \in [Tasks -> TaskRows]
    <3>1. /\ [tasks[t] EXCEPT !.status = "SKIPPED"] \in TaskRows
          /\ [tasks[t] EXCEPT !.status = "PENDING"] \in TaskRows
          /\ [tasks[t] EXCEPT !.status = "PENDING", !.due = listing.due] \in TaskRows
      BY DEF TypeOK, TaskRows
    <3> QED
      BY <1>17, <3>1 DEF Skip, Reopen, CreateTask, TypeOK
  <2> QED
    BY <1>17, <2>1
       DEF Skip, Reopen, CreateTask, TypeOK, Commands, browser, records, reviews, old
<1>18. ASSUME ReadDueCards PROVE TypeOK'
  BY <1>18 DEF ReadDueCards, TypeOK, Cards, Commands, browser, records, reviews, old
<1>19. ASSUME DirectRead PROVE TypeOK'
  BY <1>19 DEF DirectRead, TypeOK, Commands, browser, records, reviews
<1>20. ASSUME DirectWrite PROVE TypeOK'
  <2>0. /\ direct \in [at : {"idle", "open"}, seen : Cards, done : Nat]
        /\ card \in Cards /\ lost \in Nat /\ logs \in Seq(LogRows)
    BY DEF TypeOK
  <2>1. card' \in Cards
    <3>1. direct.seen.count + 1 \in Nat /\ Len(logs) + 1 \in Nat
      BY <2>0 DEF Cards
    <3>2. card' = [count |-> direct.seen.count + 1, due |-> Len(logs) + 1]
      BY <1>20 DEF DirectWrite
    <3> QED
      BY <3>1, <3>2 DEF Cards
  <2>2. logs' \in Seq(LogRows)
    <3>1. [n |-> 0, task |-> Question] \in LogRows
      BY DEF Keys, LogRows
    <3>2. logs' = Append(logs, [n |-> 0, task |-> Question])
      BY <1>20 DEF DirectWrite
    <3> QED
      BY <2>0, <3>1, <3>2
  <2>3. lost' \in Nat
    BY <1>20, <2>0 DEF DirectWrite, DirectSaw, Cards
  <2>4. direct' \in [at : {"idle", "open"}, seen : Cards, done : Nat]
    BY <1>20, <2>0 DEF DirectWrite, Cards, NoCard
  <2> QED
    BY <1>20, <2>1, <2>2, <2>3, <2>4 DEF DirectWrite, TypeOK, Commands, browser, records
<1>21. CASE UNCHANGED vars
  BY <1>21 DEF vars, TypeOK, Commands, browser, records, server, reviews, old
<1>22. ASSUME NEW p \in Tabs, NEW t \in Tasks, Ask(p, "rating", t) PROVE TypeOK'
  BY <1>1, <1>22 DEF Keys
<1>23. ASSUME NEW p \in Tabs, NEW kind \in {"update", "delete"}, Ask(p, kind, Question)
       PROVE  TypeOK'
  BY <1>1, <1>23 DEF Keys
<1> QED
  BY <1>2, <1>3, <1>4, <1>5, <1>6, <1>7, <1>8, <1>9, <1>10, <1>11, <1>12, <1>13, <1>14, <1>15,
     <1>16, <1>17, <1>18, <1>19, <1>20, <1>21, <1>22, <1>23
     DEF Next, Saver, Flusher, Serve

-----------------------------------------------------------------------------
(* Reviews *)

\* No request starts to rate, and those that do keep what they read.
OpensNothing ==
  \A l \in Lines : call'[l].at = "open" => \E k \in Lines : call'[l] = call[k]

\* Tasks appear, and go between pending and skipped; none is completed.
TasksMove ==
  \A t \in Tasks :
    /\ (tasks'[t].status = "COMPLETED") = (tasks[t].status = "COMPLETED")
    /\ tasks'[t].log = tasks[t].log
    /\ tasks[t].status # "NONE" => tasks'[t].status # "NONE" /\ tasks'[t].due = tasks[t].due

\* A step that reviews nothing and opens nothing keeps what holds of reviews.
LEMMA ReviewedKept ==
  ASSUME TypeOK, Reviewed, OpensNothing, TasksMove, UNCHANGED <<card, logs, old>>
  PROVE  Reviewed'
<1>1. DueByLastReview' /\ DirectSaw' /\ CardCountsReviews'
  BY DEF Reviewed, ReviewsAgree, DueByLastReview, DirectSaw, CardCountsReviews, old
<1>2. OpenSaw'
  <2> SUFFICES ASSUME NEW l \in Lines, call'[l].at = "open"
               PROVE  /\ call'[l].kind = "rating"
                      /\ tasks'[call'[l].key].status # "NONE"
                      /\ tasks'[call'[l].key].due = call'[l].seen.due
                      /\ call'[l].seen.due <= Len(logs')
                      /\ \A k \in 1 .. call'[l].seen.due : logs'[k].n # Number(l)'
    BY DEF OpenSaw
  <2>1. PICK k \in Lines : call'[l] = call[k]
    BY DEF OpensNothing
  <2>2. Number(l)' = Number(k)
    BY <2>1 DEF Number
  <2>3. call[k].key \in Tasks
    BY <2>1 DEF TypeOK, Calls, NoCall, Keyed, Reviewed, OpenSaw
  <2> QED
    BY <2>1, <2>2, <2>3 DEF Reviewed, OpenSaw, TasksMove
<1>3. RatedOnce'
  BY DEF Reviewed, ReviewsAgree, RatedOnce, TasksMove
<1>4. OneReviewPerDueDate'
  BY DEF Reviewed, ReviewsAgree, OneReviewPerDueDate, TasksMove
<1> QED
  BY <1>1, <1>2, <1>3, <1>4 DEF Reviewed, ReviewsAgree

\* Requests that go on, wherever, or become something else than open.
LEMMA HandedOnOpensNothing == HandedOn => OpensNothing
BY DEF HandedOn, OpensNothing, NoCall

\* An answer opens nothing.
LEMMA AnswerOpensNothing ==
  ASSUME TypeOK, NEW l \in Lines, NEW answer \in Answers, Answer(l, answer)
  PROVE  OpensNothing
BY DEF TypeOK, Answer, OpensNothing, Answers, NoCall

\* A rating that is read for sees what it must: the task is for the card's date and
\* no review has its number.
LEMMA ReadForRatingReviewed ==
  ASSUME IInv, NEW l \in Lines, ReadForRating(l)
  PROVE  Reviewed'
<1>1. UNCHANGED <<card, logs, tasks, old>>
  BY DEF ReadForRating, ServerOnly, reviews
<1>2. TasksMove
  BY <1>1 DEF TasksMove
<1>3. CASE Answer(l, "ok") \/ Answer(l, "refused")
  BY <1>1, <1>2, <1>3, AnswerOpensNothing, ReviewedKept DEF IInv, Answers
<1>4. CASE /\ ~Logged(Number(l)) /\ Ratable(call[l].key)
           /\ call' = [call EXCEPT ![l].at = "open", ![l].seen = card]
  <2>1. DueByLastReview' /\ DirectSaw' /\ ReviewsAgree'
    BY <1>1 DEF IInv, Reviewed, DueByLastReview, DirectSaw, ReviewsAgree, RatedOnce,
                CardCountsReviews, OneReviewPerDueDate, old
  <2>2. OpenSaw'
    <3> SUFFICES ASSUME NEW m \in Lines, call'[m].at = "open"
                 PROVE  /\ call'[m].kind = "rating"
                        /\ tasks[call'[m].key].status # "NONE"
                        /\ tasks[call'[m].key].due = call'[m].seen.due
                        /\ call'[m].seen.due <= Len(logs)
                        /\ \A k \in 1 .. call'[m].seen.due : logs[k].n # Number(m)'
      BY <1>1 DEF OpenSaw
    <3>1. CASE m # l
      <4>1. call'[m] = call[m]
        BY <1>4, <3>1 DEF IInv, TypeOK
      <4>2. Number(m)' = Number(m)
        BY <4>1 DEF Number
      <4> QED
        BY <4>1, <4>2 DEF IInv, Reviewed, OpenSaw
    <3>2. CASE m = l
      <4>1. /\ call'[l].kind = call[l].kind /\ call'[l].key = call[l].key
            /\ call'[l].cmds = call[l].cmds /\ call'[l].seen = card
        BY <1>4 DEF IInv, TypeOK, Calls, NoCall
      <4>2. Number(l)' = Number(l)
        BY <4>1 DEF Number
      <4>3. call[l].kind = "rating"
        BY DEF ReadForRating
      <4>4. card.due = Len(logs) /\ Len(logs) \in Nat
        BY DEF IInv, TypeOK, Reviewed, DueByLastReview
      <4>5. tasks[call[l].key].status = "PENDING" /\ tasks[call[l].key].due = card.due
        BY <1>4 DEF Ratable, Current
      <4>6. \A k \in 1 .. card.due : logs[k].n # Number(l)
        BY <1>4, <4>4 DEF Logged, IInv, TypeOK
      <4> QED
        BY <3>2, <4>1, <4>2, <4>3, <4>4, <4>5, <4>6
    <3> QED
      BY <3>1, <3>2
  <2> QED
    BY <2>1, <2>2 DEF Reviewed
<1> QED
  BY <1>3, <1>4 DEF ReadForRating

\* A rating that commits is the first review since the date its task was due for: the
\* card is as it was read, so nothing was logged since.
LEMMA CommitRatingReviewed ==
  ASSUME IInv, NEW l \in Lines, CommitRating(l)
  PROVE  Reviewed'
<1> DEFINE t == call[l].key
           n == Number(l)
<1>1. /\ call[l].at = "open" /\ call[l].kind = "rating" /\ t \in Tasks
      /\ call[l].seen \in Cards /\ n \in Ids
  <2>1. call[l].at = "open" /\ call[l].kind = "rating"
    BY DEF CommitRating, IInv, Reviewed, OpenSaw
  <2>2. t \in Tasks /\ call[l].seen \in Cards
    BY <2>1 DEF IInv, TypeOK, Calls, NoCall, Keyed
  <2>3. n \in Ids
    BY <2>1, NumberType DEF IInv, TypeOK
  <2> QED
    BY <2>1, <2>2, <2>3
<1>2. UNCHANGED old
  BY DEF CommitRating, ServerOnly
<1>3. OpensNothing
  <2>1. \E answer \in Answers : Answer(l, answer)
    BY DEF CommitRating, Answers
  <2> QED
    BY <2>1, AnswerOpensNothing DEF IInv
<1>4. CASE UNCHANGED reviews
  <2>1. TasksMove
    BY <1>4 DEF TasksMove, reviews
  <2> QED
    BY <1>2, <1>3, <1>4, <2>1, ReviewedKept DEF IInv, reviews
<1>5. CASE /\ CardAsRead(l) /\ tasks[t].status = "PENDING"
           /\ card' = [count |-> call[l].seen.count + 1, due |-> Len(logs) + 1]
           /\ logs' = Append(logs, [n |-> n, task |-> t])
           /\ CompleteTask(t)
  <2>1. /\ card = call[l].seen /\ card.due = Len(logs) /\ Len(logs) \in Nat
        /\ tasks[t].due = Len(logs) /\ \A k \in 1 .. Len(logs) : logs[k].n # n
    BY <1>1, <1>5 DEF CardAsRead, IInv, TypeOK, Reviewed, OpenSaw, DueByLastReview
  <2>2. /\ Len(logs') = Len(logs) + 1
        /\ \A k \in 1 .. Len(logs) : logs'[k] = logs[k]
        /\ logs'[Len(logs) + 1] = [n |-> n, task |-> t]
        /\ DOMAIN logs' = 1 .. Len(logs) + 1 /\ DOMAIN logs = 1 .. Len(logs)
    <3> DEFINE row == [n |-> n, task |-> t]
    <3>1. logs \in Seq(LogRows)
      BY DEF IInv, TypeOK
    <3>2. row \in LogRows
      BY <1>1 DEF LogRows, Keys
    <3>3. logs' = Append(logs, row)
      BY <1>5
    <3> HIDE DEF row
    <3>4. /\ Len(logs') = Len(logs) + 1
          /\ \A k \in 1 .. Len(logs) : logs'[k] = logs[k]
          /\ logs'[Len(logs) + 1] = row
          /\ DOMAIN logs' = 1 .. Len(logs) + 1 /\ DOMAIN logs = 1 .. Len(logs)
      BY <3>1, <3>2, <3>3
    <3> QED
      BY <3>4 DEF row
  <2>0. \A u \in Tasks :
          tasks[u] = [status |-> tasks[u].status, due |-> tasks[u].due, log |-> tasks[u].log]
    BY DEF IInv, TypeOK, TaskRows
  <2>10. \A u \in Tasks : tasks'[u] =
          IF u = t THEN [tasks[u] EXCEPT !.status = "COMPLETED", !.log = Len(logs) + 1]
          ELSE IF tasks[u].status \in {"PENDING", "SKIPPED"}
            THEN [tasks[u] EXCEPT !.status = "CANCELLED"]
          ELSE tasks[u]
    BY <1>5 DEF CompleteTask
  <2>3. \A u \in Tasks :
          /\ tasks'[u].due = tasks[u].due
          /\ u # t => /\ tasks'[u].log = tasks[u].log
                      /\ (tasks'[u].status = "COMPLETED") = (tasks[u].status = "COMPLETED")
          /\ tasks[u].status # "NONE" => tasks'[u].status # "NONE"
    BY <2>0, <2>10
  <2>4. tasks'[t].status = "COMPLETED" /\ tasks'[t].log = Len(logs) + 1
    BY <1>1, <2>0, <2>10
  <2>5. DueByLastReview'
    BY <1>5, <2>2 DEF DueByLastReview
  <2>6. DirectSaw'
    <3>1. card.count \in Nat /\ card'.count = card.count + 1
      BY <1>5, <2>1 DEF IInv, TypeOK, Cards
    <3>2. direct' = direct /\ DirectSaw
      BY <1>2 DEF old, IInv, Reviewed
    <3>3. direct.seen.count \in Nat
      BY DEF IInv, TypeOK, Cards
    <3> QED
      BY <3>1, <3>2, <3>3 DEF DirectSaw
  <2>7. CardCountsReviews'
    BY <1>2, <1>5, <2>1, <2>2
       DEF CardCountsReviews, IInv, Reviewed, ReviewsAgree, TypeOK, Cards, old
  <2>8. OneReviewPerDueDate'
    BY <2>1, <2>3, <2>4 DEF OneReviewPerDueDate, IInv, Reviewed, ReviewsAgree
  <2>9. RatedOnce'
    <3>1. ASSUME NEW u \in Tasks
          PROVE  {k \in DOMAIN logs' : logs'[k].task = u}
                   = IF tasks'[u].status = "COMPLETED" THEN {tasks'[u].log} ELSE {}
      <4> DEFINE of == {k \in DOMAIN logs : logs[k].task = u}
      <4>1. of = IF tasks[u].status = "COMPLETED" THEN {tasks[u].log} ELSE {}
        BY DEF IInv, Reviewed, ReviewsAgree, RatedOnce
      <4>2. {k \in DOMAIN logs' : logs'[k].task = u}
              = IF u = t THEN of \cup {Len(logs) + 1} ELSE of
        BY <2>1, <2>2
      <4> HIDE DEF of
      <4> QED
        BY <1>5, <2>3, <2>4, <4>1, <4>2
    <3>2. \A j, k \in DOMAIN logs : logs[j].n = logs[k].n /\ logs[j].n # 0 => j = k
      BY DEF IInv, Reviewed, ReviewsAgree, RatedOnce
    <3>3. \A j, k \in DOMAIN logs' : logs'[j].n = logs'[k].n /\ logs'[j].n # 0 => j = k
      BY <2>1, <2>2, <3>2
    <3> QED
      BY <3>1, <3>3 DEF RatedOnce
  <2>11. OpenSaw'
    <3> SUFFICES ASSUME NEW m \in Lines, call'[m].at = "open"
                 PROVE  /\ call'[m].kind = "rating"
                        /\ tasks'[call'[m].key].status # "NONE"
                        /\ tasks'[call'[m].key].due = call'[m].seen.due
                        /\ call'[m].seen.due <= Len(logs')
                        /\ \A k \in 1 .. call'[m].seen.due : logs'[k].n # Number(m)'
      BY DEF OpenSaw
    <3>1. PICK k \in Lines : call'[m] = call[k]
      BY <1>3 DEF OpensNothing
    <3>2. Number(m)' = Number(k)
      BY <3>1 DEF Number
    <3>3. call[k].key \in Tasks /\ call[k].seen.due \in Nat
      BY <3>1 DEF IInv, TypeOK, Calls, NoCall, Keyed, Cards, Reviewed, OpenSaw
    <3>4. /\ call[k].kind = "rating" /\ tasks[call[k].key].status # "NONE"
          /\ tasks[call[k].key].due = call[k].seen.due /\ call[k].seen.due <= Len(logs)
          /\ \A j \in 1 .. call[k].seen.due : logs[j].n # Number(k)
      BY <3>1 DEF IInv, Reviewed, OpenSaw
    <3> QED
      BY <2>1, <2>2, <2>3, <3>1, <3>2, <3>3, <3>4
  <2> QED
    BY <2>5, <2>6, <2>7, <2>8, <2>9, <2>11 DEF Reviewed, ReviewsAgree
<1> QED
  BY <1>4, <1>5 DEF CommitRating

\* The old endpoint writes over what the card counted since it read: that many
\* reviews are lost from it, and none else.
LEMMA DirectWriteReviewed ==
  ASSUME IInv, DirectWrite
  PROVE  Reviewed'
<1> DEFINE row == [n |-> 0, task |-> Question]
<1>1. logs \in Seq(LogRows) /\ row \in LogRows /\ logs' = Append(logs, row)
  BY DEF IInv, TypeOK, LogRows, Keys, DirectWrite
<1>2. row.n = 0 /\ row.task = Question
  OBVIOUS
<1> HIDE DEF row
<1>3. /\ Len(logs') = Len(logs) + 1 /\ Len(logs) \in Nat
      /\ \A k \in 1 .. Len(logs) : logs'[k] = logs[k]
      /\ logs'[Len(logs) + 1] = row
      /\ DOMAIN logs' = 1 .. Len(logs) + 1 /\ DOMAIN logs = 1 .. Len(logs)
  BY <1>1
<1>4. DueByLastReview'
  BY <1>3 DEF DirectWrite, DueByLastReview
<1>5. DirectSaw'
  BY DEF DirectWrite, DirectSaw
<1>6. CardCountsReviews'
  <2>1. card.count \in Nat /\ direct.seen.count \in Nat /\ lost \in Nat
    BY DEF IInv, TypeOK, Cards
  <2>2. card'.count = direct.seen.count + 1 /\ lost' = lost + (card.count - direct.seen.count)
    BY DEF DirectWrite
  <2>3. card.count + lost = Len(logs)
    BY DEF IInv, Reviewed, ReviewsAgree, CardCountsReviews
  <2> QED
    BY <1>3, <2>1, <2>2, <2>3 DEF CardCountsReviews
<1>7. OneReviewPerDueDate'
  BY DEF DirectWrite, OneReviewPerDueDate, IInv, Reviewed, ReviewsAgree
<1>8. RatedOnce'
  <2>1. ASSUME NEW u \in Tasks
        PROVE  {k \in DOMAIN logs' : logs'[k].task = u} = {k \in DOMAIN logs : logs[k].task = u}
    BY <1>2, <1>3, SyncAssumption
  <2>2. \A j, k \in DOMAIN logs' : logs'[j].n = logs'[k].n /\ logs'[j].n # 0 => j = k
    BY <1>2, <1>3 DEF IInv, Reviewed, ReviewsAgree, RatedOnce
  <2> QED
    BY <2>1, <2>2 DEF DirectWrite, IInv, Reviewed, ReviewsAgree, RatedOnce
<1>9. OpenSaw'
  <2>1. UNCHANGED <<call, tasks>>
    BY DEF DirectWrite
  <2>2. \A l \in Lines : Number(l)' = Number(l)
    BY <2>1 DEF Number
  <2>3. \A l \in Lines : call[l].seen.due \in Nat
    BY DEF IInv, TypeOK, Calls, NoCall, Cards, NoCard
  <2> QED
    BY <1>3, <2>1, <2>2, <2>3 DEF OpenSaw, IInv, Reviewed
<1> QED
  BY <1>4, <1>5, <1>6, <1>7, <1>8, <1>9 DEF Reviewed, ReviewsAgree

-----------------------------------------------------------------------------
(* The theorems *)

\* The initial state satisfies the inductive invariant.
LEMMA InitIInv == Init => IInv
<1> SUFFICES ASSUME Init PROVE IInv
  OBVIOUS
<1> USE SyncAssumption
<1>1. TypeOK
  BY Blanks DEF Init, TypeOK, Commands, NoCard, Cards, Flushes, TaskRows, LogRows, Idle
<1>2. Reviewed
  BY DEF Init, Reviewed, DueByLastReview, OpenSaw, DirectSaw, ReviewsAgree, RatedOnce,
         CardCountsReviews, OneReviewPerDueDate, NoCard, NoCall
<1> QED
  BY <1>1, <1>2 DEF IInv

\* Every step keeps what holds of reviews.
LEMMA StepReviewed == IInv /\ [Next]_vars => Reviewed'
<1> SUFFICES ASSUME IInv, [Next]_vars PROVE Reviewed'
  OBVIOUS
<1>1. CASE OpensNothing /\ UNCHANGED <<reviews, old>>
  <2>1. TasksMove /\ UNCHANGED <<card, logs>>
    BY <1>1 DEF TasksMove, reviews
  <2> QED
    BY <1>1, <2>1, ReviewedKept DEF IInv
<1>2. ASSUME NEW p \in Tabs, NEW kind, NEW key, Ask(p, kind, key) PROVE Reviewed'
  <2>1. \A cmds : [NoCall EXCEPT !.at = "sent", !.kind = kind, !.key = key, !.cmds = cmds].at
                   = "sent"
    BY DEF NoCall
  <2>2. OpensNothing
    BY <1>2, <2>1 DEF Ask, IInv, TypeOK, OpensNothing
  <2> QED
    BY <1>1, <1>2, <2>2 DEF Ask, server
<1>3. ASSUME NEW p \in Tabs, Saver(p) PROVE Reviewed'
  <2>1. call' = call \/ call' = [call EXCEPT ![Save(p)] = NoCall]
    BY <1>3 DEF Saver, SaveAnswer, FindByDedupeKey, PutItem
  <2>2. HandedOn
    BY <2>1 DEF HandedOn, IInv, TypeOK
  <2> QED
    BY <1>1, <1>3, <2>2, HandedOnOpensNothing
       DEF Saver, SaveAnswer, FindByDedupeKey, PutItem, server
<1>4. ASSUME NEW p \in Tabs, Flusher(p) \/ ReadQueue(p) PROVE Reviewed'
  <2>1. OpensNothing
    <3>1. CASE FlushAnswer(p) \/ ReadQueue(p)
      <4>1. HandedOn
        BY <3>1 DEF FlushAnswer, ReadQueue, HandedOn, IInv, TypeOK
      <4> QED
        BY <4>1, HandedOnOpensNothing
    <3>2. CASE SendItem(p)
      <4>1. \A kind, key, cmds : [NoCall EXCEPT !.at = "sent", !.kind = kind, !.key = key,
                                               !.cmds = cmds].at # "open"
        BY DEF NoCall
      <4>2. \A l \in Lines : call'[l] = call[l] \/ call'[l].at # "open"
        BY <3>2, <4>1 DEF SendItem, IInv, TypeOK
      <4> QED
        BY <4>2 DEF OpensNothing
    <3> QED
      BY <1>4, <3>1, <3>2 DEF Flusher
  <2>2. UNCHANGED server
    BY <1>4 DEF Flusher, SendItem, FlushAnswer, ReadQueue
  <2> QED
    BY <1>1, <2>1, <2>2 DEF server
<1>5. ASSUME NEW p \in Tabs, SaveDrops(p) \/ FlushDrops(p) \/ CloseTab(p) PROVE Reviewed'
  <2>1. OpensNothing
    BY <1>5, LeavingHandsOn, HandedOnOpensNothing DEF IInv, TypeOK
  <2>2. UNCHANGED server
    BY <1>5 DEF SaveDrops, FlushDrops, CloseTab
  <2> QED
    BY <1>1, <2>1, <2>2 DEF server
<1>6. ASSUME RequestsFail PROVE Reviewed'
  BY <1>1, <1>6 DEF RequestsFail, OpensNothing, server, IInv, TypeOK
<1>7. ASSUME NEW l \in Lines, Unauthorized(l) PROVE Reviewed'
  BY <1>1, <1>7 DEF Unauthorized, OpensNothing, server, IInv, TypeOK
<1>8. ASSUME NEW l \in Lines, UpdateQuestion(l) \/ DeleteQuestion(l) PROVE Reviewed'
  <2>1. \E answer \in Answers : Answer(l, answer)
    BY <1>8 DEF UpdateQuestion, DeleteQuestion, Answers
  <2> QED
    BY <1>1, <1>8, <2>1, AnswerOpensNothing
       DEF UpdateQuestion, DeleteQuestion, ServerOnly, IInv
<1>9. CASE RetryTimePasses \/ UNCHANGED vars
  BY <1>1, <1>9 DEF RetryTimePasses, OpensNothing, vars, server
<1>10. ASSUME NEW t \in Tasks, Skip(t) \/ Reopen(t) \/ CreateTask(t) PROVE Reviewed'
  <2>1. OpensNothing
    BY <1>10 DEF Skip, Reopen, CreateTask, OpensNothing
  <2>2. TasksMove
    <3>1. \A u \in Tasks : tasks[u] \in TaskRows
      BY DEF IInv, TypeOK
    <3>2. /\ \A u \in Tasks \ {t} : tasks'[u] = tasks[u]
          /\ tasks'[t].log = tasks[t].log
          /\ tasks'[t].status \in {"PENDING", "SKIPPED"}
          /\ tasks[t].status \in {"NONE", "PENDING", "SKIPPED"}
          /\ tasks[t].status # "NONE" => tasks'[t].due = tasks[t].due
      <4>1. CASE Skip(t)
        BY <3>1, <4>1 DEF Skip, IInv, TypeOK, TaskRows
      <4>2. CASE Reopen(t)
        BY <3>1, <4>2 DEF Reopen, IInv, TypeOK, TaskRows
      <4>3. CASE CreateTask(t)
        BY <3>1, <4>3 DEF CreateTask, IInv, TypeOK, TaskRows
      <4> QED
        BY <1>10, <4>1, <4>2, <4>3
    <3> QED
      BY <3>2 DEF TasksMove
  <2> QED
    BY <1>10, <2>1, <2>2, ReviewedKept DEF Skip, Reopen, CreateTask, IInv
<1>11. CASE ReadDueCards
  BY <1>1, <1>11 DEF ReadDueCards, OpensNothing
<1>12. CASE DirectRead
  <2>1. UNCHANGED <<call, reviews, lost>> /\ direct'.seen = card
    BY <1>12 DEF DirectRead, IInv, TypeOK
  <2>2. DirectSaw'
    BY <2>1 DEF DirectSaw, reviews, IInv, TypeOK, Cards
  <2>3. OpenSaw'
    BY <2>1 DEF OpenSaw, Number, reviews, IInv, Reviewed
  <2> QED
    BY <2>1, <2>2, <2>3
       DEF IInv, Reviewed, DueByLastReview, ReviewsAgree, RatedOnce, CardCountsReviews,
           OneReviewPerDueDate, reviews
<1> QED
  BY <1>2, <1>3, <1>4, <1>5, <1>6, <1>7, <1>8, <1>9, <1>10, <1>11, <1>12,
     ReadForRatingReviewed, CommitRatingReviewed, DirectWriteReviewed
     DEF Next, Serve

\* Every step preserves the inductive invariant.
LEMMA StepIInv == IInv /\ [Next]_vars => IInv'
BY StepTypeOK, StepReviewed DEF IInv, Reviewed

LEMMA Invariance == Spec => []IInv
BY InitIInv, StepIInv, PTL DEF Spec

\* The queue, the requests under way and the server's rows are of their types: a
\* rating is always of a task and an edit of the question.
THEOREM TypeCorrect == Spec => []TypeOK
<1>1. IInv => TypeOK
  BY DEF IInv
<1> QED
  BY <1>1, Invariance, PTL

\* However often ratings are queued, merged, sent again and answered late, from any
\* number of tabs and beside the old endpoint, a task is completed by one review, no
\* rating reviews twice, the card counts every review of a task, and none is made for
\* a date that another review has moved.
THEOREM ReviewsAlwaysAgree == Spec => []ReviewsAgree
<1>1. IInv => ReviewsAgree
  BY DEF IInv, Reviewed
<1> QED
  BY <1>1, Invariance, PTL

-----------------------------------------------------------------------------
(* What the user was told is saved *)

\* Commands that are all about one key.
About(cmds, key) == \A n \in cmds : n \in Commands /\ asked[n].key = key

\* What is queued, saved, sent and logged is of the key its commands were asked for.
QueueAbout == \A i \in Ids : Present(i) => About(queue[i].cmds \cup {i}, queue[i].key)
SaverAbout(p) ==
  saver[p].at # "idle" =>
    /\ About(saver[p].was.cmds, asked[saver[p].n].key)
    /\ saver[p].found # 0 => About({saver[p].found}, asked[saver[p].n].key)
SaversAbout == \A p \in Tabs : SaverAbout(p)
FlushAbout(p) ==
  /\ \A x \in flush[p].todo : About(x.item.cmds \cup {x.id}, x.item.key)
  /\ flush[p].cur # 0 => /\ About({flush[p].cur}, call[Flush(p)].key)
                         /\ call[Flush(p)].at # "none"
FlushesAbout == \A p \in Tabs : FlushAbout(p)
CallsAbout == \A l \in Lines : About(call[l].cmds, call[l].key)
LogsAbout == \A k \in DOMAIN logs : logs[k].n # 0 => About({logs[k].n}, logs[k].task)

WorkAbout ==
  /\ QueueAbout /\ SaversAbout /\ FlushesAbout /\ CallsAbout /\ LogsAbout
  /\ told \subseteq Commands

\* A rating is answered with success once its task is completed.
AnsweredWhenDone ==
  \A l \in Lines : call[l].kind = "rating" /\ call[l].at = "ok" =>
    tasks[call[l].key].status = "COMPLETED"

RInv == WorkAbout /\ AnsweredWhenDone /\ RatingsKept

\* Commands are asked, never changed.
AskedGrows == Commands \subseteq Commands' /\ \A n \in Commands : asked'[n] = asked[n]

\* What is logged and completed stays so.
ReviewsStay ==
  /\ \A n \in Ids : Logged(n) => Logged(n)'
  /\ \A t \in Tasks : tasks[t].status = "COMPLETED" => tasks'[t].status = "COMPLETED"

SameRequest(l) ==
  call'[l].kind = call[l].kind /\ call'[l].key = call[l].key /\ call'[l].cmds = call[l].cmds

\* Requests end, begin, or go on, perhaps on the line of what was left; a rating
\* succeeds with its task completed.
RequestsGoOn ==
  \A l \in Lines :
    \/ call'[l].at # "ok" /\ About(call[l].cmds, call[l].key)'
    \/ \E k \in Lines : call'[l] = call[k]
    \/ /\ SameRequest(l)
       /\ call'[l].at = "ok" /\ call[l].kind = "rating" =>
            call[l].at = "ok" \/ tasks'[call[l].key].status = "COMPLETED"

\* Flushes begin, end, or go on with what they read.
FlushesGoOn ==
  \A p \in Tabs :
    \/ FlushAbout(p)'
    \/ /\ flush'[p].todo \subseteq flush[p].todo
       /\ flush'[p].cur # 0 => /\ flush'[p].cur = flush[p].cur /\ SameRequest(Flush(p))
                               /\ call'[Flush(p)].at # "none"

\* So do pages.
SaversGoOn ==
  \A p \in Tabs :
    \/ SaverAbout(p)'
    \/ /\ saver[p].at # "idle" /\ saver'[p].n = saver[p].n
       /\ saver'[p].found = saver[p].found /\ saver'[p].was = saver[p].was

\* Items stay as they are but for their status, or go.
ItemsGoOn ==
  \A i \in Ids : queue'[i].status # "none" =>
    Present(i) /\ queue'[i].key = queue[i].key /\ queue'[i].cmds = queue[i].cmds

\* Items stay.
ItemsStay == \A i \in Ids : queue'[i].cmds = queue[i].cmds

LEMMA AskedStays == ASSUME asked' = asked PROVE AskedGrows
BY DEF AskedGrows, Commands

LEMMA QueueAboutKept ==
  ASSUME QueueAbout, AskedGrows, ItemsGoOn
  PROVE  QueueAbout'
BY DEF QueueAbout, ItemsGoOn, AskedGrows, About, Present

LEMMA SaversAboutKept ==
  ASSUME TypeOK, SaversAbout, AskedGrows, SaversGoOn
  PROVE  SaversAbout'
<1> SUFFICES ASSUME NEW p \in Tabs, saver[p].at # "idle", saver'[p].n = saver[p].n,
                    saver'[p].found = saver[p].found, saver'[p].was = saver[p].was
             PROVE  SaverAbout(p)'
  BY DEF SaversAbout, SaversGoOn
<1>1. saver[p].n \in Commands
  BY Blanks, SyncAssumption DEF TypeOK, Savers, Idle, Ids
<1>2. asked'[saver[p].n] = asked[saver[p].n]
  BY <1>1 DEF AskedGrows
<1> QED
  BY <1>2 DEF SaversAbout, SaverAbout, About, AskedGrows

LEMMA FlushesAboutKept ==
  ASSUME FlushesAbout, AskedGrows, FlushesGoOn
  PROVE  FlushesAbout'
BY DEF FlushesAbout, FlushAbout, FlushesGoOn, SameRequest, About, AskedGrows

LEMMA CallsAboutKept ==
  ASSUME CallsAbout, AskedGrows, RequestsGoOn
  PROVE  CallsAbout'
BY DEF CallsAbout, RequestsGoOn, SameRequest, About, AskedGrows

LEMMA LogsAboutKept ==
  ASSUME LogsAbout, AskedGrows, logs' = logs
  PROVE  LogsAbout'
BY DEF LogsAbout, About, AskedGrows

\* A success stays one, for the task stays completed.
LEMMA AnsweredKept ==
  ASSUME TypeOK, AnsweredWhenDone, RequestsGoOn, ReviewsStay
  PROVE  AnsweredWhenDone'
<1> SUFFICES ASSUME NEW l \in Lines, call'[l].kind = "rating", call'[l].at = "ok"
             PROVE  tasks'[call'[l].key].status = "COMPLETED"
  BY DEF AnsweredWhenDone
<1>1. PICK k \in Lines :
        /\ call'[l].kind = call[k].kind /\ call'[l].key = call[k].key
        /\ call[k].at = "ok" \/ tasks'[call[k].key].status = "COMPLETED"
  BY DEF RequestsGoOn, SameRequest
<1>2. call[k].key \in Tasks
  BY <1>1 DEF TypeOK, Calls, NoCall, Keyed
<1> QED
  BY <1>1, <1>2 DEF AnsweredWhenDone, ReviewsStay

\* A rating that is known to be saved stays so if its item does.
LEMMA RatingsStayKept ==
  ASSUME TypeOK, told \subseteq Commands, RatingsKept, AskedGrows, told' = told,
         replaced \subseteq replaced', ReviewsStay,
         \A i \in Ids : \A n \in queue[i].cmds : n \in told /\ asked[n].kind = "rating" =>
           \/ \E j \in Ids : n \in queue'[j].cmds
           \/ Logged(n)' \/ n \in replaced' \/ tasks'[asked[n].key].status = "COMPLETED"
  PROVE  RatingsKept'
<1> SUFFICES ASSUME NEW n \in told, asked[n].kind = "rating"
             PROVE  \/ \E i \in Ids : n \in queue'[i].cmds
                    \/ Logged(n)' \/ n \in replaced'
                    \/ tasks'[asked[n].key].status = "COMPLETED"
  BY DEF RatingsKept, AskedGrows
<1>1. n \in Ids /\ asked[n] \in Asks
  BY DEF TypeOK, Commands
<1>2. asked[n].key \in Tasks
  BY <1>1 DEF Asks, Keyed
<1> QED
  BY <1>1, <1>2 DEF RatingsKept, ReviewsStay

\* The database is left as it is when the item has gone.
LEMMA SetStatusGoesOn ==
  ASSUME TypeOK, NEW i \in Ids, NEW status, SetStatus(i, status)
  PROVE  ItemsGoOn /\ ItemsStay
<1>1. queue \in [Ids -> Items]
  BY DEF TypeOK
<1>2. [queue[i] EXCEPT !.status = status].key = queue[i].key
      /\ [queue[i] EXCEPT !.status = status].cmds = queue[i].cmds
  BY <1>1 DEF Items, NoItem
<1>3. CASE Present(i)
  BY <1>1, <1>2, <1>3 DEF SetStatus, ItemsGoOn, ItemsStay, Present
<1>4. CASE ~Present(i)
  BY <1>4 DEF SetStatus, ItemsGoOn, ItemsStay, Present
<1> QED
  BY <1>3, <1>4

\* An answer goes to the request that waits for it, and no flush loses the one it is
\* sending.
LEMMA AnswerGoesOn ==
  ASSUME TypeOK, FlushesAbout, NEW l \in Lines, call[l].at # "none",
         NEW answer \in Answers, Answer(l, answer), flush' = flush,
         answer = "ok" /\ call[l].kind = "rating" => tasks'[call[l].key].status = "COMPLETED"
  PROVE  RequestsGoOn /\ FlushesGoOn
<1>1. call \in [Lines -> Calls] /\ call[l] \in Calls
  BY DEF TypeOK
<1>2. \A m \in Lines \ {l} : call'[m] = call[m]
  BY <1>1 DEF Answer
<1>3. CASE IsLeft(l)
  <2>1. call'[l] = NoCall
    BY <1>1, <1>3 DEF Answer
  <2>2. \A p \in Tabs : Flush(p) # l
    BY <1>3, LinesOfTabs
  <2>3. \A p \in Tabs : Flush(p) \in Lines
    BY DEF Flush, Lines
  <2>4. RequestsGoOn
    BY <1>2, <2>1 DEF RequestsGoOn, SameRequest, About, NoCall
  <2>5. FlushesGoOn
    BY <1>2, <2>2, <2>3 DEF FlushesGoOn, SameRequest, FlushesAbout, FlushAbout
  <2> QED
    BY <2>4, <2>5
<1>4. CASE ~IsLeft(l)
  <2>1. call'[l] = [call[l] EXCEPT !.at = answer]
    BY <1>1, <1>4 DEF Answer
  <2>2. /\ call'[l].kind = call[l].kind /\ call'[l].key = call[l].key
        /\ call'[l].cmds = call[l].cmds /\ call'[l].at = answer
    BY <1>1, <2>1 DEF Calls, NoCall
  <2>3. \A p \in Tabs : Flush(p) \in Lines
    BY DEF Flush, Lines
  <2>4. RequestsGoOn
    BY <1>2, <2>2 DEF RequestsGoOn, SameRequest
  <2>5. FlushesGoOn
    BY <1>2, <1>4, <2>2, <2>3 DEF FlushesGoOn, SameRequest, FlushesAbout, FlushAbout, Answers
  <2> QED
    BY <2>4, <2>5
<1> QED
  BY <1>3, <1>4

\* A rating whose number is in the log has its task completed.
LEMMA LoggedIsCompleted ==
  ASSUME TypeOK, RatedOnce, LogsAbout, CallsAbout, NEW l \in Lines,
         call[l].kind = "rating", Logged(Number(l))
  PROVE  tasks[call[l].key].status = "COMPLETED"
<1>1. call[l].at # "none"
  <2>1. call[l] \in Calls /\ call[l] # NoCall
    BY DEF TypeOK, NoCall
  <2> QED
    BY <2>1 DEF Calls, Answers
<1>2. Number(l) \in call[l].cmds /\ Number(l) \in Ids
  BY <1>1, NumberType DEF TypeOK
<1>3. PICK k \in DOMAIN logs : logs[k].n = Number(l)
  BY DEF Logged
<1>4. logs[k].n # 0
  BY <1>2, <1>3 DEF Ids
<1>5. logs[k].task = call[l].key
  BY <1>2, <1>3, <1>4 DEF LogsAbout, CallsAbout, About
<1>6. call[l].key \in Tasks
  BY <1>1 DEF TypeOK, Calls, NoCall, Keyed
<1>7. {j \in DOMAIN logs : logs[j].task = call[l].key} # {}
  BY <1>5
<1> QED
  BY <1>6, <1>7 DEF RatedOnce

LEMMA ReviewsStayPut == ASSUME UNCHANGED <<logs, tasks>> PROVE ReviewsStay
BY DEF ReviewsStay, Logged

\* A step that leaves alone what the pages told and the items, and lets the rest go on.
LEMMA RInvKept ==
  ASSUME IInv, RInv, AskedGrows, QueueAbout', SaversGoOn, FlushesGoOn, RequestsGoOn,
         logs' = logs, told' = told, replaced' = replaced, ReviewsStay, ItemsStay
  PROVE  RInv'
<1>1. SaversAbout' /\ FlushesAbout' /\ CallsAbout' /\ LogsAbout' /\ AnsweredWhenDone'
  BY SaversAboutKept, FlushesAboutKept, CallsAboutKept, LogsAboutKept, AnsweredKept
     DEF IInv, RInv, WorkAbout
<1>2. told' \subseteq Commands'
  BY DEF RInv, WorkAbout, AskedGrows
<1>3. RatingsKept'
  BY RatingsStayKept DEF IInv, RInv, WorkAbout, ItemsStay
<1> QED
  BY <1>1, <1>2, <1>3 DEF RInv, WorkAbout

\* Ratings are of tasks, and so are the requests about the same key.
LEMMA RatingsOfTasks ==
  ASSUME TypeOK, NEW n \in Commands, NEW l \in Lines, call[l].at # "none",
         asked[n].kind = "rating", asked[n].key = call[l].key
  PROVE  call[l].kind = "rating" /\ call[l].key \in Tasks
<1>1. n \in DOMAIN asked /\ asked[n] \in Asks
  BY DEF TypeOK, Commands
<1>2. asked[n].key \in Tasks
  BY <1>1 DEF Asks, Keyed
<1>3. call[l] \in Calls \ {NoCall}
  BY DEF TypeOK, NoCall
<1> QED
  BY <1>2, <1>3 DEF Calls, Keyed

\* An item is removed once its request succeeded: if it holds a rating, merged or not,
\* the task is completed.
LEMMA FlushAnswerRInv ==
  ASSUME IInv, RInv, NEW p \in Tabs, FlushAnswer(p)
  PROVE  RInv'
<1> DEFINE i == flush[p].cur
<1>0. /\ Flush(p) \in Lines /\ \A q \in Tabs : Flush(q) \in Lines /\ (Flush(q) = Flush(p) => q = p)
  BY DEF Flush, Lines
<1>t. /\ call \in [Lines -> Calls] /\ queue \in [Ids -> Items] /\ flush \in [Tabs -> Flushes]
  BY DEF IInv, TypeOK
<1>1. i \in Ids /\ call[Flush(p)].at # "none" /\ i \in Commands /\ asked[i].key = call[Flush(p)].key
  BY <1>t DEF FlushAnswer, Flushes, RInv, WorkAbout, FlushesAbout, FlushAbout, About
<1>2. AskedGrows /\ ReviewsStay
  BY AskedStays, ReviewsStayPut DEF FlushAnswer, server, reviews
<1>3. SaversGoOn /\ RequestsGoOn /\ FlushesGoOn
  <2>1. /\ \A l \in Lines \ {Flush(p)} : call'[l] = call[l]
        /\ call'[Flush(p)] = NoCall
    BY <1>0, <1>t DEF FlushAnswer
  <2>2. RequestsGoOn
    BY <2>1 DEF RequestsGoOn, SameRequest, NoCall, About
  <2>3. FlushesGoOn
    <3>1. ASSUME NEW q \in Tabs, q # p
          PROVE  flush'[q] = flush[q] /\ call'[Flush(q)] = call[Flush(q)]
      BY <1>0, <1>t, <2>1, <3>1 DEF FlushAnswer
    <3>2. flush'[p].todo = flush[p].todo /\ flush'[p].cur = 0
      BY <1>t DEF FlushAnswer, Flushes
    <3> QED
      BY <3>1, <3>2 DEF FlushesGoOn, SameRequest, RInv, WorkAbout, FlushesAbout, FlushAbout
  <2>4. SaversGoOn
    BY DEF FlushAnswer, SaversGoOn, SaverAbout
  <2> QED
    BY <2>2, <2>3, <2>4
<1>4. CASE ItemsGoOn /\ ItemsStay
  <2>1. QueueAbout'
    BY <1>2, <1>4, QueueAboutKept DEF RInv, WorkAbout
  <2> QED
    BY <1>2, <1>3, <1>4, <2>1, RInvKept DEF FlushAnswer, server, reviews, records
<1>5. CASE /\ \/ call[Flush(p)].at = "ok"
              \/ call[Flush(p)].at = "missing" /\ call[Flush(p)].kind = "delete"
           /\ queue' = [queue EXCEPT ![i] = NoItem]
  <2>1. ItemsGoOn
    BY <1>1, <1>5, <1>t DEF ItemsGoOn, NoItem, Present
  <2>2. WorkAbout' /\ AnsweredWhenDone'
    BY <1>2, <1>3, <2>1, QueueAboutKept, SaversAboutKept, FlushesAboutKept, CallsAboutKept,
       LogsAboutKept, AnsweredKept
       DEF IInv, RInv, WorkAbout, FlushAnswer, server, reviews, records, AskedGrows
  <2>3. ASSUME NEW n \in queue[i].cmds, asked[n].kind = "rating"
        PROVE  tasks[asked[n].key].status = "COMPLETED"
    <3>1. Present(i)
      BY <1>1, <1>t, <2>3 DEF Present, Items, NoItem
    <3>2. n \in Commands /\ asked[n].key = call[Flush(p)].key
      BY <1>1, <3>1 DEF RInv, WorkAbout, QueueAbout, About
    <3>3. call[Flush(p)].kind = "rating"
      BY <1>0, <1>1, <2>3, <3>2, RatingsOfTasks DEF IInv
    <3> QED
      BY <1>0, <1>5, <3>2, <3>3 DEF RInv, AnsweredWhenDone
  <2>4. \A j \in Ids : j # i => queue'[j] = queue[j]
    BY <1>1, <1>5, <1>t
  <2>5. UNCHANGED <<told, replaced, tasks>>
    BY DEF FlushAnswer, records, server, reviews
  <2>6. RatingsKept'
    BY <1>2, <2>3, <2>4, <2>5, RatingsStayKept DEF IInv, RInv, WorkAbout
  <2> QED
    BY <2>2, <2>6 DEF RInv
<1>6. ASSUME NEW status, SetStatus(i, status) PROVE ItemsGoOn /\ ItemsStay
  BY <1>1, <1>6, SetStatusGoesOn DEF IInv
<1> QED
  BY <1>4, <1>5, <1>6 DEF FlushAnswer, ApplyResult

\* What is put in the queue is about the key it is put at, so a rating it is put over
\* is one of the same task.
LEMMA PutItemRInv ==
  ASSUME IInv, RInv, NEW p \in Tabs, PutItem(p)
  PROVE  RInv'
<1> DEFINE n == saver[p].n
           i == IF saver[p].found = 0 THEN n ELSE saver[p].found
           item == MergeMutationQueueItems(saver[p].was, n)
<1>t. /\ queue \in [Ids -> Items] /\ saver \in [Tabs -> Savers]
  BY DEF IInv, TypeOK
<1>1. saver[p] \in Savers \ {Idle} /\ saver[p].at # "idle" /\ n \in Commands /\ n \in Ids
      /\ saver[p].was \in Items
  BY SyncAssumption DEF PutItem, IInv, TypeOK, Idle, Savers, Ids
<1>2. i \in Ids /\ i \in Commands /\ asked[i].key = asked[n].key
  BY <1>1 DEF RInv, WorkAbout, SaversAbout, SaverAbout, About, Savers
<1>3. /\ item.key = asked[n].key /\ n \in item.cmds /\ item.cmds \subseteq saver[p].was.cmds \cup {n}
      /\ asked[n].kind = "rating" => item.cmds = {n}
  BY DEF MergeMutationQueueItems, NewItem
<1>4. About(item.cmds \cup {i}, item.key)
  BY <1>1, <1>2, <1>3 DEF RInv, WorkAbout, SaversAbout, SaverAbout, About
<1>5. queue'[i] = item /\ \A j \in Ids : j # i => queue'[j] = queue[j]
  BY <1>2, <1>t DEF PutItem
<1>6. /\ AskedGrows /\ ReviewsStay /\ UNCHANGED <<asked, call, flush, tasks, logs>>
      /\ told' = told \cup {n} /\ saver' = [saver EXCEPT ![p] = Idle]
      /\ replaced' = IF queue[i].kind = "rating" /\ queue[i].key = asked[n].key
                       THEN replaced \cup queue[i].cmds ELSE replaced
  BY AskedStays, ReviewsStayPut DEF PutItem, server, reviews
<1> HIDE DEF item, i
<1>7. QueueAbout'
  BY <1>4, <1>5, <1>6 DEF RInv, WorkAbout, QueueAbout, Present, About, Commands
<1>8. SaversGoOn /\ RequestsGoOn /\ FlushesGoOn
  BY <1>6, <1>t DEF SaversGoOn, SaverAbout, Idle, RequestsGoOn, SameRequest, FlushesGoOn, RInv,
     WorkAbout, FlushesAbout, FlushAbout
<1>9. WorkAbout' /\ AnsweredWhenDone'
  BY <1>1, <1>6, <1>7, <1>8, SaversAboutKept, FlushesAboutKept, CallsAboutKept, LogsAboutKept,
     AnsweredKept DEF IInv, RInv, WorkAbout, Commands
<1>10. RatingsKept'
  <2> SUFFICES ASSUME NEW m \in told', asked[m].kind = "rating"
               PROVE  \/ \E j \in Ids : m \in queue'[j].cmds
                      \/ Logged(m)' \/ m \in replaced'
                      \/ tasks'[asked[m].key].status = "COMPLETED"
    BY <1>6 DEF RatingsKept
  <2>1. CASE m = n
    BY <1>2, <1>3, <1>5, <2>1
  <2>2. CASE m \in queue[i].cmds
    <3>1. queue[i] \in Items /\ queue[i].cmds # {} /\ Present(i)
      BY <1>2, <1>t, <2>2 DEF Items, NoItem, Present
    <3>2. m \in Commands /\ asked[m].key = queue[i].key /\ asked[i].key = queue[i].key
      BY <1>2, <2>2, <3>1 DEF RInv, WorkAbout, QueueAbout, About
    <3>3. asked[m] \in Asks
      BY <3>2 DEF IInv, TypeOK, Commands
    <3>4. queue[i].key \in Tasks
      BY <3>2, <3>3 DEF Asks, Keyed
    <3>5. queue[i].kind = "rating"
      BY <3>1, <3>4, Blanks DEF Items, Keyed, Present, NoItem
    <3> QED
      BY <1>2, <1>6, <2>2, <3>2, <3>5
  <2>3. CASE m # n /\ m \notin queue[i].cmds
    <3>1. \/ \E j \in Ids : m \in queue[j].cmds
          \/ Logged(m) \/ m \in replaced
          \/ tasks[asked[m].key].status = "COMPLETED"
      BY <1>6, <2>3 DEF RInv, RatingsKept
    <3>2. Logged(m) => Logged(m)'
      BY <1>6 DEF Logged
    <3> QED
      BY <1>5, <1>6, <2>3, <3>1, <3>2
  <2> QED
    BY <2>1, <2>2, <2>3
<1> QED
  BY <1>9, <1>10 DEF RInv

\* A review completes its task and stays in the log under the number of its rating.
LEMMA CommitRatingRInv ==
  ASSUME IInv, RInv, NEW l \in Lines, CommitRating(l)
  PROVE  RInv'
<1> DEFINE t == call[l].key
           n == Number(l)
           row == [n |-> n, task |-> t]
<1>t. /\ logs \in Seq(LogRows) /\ tasks \in [Tasks -> TaskRows] /\ call \in [Lines -> Calls]
  BY DEF IInv, TypeOK
<1>1. /\ call[l].at = "open" /\ call[l].at # "none" /\ call[l].kind = "rating" /\ t \in Tasks
      /\ n \in call[l].cmds /\ n \in Ids
  <2>1. call[l].at = "open" /\ call[l].at # "none" /\ call[l].kind = "rating"
    BY DEF CommitRating, IInv, Reviewed, OpenSaw
  <2>2. t \in Tasks
    BY <1>t, <2>1 DEF Calls, NoCall, Keyed
  <2> QED
    BY <2>1, <2>2, NumberType DEF IInv, TypeOK
<1>2. /\ AskedGrows /\ flush' = flush
      /\ UNCHANGED <<asked, told, replaced, queue, saver>>
  BY AskedStays DEF CommitRating, ServerOnly, browser, records
<1>3. SaversGoOn /\ QueueAbout' /\ ItemsStay
  BY <1>2 DEF SaversGoOn, SaverAbout, RInv, WorkAbout, SaversAbout, QueueAbout, About, Present,
     Commands, ItemsStay
<1>4. CASE UNCHANGED reviews
  <2>1. PICK answer \in Answers :
          /\ Answer(l, answer)
          /\ answer = "ok" => Logged(n) \/ tasks'[t].status = "COMPLETED"
    <3>1. CASE CardAsRead(l) /\ tasks[t].status = "PENDING"
      <4>1. CompleteTask(t)
        BY <3>1 DEF CommitRating
      <4>2. tasks'[t] = [tasks[t] EXCEPT !.status = "COMPLETED", !.log = Len(logs) + 1]
        BY <1>1, <4>1 DEF CompleteTask
      <4>3. tasks'[t].status = "COMPLETED"
        BY <1>1, <1>t, <4>2 DEF TaskRows
      <4> QED
        BY <3>1, <4>3 DEF CommitRating, Answers
    <3>2. CASE ~(CardAsRead(l) /\ tasks[t].status = "PENDING")
      <4>1. Answer(l, IF ~CardAsRead(l) /\ Logged(n) THEN "ok" ELSE "refused")
        BY <3>2 DEF CommitRating
      <4>2. CASE ~CardAsRead(l) /\ Logged(n)
        BY <1>4, <4>1, <4>2 DEF Answers
      <4>3. CASE ~(~CardAsRead(l) /\ Logged(n))
        BY <4>1, <4>3 DEF Answers
      <4> QED
        BY <4>2, <4>3
    <3> QED
      BY <3>1, <3>2
  <2>2. answer = "ok" => tasks'[t].status = "COMPLETED"
    BY <1>1, <1>4, <2>1, LoggedIsCompleted
       DEF reviews, IInv, Reviewed, ReviewsAgree, RInv, WorkAbout
  <2>3. RequestsGoOn /\ FlushesGoOn
    BY <1>1, <1>2, <2>1, <2>2, AnswerGoesOn DEF IInv, RInv, WorkAbout
  <2>4. ReviewsStay /\ logs' = logs
    BY <1>4, ReviewsStayPut DEF reviews
  <2> QED
    BY <1>2, <1>3, <2>3, <2>4, RInvKept
<1>5. CASE /\ CompleteTask(t) /\ tasks[t].status = "PENDING" /\ logs' = Append(logs, row)
           /\ Answer(l, "ok")
  <2>1. row \in LogRows
    BY <1>1 DEF LogRows, Keys
  <2>2. row.n = n /\ row.task = t
    OBVIOUS
  <2> HIDE DEF row
  <2>3. /\ DOMAIN logs' = 1 .. Len(logs) + 1 /\ DOMAIN logs = 1 .. Len(logs)
        /\ \A k \in 1 .. Len(logs) : logs'[k] = logs[k]
        /\ logs'[Len(logs) + 1] = row /\ Len(logs) \in Nat
    BY <1>5, <1>t, <2>1
  <2>4. tasks'[t].status = "COMPLETED"
    <3>1. tasks'[t] = [tasks[t] EXCEPT !.status = "COMPLETED", !.log = Len(logs) + 1]
      BY <1>1, <1>5 DEF CompleteTask
    <3> QED
      BY <1>1, <1>t, <3>1 DEF TaskRows
  <2>5. \A u \in Tasks : tasks[u].status = "COMPLETED" => tasks'[u].status = "COMPLETED"
    BY <1>5, <2>4 DEF CompleteTask
  <2>6. ReviewsStay
    BY <2>3, <2>5 DEF ReviewsStay, Logged
  <2>7. RequestsGoOn /\ FlushesGoOn
    BY <1>1, <1>2, <1>5, <2>4, AnswerGoesOn DEF IInv, RInv, WorkAbout, Answers
  <2>8. LogsAbout'
    BY <1>1, <1>2, <2>2, <2>3 DEF LogsAbout, RInv, WorkAbout, CallsAbout, About, Commands
  <2>9. WorkAbout' /\ AnsweredWhenDone'
    BY <1>2, <1>3, <2>6, <2>7, <2>8, SaversAboutKept, FlushesAboutKept, CallsAboutKept,
       AnsweredKept DEF IInv, RInv, WorkAbout, Commands
  <2>10. RatingsKept'
    BY <1>2, <2>6, RatingsStayKept DEF IInv, RInv, WorkAbout
  <2> QED
    BY <2>9, <2>10 DEF RInv
<1> QED
  BY <1>4, <1>5 DEF CommitRating

\* The other steps of the server.
LEMMA ServerRInv ==
  ASSUME IInv, RInv, NEW l \in Lines,
         ReadForRating(l) \/ UpdateQuestion(l) \/ DeleteQuestion(l)
  PROVE  RInv'
<1>t. call \in [Lines -> Calls] /\ call[l].at = "sent" /\ call[l].at # "none"
  BY DEF IInv, TypeOK, ReadForRating, UpdateQuestion, DeleteQuestion
<1>1. /\ AskedGrows /\ flush' = flush /\ UNCHANGED reviews
      /\ UNCHANGED <<asked, told, replaced, queue, saver>>
  BY AskedStays
     DEF ReadForRating, UpdateQuestion, DeleteQuestion, ServerOnly, browser, records
<1>2. SaversGoOn /\ QueueAbout' /\ ItemsStay
  BY <1>1 DEF SaversGoOn, SaverAbout, RInv, WorkAbout, SaversAbout, QueueAbout, About, Present,
     Commands, ItemsStay
<1>3. ReviewsStay /\ logs' = logs /\ tasks' = tasks
  BY <1>1, ReviewsStayPut DEF reviews
<1>4. RequestsGoOn /\ FlushesGoOn
  <2>1. ASSUME NEW answer \in Answers, Answer(l, answer),
               answer = "ok" /\ call[l].kind = "rating" => Logged(Number(l))
        PROVE  RequestsGoOn /\ FlushesGoOn
    <3>1. answer = "ok" /\ call[l].kind = "rating" => tasks'[call[l].key].status = "COMPLETED"
      BY <1>3, <2>1, LoggedIsCompleted DEF IInv, Reviewed, ReviewsAgree, RInv, WorkAbout
    <3> QED
      BY <1>1, <1>t, <2>1, <3>1, AnswerGoesOn DEF IInv, RInv, WorkAbout
  <2>2. CASE call' = [call EXCEPT ![l].at = "open", ![l].seen = card]
    <3>1. [call[l] EXCEPT !.at = "open", !.seen = card].at = "open"
      BY <1>t DEF Calls, NoCall
    <3>2. /\ call'[l].at = "open"
          /\ SameRequest(l) /\ \A m \in Lines \ {l} : call'[m] = call[m]
      BY <1>t, <2>2 DEF Calls, NoCall, SameRequest
    <3>3. \A p \in Tabs : Flush(p) \in Lines
      BY DEF Flush, Lines
    <3>4. RequestsGoOn
      BY <3>2 DEF RequestsGoOn, SameRequest
    <3>5. FlushesGoOn
      BY <1>1, <3>2, <3>3
         DEF FlushesGoOn, SameRequest, RInv, WorkAbout, FlushesAbout, FlushAbout
    <3> QED
      BY <3>4, <3>5
  <2>3. CASE ReadForRating(l)
    BY <2>1, <2>2, <2>3 DEF ReadForRating, Answers
  <2>4. CASE UpdateQuestion(l) \/ DeleteQuestion(l)
    <3>1. call[l].kind # "rating"
      BY <2>4 DEF UpdateQuestion, DeleteQuestion
    <3>2. \E answer \in Answers : Answer(l, answer)
      BY <2>4 DEF UpdateQuestion, DeleteQuestion, Answers
    <3> QED
      BY <2>1, <3>1, <3>2
  <2> QED
    BY <2>3, <2>4
<1> QED
  BY <1>1, <1>2, <1>3, <1>4, RInvKept

\* Every step keeps true what the pages said of ratings.
LEMMA StepRInv == IInv /\ RInv /\ [Next]_vars => RInv'
<1> SUFFICES ASSUME IInv, RInv, [Next]_vars PROVE RInv'
  OBVIOUS
<1>l. /\ \A p \in Tabs : Save(p) \in Lines /\ Flush(p) \in Lines
      /\ \A p, q \in Tabs : Save(p) # Flush(q) /\ (Flush(p) = Flush(q) => p = q)
  BY DEF Save, Flush, Lines
<1>t. /\ call \in [Lines -> Calls] /\ queue \in [Ids -> Items] /\ saver \in [Tabs -> Savers]
      /\ flush \in [Tabs -> Flushes] /\ asked \in Seq(Asks)
      /\ \A i \in Ids : queue[i] \in Items
  BY DEF IInv, TypeOK
<1>q. ASSUME ItemsGoOn, ItemsStay, SaversGoOn, FlushesGoOn, RequestsGoOn, AskedGrows,
             UNCHANGED <<logs, told, replaced>>, ReviewsStay
      PROVE  RInv'
  BY <1>q, QueueAboutKept, RInvKept DEF RInv, WorkAbout
<1>s. UNCHANGED queue => ItemsGoOn /\ ItemsStay
  BY DEF ItemsGoOn, ItemsStay, Present
<1>f. ASSUME UNCHANGED flush,
             \A p \in Tabs : flush[p].cur # 0 => call'[Flush(p)] = call[Flush(p)]
      PROVE  FlushesGoOn
  BY <1>f DEF FlushesGoOn, SameRequest, RInv, WorkAbout, FlushesAbout, FlushAbout
<1>p. UNCHANGED <<saver, asked>> => SaversGoOn
  BY DEF SaversGoOn, SaverAbout, RInv, WorkAbout, SaversAbout, About, Commands
<1>r. HandedOn => RequestsGoOn
  BY DEF HandedOn, RequestsGoOn, About, NoCall
<1>c. call' = call => HandedOn
  BY DEF HandedOn
<1>1. ASSUME NEW p \in Tabs, NEW kind \in {"rating", "update", "delete"}, NEW key \in Keys,
             Ask(p, kind, key)
      PROVE  RInv'
  <2> DEFINE n == Len(asked) + 1
             a == [kind |-> kind, key |-> key]
             c == [NoCall EXCEPT !.at = "sent", !.kind = kind, !.key = key, !.cmds = {n}]
  <2>1. /\ asked' = Append(asked, a) /\ UNCHANGED <<records, queue, flush, server>>
        /\ saver' = [saver EXCEPT ![p] = [Idle EXCEPT !.at = "calling", !.n = n]]
        /\ call' = [call EXCEPT ![Save(p)] = c]
    BY <1>1 DEF Ask
  <2>2. /\ c.at = "sent" /\ c.key = key /\ c.cmds = {n} /\ a.key = key
    BY DEF NoCall
  <2>3. Len(asked') = n /\ asked'[n] = a /\ \A m \in 1 .. Len(asked) : asked'[m] = asked[m]
    <3> HIDE DEF a
    <3> QED
      BY <1>t, <2>1
  <2> HIDE DEF a, c
  <2>4. AskedGrows /\ n \in Commands'
    BY <1>t, <2>3 DEF AskedGrows, Commands
  <2>5. RequestsGoOn
    <3>1. n \in Commands' /\ asked'[n].key = key
      BY <2>2, <2>3, <2>4
    <3>2. call'[Save(p)] = c /\ \A l \in Lines \ {Save(p)} : call'[l] = call[l]
      BY <1>l, <1>t, <2>1
    <3> QED
      BY <2>2, <3>1, <3>2 DEF RequestsGoOn, SameRequest, About
  <2>6. FlushesGoOn
    BY <1>l, <1>t, <1>f, <2>1
  <2>7. SaversGoOn
    <3>1. saver'[p].was.cmds = {} /\ saver'[p].found = 0
      BY <1>t, <2>1 DEF Idle, NoItem
    <3>2. SaverAbout(p)'
      BY <3>1 DEF SaverAbout, About
    <3>3. ASSUME NEW q \in Tabs, q # p PROVE SaverAbout(q)'
      <4>1. saver'[q] = saver[q]
        BY <1>t, <2>1, <3>3
      <4>2. saver[q].at # "idle" => saver[q].n \in Commands
        BY Blanks, SyncAssumption DEF IInv, TypeOK, Savers, Idle, Ids
      <4> QED
        BY <2>4, <4>1, <4>2
           DEF SaverAbout, SaversAbout, RInv, WorkAbout, About, AskedGrows
    <3> QED
      BY <3>2, <3>3 DEF SaversGoOn
  <2> QED
    BY <1>q, <1>s, <2>1, <2>4, <2>5, <2>6, <2>7, ReviewsStayPut
       DEF records, server, reviews
<1>2. ASSUME NEW p \in Tabs, SaveAnswer(p) \/ SaveDrops(p) PROVE RInv'
  <2>1. UNCHANGED <<asked, records, queue, flush, server>>
    BY <1>2 DEF SaveAnswer, SaveDrops
  <2>2. HandedOn /\ \A q \in Tabs : call'[Flush(q)] = call[Flush(q)]
    <3>1. CASE SaveAnswer(p)
      BY <1>l, <1>t, <3>1 DEF SaveAnswer, HandedOn
    <3>2. CASE SaveDrops(p)
      BY <1>t, <3>2, LeavingHandsOn
    <3> QED
      BY <1>2, <3>1, <3>2
  <2>3. RequestsGoOn /\ FlushesGoOn
    BY <1>r, <1>f, <2>1, <2>2
  <2>4. SaversGoOn
    <3>1. CASE SaveAnswer(p)
      BY <1>t, <3>1 DEF SaveAnswer, SaversGoOn, SaverAbout, Idle, RInv, WorkAbout, SaversAbout,
                        About, Commands
    <3>2. CASE SaveDrops(p)
      <4>1. saver' = [saver EXCEPT ![p] = [@ EXCEPT !.at = "failed"]] /\ saver[p].at # "idle"
        BY <3>2 DEF SaveDrops
      <4>2. /\ saver'[p].n = saver[p].n /\ saver'[p].found = saver[p].found
            /\ saver'[p].was = saver[p].was
        BY <1>t, <4>1 DEF Savers, Idle
      <4>3. \A q \in Tabs \ {p} : saver'[q] = saver[q]
        BY <4>1, <1>t
      <4> QED
        BY <2>1, <4>1, <4>2, <4>3
           DEF SaversGoOn, SaverAbout, RInv, WorkAbout, SaversAbout, About, Commands
    <3> QED
      BY <1>2, <3>1, <3>2
  <2> QED
    BY <1>q, <1>s, <2>1, <2>3, <2>4, AskedStays, ReviewsStayPut DEF records, server, reviews
<1>3. ASSUME NEW p \in Tabs, FindByDedupeKey(p) PROVE RInv'
  <2>1. UNCHANGED <<asked, records, queue, flush, server>> /\ saver[p].at # "idle"
    BY <1>3 DEF FindByDedupeKey
  <2>2. call' = call \/ call' = [call EXCEPT ![Save(p)] = NoCall]
    BY <1>3 DEF FindByDedupeKey
  <2>3. RequestsGoOn /\ FlushesGoOn
    <3>1. HandedOn /\ \A q \in Tabs : call'[Flush(q)] = call[Flush(q)]
      BY <1>l, <1>t, <2>2 DEF HandedOn
    <3> QED
      BY <1>r, <1>f, <2>1, <3>1
  <2>4. SaversGoOn
    <3>1. \A q \in Tabs \ {p} : saver'[q] = saver[q]
      BY <1>3, <1>t DEF FindByDedupeKey
    <3>2. \/ SaverAbout(p)'
          \/ /\ saver'[p].n = saver[p].n /\ saver'[p].found = saver[p].found
             /\ saver'[p].was = saver[p].was
      <4>1. CASE saver' = [saver EXCEPT ![p].at = "putting"]
        BY <1>t, <2>1, <4>1 DEF Savers, Idle
      <4>2. ASSUME NEW i \in Queued(asked[saver[p].n].key),
                   saver' = [saver EXCEPT ![p].at = "putting", ![p].found = i,
                                          ![p].was = queue[i]]
            PROVE  SaverAbout(p)'
        <5>1. /\ saver'[p].n = saver[p].n /\ saver'[p].found = i
              /\ saver'[p].was = queue[i]
          BY <1>t, <2>1, <4>2 DEF Savers, Idle
        <5>2. About(queue[i].cmds \cup {i}, asked[saver[p].n].key)
          BY DEF Queued, RInv, WorkAbout, QueueAbout
        <5> QED
          BY <2>1, <5>1, <5>2 DEF SaverAbout, About, Commands
      <4> QED
        BY <1>3, <4>1, <4>2 DEF FindByDedupeKey
    <3> QED
      BY <2>1, <3>1, <3>2
         DEF SaversGoOn, SaverAbout, RInv, WorkAbout, SaversAbout, About, Commands
  <2> QED
    BY <1>q, <1>s, <2>1, <2>3, <2>4, AskedStays, ReviewsStayPut DEF records, server, reviews
<1>4. ASSUME NEW p \in Tabs, ReadQueue(p) PROVE RInv'
  <2>1. UNCHANGED <<records, asked, queue, saver, call, server>>
    BY <1>4 DEF ReadQueue
  <2>2. RequestsGoOn /\ SaversGoOn
    BY <1>c, <1>r, <1>p, <2>1
  <2>3. FlushesGoOn
    <3>1. \A q \in Tabs \ {p} : flush'[q] = flush[q]
      BY <1>4, <1>t DEF ReadQueue
    <3>2. flush'[p].cur = 0
      BY <1>4, <1>t DEF ReadQueue, FlushIdle, Flushes
    <3>3. ASSUME NEW x \in flush'[p].todo
          PROVE  About(x.item.cmds \cup {x.id}, x.item.key)
      <4>1. flush'[p].todo = {[id |-> i, item |-> queue[i]] : i \in {i \in Ids : queue[i].status = "ready"}}
        BY <1>4, <1>t DEF ReadQueue, Flushes
      <4>2. PICK i \in Ids : queue[i].status = "ready" /\ x = [id |-> i, item |-> queue[i]]
        BY <4>1
      <4> QED
        BY <4>2 DEF RInv, WorkAbout, QueueAbout, Present
    <3>4. FlushAbout(p)'
      BY <2>1, <3>2, <3>3 DEF FlushAbout, About, Commands
    <3> QED
      BY <2>1, <3>1, <3>4
         DEF FlushesGoOn, SameRequest, RInv, WorkAbout, FlushesAbout, FlushAbout
  <2> QED
    BY <1>q, <1>s, <2>1, <2>2, <2>3, AskedStays, ReviewsStayPut DEF records, server, reviews
<1>5. ASSUME NEW p \in Tabs, SendItem(p) PROVE RInv'
  <2>1. PICK x \in flush[p].todo : SendItem(p)!2!(x)
    BY <1>5 DEF SendItem
  <2> DEFINE c == [NoCall EXCEPT !.at = "sent", !.kind = x.item.kind, !.key = x.item.key,
                                 !.cmds = x.item.cmds]
  <2>2. UNCHANGED <<records, asked, saver, server>>
    BY <1>5 DEF SendItem
  <2>3. x.id \in Ids
    BY <1>t DEF Flushes
  <2>4. /\ c.at = "sent" /\ c.key = x.item.key /\ c.cmds = x.item.cmds
    BY DEF NoCall
  <2>5. call' = [call EXCEPT ![Flush(p)] = c]
    BY <2>1
  <2> HIDE DEF c
  <2>6. call'[Flush(p)] = c /\ \A l \in Lines \ {Flush(p)} : call'[l] = call[l]
    BY <1>l, <1>t, <2>5
  <2>7. About(x.item.cmds \cup {x.id}, x.item.key)
    BY DEF RInv, WorkAbout, FlushesAbout, FlushAbout
  <2>8. ItemsGoOn /\ ItemsStay
    BY <2>1, <2>3, SetStatusGoesOn DEF IInv
  <2>9. RequestsGoOn
    BY <2>2, <2>4, <2>6, <2>7 DEF RequestsGoOn, SameRequest, About, Commands
  <2>10. FlushesGoOn
    <3>1. /\ flush'[p].todo \subseteq flush[p].todo /\ flush'[p].cur = x.id
          /\ \A q \in Tabs \ {p} : flush'[q] = flush[q]
      BY <1>t, <2>1
    <3>2. FlushAbout(p)'
      BY <2>2, <2>4, <2>6, <2>7, <3>1
         DEF FlushAbout, About, Commands, RInv, WorkAbout, FlushesAbout
    <3>3. \A q \in Tabs \ {p} : call'[Flush(q)] = call[Flush(q)]
      BY <1>l, <2>6
    <3> QED
      BY <3>1, <3>2, <3>3
         DEF FlushesGoOn, SameRequest, RInv, WorkAbout, FlushesAbout, FlushAbout
  <2>11. SaversGoOn
    BY <1>p, <2>2
  <2> QED
    BY <1>q, <2>2, <2>8, <2>9, <2>10, <2>11, AskedStays, ReviewsStayPut
       DEF records, server, reviews
<1>6. ASSUME RetryTimePasses PROVE RInv'
  <2>1. UNCHANGED <<records, asked, saver, flush, call, server>>
    BY <1>6 DEF RetryTimePasses
  <2>2. ItemsGoOn /\ ItemsStay
    BY <1>6, SetStatusGoesOn DEF RetryTimePasses, SetStatus, Present, IInv
  <2>3. RequestsGoOn /\ SaversGoOn /\ FlushesGoOn
    BY <1>c, <1>r, <1>p, <1>f, <2>1
  <2> QED
    BY <1>q, <2>1, <2>2, <2>3, AskedStays, ReviewsStayPut DEF records, server, reviews
<1>7. ASSUME RequestsFail \/ \E l \in Lines : Unauthorized(l) PROVE RInv'
  <2>1. UNCHANGED <<browser, server>>
    BY <1>7 DEF RequestsFail, Unauthorized
  <2>2. ASSUME NEW l \in Lines
        PROVE  \/ call'[l] = call[l]
               \/ SameRequest(l) /\ call'[l].at \in {"retry", "refused"}
    <3>1. \A at : /\ [call[l] EXCEPT !.at = at].kind = call[l].kind
                  /\ [call[l] EXCEPT !.at = at].key = call[l].key
                  /\ [call[l] EXCEPT !.at = at].cmds = call[l].cmds
                  /\ [call[l] EXCEPT !.at = at].at = at
      BY <1>t DEF Calls, NoCall
    <3>2. CASE RequestsFail
      BY <3>1, <3>2 DEF RequestsFail, SameRequest
    <3>3. ASSUME NEW m \in Lines, Unauthorized(m)
          PROVE  \/ call'[l] = call[l] \/ call'[l] = [call[l] EXCEPT !.at = "refused"]
      BY <1>t, <3>3 DEF Unauthorized
    <3> QED
      BY <1>7, <3>1, <3>2, <3>3 DEF SameRequest
  <2>3. RequestsGoOn
    BY <2>2 DEF RequestsGoOn, SameRequest
  <2>4. FlushesGoOn
    BY <1>l, <2>1, <2>2
       DEF browser, FlushesGoOn, SameRequest, RInv, WorkAbout, FlushesAbout, FlushAbout
  <2> QED
    BY <1>q, <1>s, <1>p, <2>1, <2>3, <2>4, AskedStays, ReviewsStayPut
       DEF browser, records, server, reviews
<1>8. ASSUME NEW p \in Tabs, FlushDrops(p) PROVE RInv'
  <2>1. UNCHANGED <<records, asked, saver, server>> /\ SetStatus(flush[p].cur, "waiting")
    BY <1>8 DEF FlushDrops, ApplyResult
  <2>2. flush[p].cur \in Ids
    BY <1>8, <1>t DEF FlushDrops, Flushes
  <2>3. ItemsGoOn /\ ItemsStay
    BY <2>1, <2>2, SetStatusGoesOn DEF IInv
  <2>4. HandedOn /\ \A q \in Tabs \ {p} : call'[Flush(q)] = call[Flush(q)]
    BY <1>8, <1>t, LeavingHandsOn
  <2>5. RequestsGoOn
    BY <1>r, <2>4
  <2>6. FlushesGoOn
    <3>1. /\ flush'[p].todo = flush[p].todo /\ flush'[p].cur = 0
          /\ \A q \in Tabs \ {p} : flush'[q] = flush[q]
      BY <1>8, <1>t DEF FlushDrops, Flushes
    <3> QED
      BY <2>4, <3>1 DEF FlushesGoOn, SameRequest, RInv, WorkAbout, FlushesAbout, FlushAbout
  <2> QED
    BY <1>q, <1>p, <2>1, <2>3, <2>5, <2>6, AskedStays, ReviewsStayPut
       DEF records, server, reviews
<1>9. ASSUME NEW p \in Tabs, CloseTab(p) PROVE RInv'
  <2>1. UNCHANGED <<asked, told, replaced, queue, server>>
    BY <1>9 DEF CloseTab
  <2>2. RequestsGoOn
    BY <1>9, <1>r, <1>t, LeavingHandsOn
  <2>3. SaversGoOn
    BY <1>9, <1>t, <2>1
       DEF CloseTab, SaversGoOn, SaverAbout, Idle, RInv, WorkAbout, SaversAbout, About, Commands
  <2>4. FlushesGoOn
    <3>1. /\ flush'[p].todo = {} /\ flush'[p].cur = 0
          /\ \A q \in Tabs \ {p} : flush'[q] = flush[q]
      BY <1>9, <1>t DEF CloseTab
    <3>2. \A q \in Tabs \ {p} : call'[Flush(q)] = call[Flush(q)]
      BY <1>9, <1>t, LeavingHandsOn
    <3> QED
      BY <3>1, <3>2 DEF FlushesGoOn, SameRequest, RInv, WorkAbout, FlushesAbout, FlushAbout
  <2> QED
    BY <1>q, <1>s, <2>1, <2>2, <2>3, <2>4, AskedStays, ReviewsStayPut DEF server, reviews
<1>10. ASSUME UNCHANGED <<browser, call, logs>>, TasksMove PROVE RInv'
  <2>1. ReviewsStay
    BY <1>10 DEF ReviewsStay, Logged, TasksMove
  <2>2. SaversGoOn /\ FlushesGoOn /\ RequestsGoOn
    BY <1>10, <1>p, <1>f, <1>c, <1>r DEF browser
  <2> QED
    BY <1>10, <1>q, <1>s, <2>1, <2>2, AskedStays DEF browser, records
<1>11. ASSUME NEW t \in Tasks, Skip(t) \/ Reopen(t) \/ CreateTask(t) PROVE RInv'
  <2>1. \A u \in Tasks : tasks[u] \in TaskRows
    BY DEF IInv, TypeOK
  <2>2. /\ \A u \in Tasks \ {t} : tasks'[u] = tasks[u]
        /\ tasks'[t].log = tasks[t].log
        /\ tasks'[t].status \in {"PENDING", "SKIPPED"}
        /\ tasks[t].status \in {"NONE", "PENDING", "SKIPPED"}
        /\ tasks[t].status # "NONE" => tasks'[t].due = tasks[t].due
    <3>1. CASE Skip(t)
      BY <2>1, <3>1 DEF Skip, IInv, TypeOK, TaskRows
    <3>2. CASE Reopen(t)
      BY <2>1, <3>2 DEF Reopen, IInv, TypeOK, TaskRows
    <3>3. CASE CreateTask(t)
      BY <2>1, <3>3 DEF CreateTask, IInv, TypeOK, TaskRows
    <3> QED
      BY <1>11, <3>1, <3>2, <3>3
  <2>3. TasksMove
    BY <2>2 DEF TasksMove
  <2> QED
    BY <1>10, <1>11, <2>3 DEF Skip, Reopen, CreateTask
<1>12. CASE ReadDueCards \/ DirectRead \/ UNCHANGED vars
  BY <1>10, <1>12 DEF ReadDueCards, DirectRead, vars, server, reviews, TasksMove
<1>13. CASE DirectWrite
  <2> DEFINE row == [n |-> 0, task |-> Question]
  <2>1. logs \in Seq(LogRows) /\ row \in LogRows
    BY DEF IInv, TypeOK, LogRows, Keys
  <2>2. logs' = Append(logs, row) /\ UNCHANGED <<browser, call, tasks>> /\ row.n = 0
    BY <1>13 DEF DirectWrite
  <2> HIDE DEF row
  <2>3. /\ DOMAIN logs' = 1 .. Len(logs) + 1 /\ DOMAIN logs = 1 .. Len(logs)
        /\ \A k \in 1 .. Len(logs) : logs'[k] = logs[k]
        /\ logs'[Len(logs) + 1] = row /\ Len(logs) \in Nat
    BY <2>1, <2>2
  <2>4. ReviewsStay
    BY <2>2, <2>3 DEF ReviewsStay, Logged
  <2>5. SaversGoOn /\ FlushesGoOn /\ RequestsGoOn /\ ItemsGoOn
    BY <1>p, <1>f, <1>c, <1>r, <1>s, <2>2 DEF browser
  <2>6. AskedGrows /\ UNCHANGED <<asked, told, replaced, queue>>
    BY <2>2, AskedStays DEF browser, records
  <2>7. LogsAbout'
    BY <2>2, <2>3, <2>6 DEF LogsAbout, RInv, WorkAbout, About, Commands
  <2>8. WorkAbout' /\ AnsweredWhenDone'
    BY <2>4, <2>5, <2>6, <2>7, QueueAboutKept, SaversAboutKept, FlushesAboutKept,
       CallsAboutKept, AnsweredKept DEF IInv, RInv, WorkAbout, AskedGrows
  <2>9. RatingsKept'
    BY <2>4, <2>6, RatingsStayKept DEF IInv, RInv, WorkAbout
  <2> QED
    BY <2>8, <2>9 DEF RInv
<1>14. ASSUME NEW p \in Tabs, NEW t \in Tasks, Ask(p, "rating", t) PROVE RInv'
  BY <1>1, <1>14 DEF Keys
<1>15. ASSUME NEW p \in Tabs, NEW kind \in {"update", "delete"}, Ask(p, kind, Question)
       PROVE  RInv'
  BY <1>1, <1>15 DEF Keys
<1> QED
  BY <1>2, <1>3, <1>4, <1>5, <1>6, <1>7, <1>8, <1>9, <1>11, <1>12, <1>13, <1>14, <1>15,
     FlushAnswerRInv, PutItemRInv, CommitRatingRInv, ServerRInv
     DEF Next, Saver, Flusher, Serve

LEMMA InitRInv == Init => RInv
<1> SUFFICES ASSUME Init PROVE RInv
  OBVIOUS
<1>1. asked = <<>> /\ Commands = {}
  BY DEF Init, Commands
<1>2. QueueAbout /\ SaversAbout /\ FlushesAbout
  BY DEF Init, QueueAbout, Present, NoItem, SaversAbout, SaverAbout, Idle, FlushesAbout,
         FlushAbout
<1>3. CallsAbout /\ LogsAbout /\ AnsweredWhenDone
  BY DEF Init, CallsAbout, About, NoCall, LogsAbout, AnsweredWhenDone, Lines
<1>4. told \subseteq Commands /\ RatingsKept
  BY DEF Init, RatingsKept
<1> QED
  BY <1>2, <1>3, <1>4 DEF RInv, WorkAbout

\* What the page says when a rating could not be sent is true: whatever tabs put over
\* each other's items, send, drop or leave behind, a rating saved for later is in the
\* queue or in the log, or another rating of its task took its place, or the task is
\* completed.
THEOREM RatingsAlwaysKept == Spec => []RatingsKept
<1>1. Init => IInv /\ RInv
  BY InitIInv, InitRInv
<1>2. (IInv /\ RInv) /\ [Next]_vars => (IInv /\ RInv)'
  BY StepIInv, StepRInv
<1>3. IInv /\ RInv => RatingsKept
  BY DEF RInv
<1> QED
  BY <1>1, <1>2, <1>3, PTL DEF Spec

=============================================================================
