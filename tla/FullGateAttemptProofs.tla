------------------------- MODULE FullGateAttemptProofs -------------------------
(***************************************************************************)
(* The evidence of an attempt is true and can be read (JournalIsTrue), and *)
(* seals finish and what they finish stands (SealingIsSound), for any      *)
(* number of seal commands, guards, pairs and mishaps.                     *)
(***************************************************************************)
EXTENDS FullGateAttempt, TLAPS

\* The records that are ever appended.
Records ==
  [op : {"guard"}, clean : BOOLEAN]
    \cup [op : {"reserve", "stage", "notStarted"}, lane : Lanes]
    \cup [op : {"terminal"}, lane : Lanes, result : Results \ {"none"}]
    \cup [op : {"pair", "publishing", "published"}]
    \cup [op : {"recovery"}, by : Sealers]
    \cup [op : {"end"}, mode : {"runtime", "recovery"}]

Early == {"absent", "marking", "reserving"}
Late == {"linking", "confirming", "validating"}

-----------------------------------------------------------------------------
(* The invariant *)

\* What the run's memory says of itself.
Ordered(m) ==
  /\ \A l \in Lanes : l[1] <= m.pairs => m.lane[l].result # "none"
  /\ m.pairs > 0 => m.guards = Guards
  /\ m.mode # "none" => m.guards = Guards /\ m.pairs = Pairs
  /\ m.published => m.publishing

\* A lane under way: it was reserved and is open, it called only when the dispatch was
\* recorded, and all earlier pairs succeeded.
UnderWay(a) ==
  /\ run.mem.guards = Guards /\ run.mem.pairs < Pairs
  /\ lane[a].at \in {"active", "settled"} =>
       run.mem.lane[Here(a)].reserved /\ run.mem.lane[Here(a)].result = "none"
  /\ lane[a].at = "active" /\ ~lane[a].called => Stages(a) <= DispatchStage
  /\ lane[a].outcome \in {"none", "succeeded", "failed"}
  /\ lane[a].at = "settled" => lane[a].outcome # "none"
  /\ lane[a].outcome = "succeeded" => lane[a].called
  /\ \A l \in Lanes : l[1] <= run.mem.pairs => run.mem.lane[l].result = "succeeded"

RunInv ==
  /\ \A l \in Lanes : calls[l] \in {0, 1}
  /\ run.at \in Early => journal = Blank /\ \A l \in Lanes : calls[l] = 0
  /\ run.at # "running" => lane = [a \in Agents |-> Idle]
  /\ RunAlive => Ordered(run.mem)
  /\ run.at = "running" =>
       /\ ~run.mem.publishing /\ run.mem.claimer = Nobody
       /\ \A l \in Lanes : l[1] > NextPair(run.mem) => calls[l] = 0
       /\ \A a \in Agents :
            /\ run.mem.pairs < Pairs /\ (run.stopped => \E b \in Agents : lane[b].at # "idle") =>
                 calls[Here(a)] = IF lane[a].called THEN 1 ELSE 0
            /\ IF lane[a].at = "idle" THEN lane[a] = Idle ELSE UnderWay(a)
  /\ run.at \in {"linking", "confirming"} => run.mem.publishing /\ ~run.mem.published

\* What the journal has that the writer knows of.
Follows(m, j) ==
  \A l \in Lanes :
    /\ m.lane[l].stages <= j.lane[l].stages
    /\ m.lane[l].result # "none" => j.lane[l].result = m.lane[l].result

\* Seal commands that have decided that the run is over.
Acting(s) == sealer[s].at \notin {"idle", "looked", "over"}

EvidenceInv ==
  /\ \A s \in Sealers : Acting(s) => run.at = "over"
  /\ intact =>
       /\ \A l \in Lanes : calls[l] = 1 =>
            /\ journal.lane[l].stages >= DispatchStage
            /\ \A k \in Lanes : k[1] < l[1] => journal.lane[k].result = "succeeded"
       /\ \A l \in Lanes : journal.lane[l].result = "succeeded" => calls[l] = 1
       /\ journal.claimer # Nobody => run.at = "over"
       /\ RunAlive => Follows(run.mem, journal)

\* Where a seal command remembers the journal it looked at, and where its own.
Looking == {"looked", "claiming", "contending", "replacing", "reclaiming", "writing", "claimed"}
Recovering == {"owning", "sealing", "appending", "linking", "confirming", "validating"}
Owning == Recovering \cup {"writing", "claimed", "releasing", "unlinking"}

SealerInv(s) ==
  /\ sealer[s].at \in Looking =>
       /\ 0 < sealer[s].mem.n /\ sealer[s].mem.n <= journal.n
       /\ sealer[s].mem.n = journal.n => sealer[s].mem.publishing = journal.publishing
  /\ sealer[s].at \in Looking \ {"looked"} => ~sealer[s].mem.publishing
  /\ sealer[s].at \in Looking \cup {"idle", "owning", "releasing", "unlinking"} =>
       journal.claimer # s
  /\ sealer[s].at \in {"owning", "sealing", "appending"} =>
       ~sealer[s].mem.publishing /\ ~sealer[s].mem.published
  /\ sealer[s].at \in {"linking", "confirming"} =>
       sealer[s].mem.publishing /\ ~sealer[s].mem.published

\* Without slips the run's memory is the journal.
MemoryInv ==
  slips = {} => intact /\ (run.at = "running" \/ run.at \in Late => run.mem = journal)

\* As long as no claim was taken from its owner it has one, whose memory is the journal
\* while that can be read.
ClaimInv ==
  "takeover" \notin slips =>
    /\ journal.claimer # Nobody => claim.by = journal.claimer
    /\ \A s \in Sealers :
         /\ sealer[s].at \in Owning => claim.by = s
         /\ intact /\ sealer[s].at \in Recovering => sealer[s].mem = journal

IInv ==
  /\ TypeOK /\ RunInv /\ EvidenceInv
  /\ (\A s \in Sealers : SealerInv(s)) /\ MemoryInv /\ ClaimInv
  /\ journal.published => journal.publishing

-----------------------------------------------------------------------------
(* What an append does to a replayed state *)

Ops ==
  {"guard", "reserve", "stage", "notStarted", "terminal", "pair", "publishing", "published",
   "recovery", "end"}

LEMMA RecordFields ==
  ASSUME NEW e \in Records
  PROVE  /\ e.op \in Ops
         /\ e.op = "guard" => e.clean \in BOOLEAN
         /\ e.op \in {"reserve", "stage", "notStarted", "terminal"} => e.lane \in Lanes
         /\ e.op = "terminal" => e.result \in Results \ {"none"}
         /\ e.op = "recovery" => e.by \in Sealers
         /\ e.op = "end" => e.mode \in {"runtime", "recovery"}
  BY DEF Records, Ops

LEMMA FitsMeans ==
  ASSUME NEW m, NEW e, Fits(m, e)
  PROVE  /\ e.op = "guard" => m.mode = "none" /\ m.guards < Guards
         /\ e.op = "reserve" => m.mode = "none" /\ m.guards = Guards /\ Opens(m, e.lane)
         /\ e.op = "stage" => /\ m.lane[e.lane].reserved /\ m.lane[e.lane].result = "none"
                              /\ m.lane[e.lane].stages < LastStage
         /\ e.op = "terminal" => m.lane[e.lane].reserved /\ m.lane[e.lane].result = "none"
         /\ e.op = "notStarted" => Opens(m, e.lane)
         /\ e.op = "pair" => /\ m.pairs < Pairs
                             /\ \A a \in Agents : m.lane[<<NextPair(m), a>>].result # "none"
         /\ e.op = "end" => m.mode = "none" /\ m.guards = Guards /\ m.pairs = Pairs
         /\ e.op = "publishing" => m.mode # "none" /\ ~m.publishing /\ ~m.published
         /\ e.op = "published" => m.publishing
  BY DEF Fits

LEMMA AfterLanes ==
  ASSUME NEW m \in Replayed, NEW e \in Records, NEW l \in Lanes
  PROVE  /\ After(m, e).lane[l].stages =
              m.lane[l].stages + (IF e.op = "stage" /\ l = e.lane THEN 1 ELSE 0)
         /\ After(m, e).lane[l].result =
              IF e.op = "terminal" /\ l = e.lane THEN e.result
              ELSE IF e.op = "notStarted" /\ l = e.lane THEN "notStarted"
              ELSE m.lane[l].result
         /\ (After(m, e).lane[l].reserved <=>
              (m.lane[l].reserved \/ (e.op = "reserve" /\ l = e.lane)))
  <1>1. After(m, e).lane[l] = LaneAfter(m.lane[l], e.op \in LaneOps /\ l = e.lane, e)
    BY DEF After
  <1>2. /\ LaneAfter(m.lane[l], e.op \in LaneOps /\ l = e.lane, e).stages =
              m.lane[l].stages + (IF e.op = "stage" /\ l = e.lane THEN 1 ELSE 0)
        /\ LaneAfter(m.lane[l], e.op \in LaneOps /\ l = e.lane, e).result =
              IF e.op = "terminal" /\ l = e.lane THEN e.result
              ELSE IF e.op = "notStarted" /\ l = e.lane THEN "notStarted"
              ELSE m.lane[l].result
    BY DEF LaneAfter, LaneOps
  <1>3. (LaneAfter(m.lane[l], e.op \in LaneOps /\ l = e.lane, e).reserved <=>
              (m.lane[l].reserved \/ (e.op = "reserve" /\ l = e.lane)))
    BY DEF LaneAfter, LaneOps
  <1>. QED BY <1>1, <1>2, <1>3

LEMMA AfterRest ==
  ASSUME NEW m \in Replayed, NEW e \in Records
  PROVE  /\ After(m, e).n = m.n + 1
         /\ After(m, e).guards = m.guards + (IF e.op = "guard" THEN 1 ELSE 0)
         /\ After(m, e).pairs = m.pairs + (IF e.op = "pair" THEN 1 ELSE 0)
         /\ After(m, e).claimer = (IF e.op = "recovery" THEN e.by ELSE m.claimer)
         /\ After(m, e).mode = (IF e.op = "end" THEN e.mode ELSE m.mode)
         /\ (After(m, e).publishing <=> (m.publishing \/ e.op = "publishing"))
         /\ (After(m, e).published <=> (m.published \/ e.op = "published"))
  BY DEF After

LEMMA AfterType ==
  ASSUME NEW m \in Replayed, NEW e \in Records, Fits(m, e)
  PROVE  After(m, e) \in Replayed
  <1>1. m.n + 1 \in Nat
    BY DEF Replayed
  <1>2. m.guards + (IF e.op = "guard" THEN 1 ELSE 0) \in 0 .. Guards
    BY AttemptAssumption, FitsMeans DEF Replayed
  <1>3. m.pairs + (IF e.op = "pair" THEN 1 ELSE 0) \in 0 .. Pairs
    BY AttemptAssumption, FitsMeans DEF Replayed
  <1>4. [l \in Lanes |-> LaneAfter(m.lane[l], e.op \in LaneOps /\ l = e.lane, e)]
          \in [Lanes -> LaneRecords]
    <2> SUFFICES ASSUME NEW l \in Lanes, NEW here \in BOOLEAN,
                        here = (e.op \in LaneOps /\ l = e.lane)
                 PROVE  LaneAfter(m.lane[l], here, e) \in LaneRecords
      OBVIOUS
    <2>1. m.lane[l] \in LaneRecords
      BY DEF Replayed
    <2>2. (m.lane[l].reserved \/ (here /\ e.op = "reserve")) \in BOOLEAN
      OBVIOUS
    <2>3. m.lane[l].stages + (IF here /\ e.op = "stage" THEN 1 ELSE 0) \in 0 .. LastStage
      <3>1. m.lane[l].stages \in 0 .. LastStage
        BY <2>1 DEF LaneRecords
      <3>2. here /\ e.op = "stage" => m.lane[l].stages < LastStage
        BY FitsMeans
      <3>. QED BY <3>1, <3>2 DEF LastStage
    <2>4. (CASE here /\ e.op = "terminal" -> e.result
             [] here /\ e.op = "notStarted" -> "notStarted"
             [] OTHER -> m.lane[l].result) \in Results
      BY <2>1, RecordFields DEF LaneRecords, Results
    <2>. QED BY <2>2, <2>3, <2>4 DEF LaneAfter, LaneRecords
  <1>5. (IF e.op = "recovery" THEN e.by ELSE m.claimer) \in Sealers \cup {Nobody}
    BY RecordFields DEF Replayed
  <1>6. (IF e.op = "end" THEN e.mode ELSE m.mode) \in {"none", "runtime", "recovery"}
    BY RecordFields DEF Replayed
  <1>7. /\ (m.clean /\ (e.op = "guard" => e.clean)) \in BOOLEAN
        /\ (m.publishing \/ e.op = "publishing") \in BOOLEAN
        /\ (m.published \/ e.op = "published") \in BOOLEAN
    OBVIOUS
  <1>. QED BY <1>1, <1>2, <1>3, <1>4, <1>5, <1>6, <1>7 DEF After, Replayed

-----------------------------------------------------------------------------
(* What the parts of an action do to the types *)

LEMMA BlankType == Blank \in Replayed /\ [Blank EXCEPT !.n = 1] \in Replayed
  <1>1. [l \in Lanes |-> Untouched] \in [Lanes -> LaneRecords]
    BY DEF Untouched, LaneRecords, LastStage, Results
  <1>2. Blank \in Replayed
    BY <1>1, AttemptAssumption DEF Blank, Replayed
  <1>3. [Blank EXCEPT !.n = 1] \in Replayed
    BY <1>2 DEF Replayed
  <1>. QED BY <1>2, <1>3

LEMMA RunTypes ==
  ASSUME run \in Runs, lane \in LanesAtWork
  PROVE  /\ \A m \in Replayed :
              \A at \in {"marking", "reserving", "running", "linking", "confirming", "validating"} :
                Remember(m, at) => run' \in Runs
         /\ Stopped => run' \in Runs
         /\ Over => run' \in Runs /\ lane' \in LanesAtWork
  <1>1. \A m \in Replayed :
          \A at \in {"marking", "reserving", "running", "linking", "confirming", "validating"} :
            Remember(m, at) => run' \in Runs
    BY DEF Remember, Runs
  <1>2. Stopped => run' \in Runs
    BY DEF Stopped, Runs
  <1>3. Over => run' \in Runs /\ lane' \in LanesAtWork
    BY BlankType DEF Over, Runs, LanesAtWork, Idle, Results
  <1>. QED BY <1>1, <1>2, <1>3

LEMMA RunFields ==
  ASSUME run \in Runs
  PROVE  /\ \A m, at : Remember(m, at) =>
              run'.mem = m /\ run'.at = at /\ run'.stopped = run.stopped
         /\ Stopped => run'.mem = run.mem /\ run'.at = run.at /\ run'.stopped
         /\ Over => run'.at = "over" /\ ~run'.stopped /\ lane' = [a \in Agents |-> Idle]
  <1>1. ASSUME NEW m, NEW at, Remember(m, at)
        PROVE  run'.mem = m /\ run'.at = at /\ run'.stopped = run.stopped
    <2>1. run' = [run EXCEPT !.mem = m, !.at = at]
      BY <1>1 DEF Remember
    <2>2. /\ [run EXCEPT !.mem = m, !.at = at].mem = m
          /\ [run EXCEPT !.mem = m, !.at = at].at = at
          /\ [run EXCEPT !.mem = m, !.at = at].stopped = run.stopped
      BY DEF Runs
    <2>. QED BY <2>1, <2>2
  <1>2. Stopped => run'.mem = run.mem /\ run'.at = run.at /\ run'.stopped
    BY DEF Stopped, Runs
  <1>3. Over => run'.at = "over" /\ ~run'.stopped /\ lane' = [a \in Agents |-> Idle]
    BY DEF Over
  <1>. QED BY <1>1, <1>2, <1>3

SealPlaces == Looking \cup Owning \cup {"over"}

LEMMA SealerTypes ==
  ASSUME sealer \in [Sealers -> SealCommands], NEW s \in Sealers
  PROVE  /\ sealer[s].mem \in Replayed
         /\ \A at \in SealPlaces : Goto(s, at) => sealer' \in [Sealers -> SealCommands]
         /\ \A m \in Replayed, at \in SealPlaces :
              Keep(s, m, at) => sealer' \in [Sealers -> SealCommands]
         /\ Leave(s) => sealer' \in [Sealers -> SealCommands]
  <1>1. sealer[s] \in SealCommands /\ sealer[s].mem \in Replayed
    BY DEF SealCommands
  <1>2. \A at \in SealPlaces : Goto(s, at) => sealer' \in [Sealers -> SealCommands]
    BY <1>1 DEF SealCommands, Goto, SealPlaces, Looking, Owning, Recovering
  <1>3. \A m \in Replayed, at \in SealPlaces :
          Keep(s, m, at) => sealer' \in [Sealers -> SealCommands]
    <2> SUFFICES ASSUME NEW m \in Replayed, NEW at \in SealPlaces, Keep(s, m, at)
                 PROVE  sealer' \in [Sealers -> SealCommands]
      OBVIOUS
    <2>1. [sealer[s] EXCEPT !.mem = m, !.at = at] \in SealCommands
      BY <1>1 DEF SealCommands, SealPlaces, Looking, Owning, Recovering
    <2>. QED BY <2>1 DEF Keep
  <1>4. Leave(s) => sealer' \in [Sealers -> SealCommands]
    BY <1>3, BlankType DEF Leave, SealPlaces
  <1>. QED BY <1>1, <1>2, <1>3, <1>4

LEMMA FaultType ==
  ASSUME faults \in 0 .. MaxFaults
  PROVE  Fault => faults' \in 0 .. MaxFaults
  BY AttemptAssumption DEF Fault

\* An append leaves the journal, breaks it, or makes it longer.
LEMMA AppendMeans ==
  ASSUME TypeOK, NEW m, NEW e, NEW outcome \in Outcomes, Append(m, e, outcome)
  PROVE  /\ \/ journal' = journal /\ intact' = intact
            \/ journal' = journal /\ intact' = FALSE
            \/ /\ intact /\ intact' = intact /\ m.n = journal.n /\ Replays(journal, e)
               /\ journal' = After(journal, e)
         /\ outcome = "ok" => slips' = slips /\ faults' = faults
         /\ outcome = "ok" /\ intact' => journal' = After(journal, e) /\ m.n = journal.n
         /\ outcome # "ok" => slips' = slips \cup {"append"}
         /\ outcome = "ok" /\ intact /\ m.n = journal.n /\ Replays(journal, e) => intact'
  BY DEF Append, TypeOK, Outcomes

LEMMA AppendType ==
  ASSUME TypeOK, NEW m, NEW e \in Records, NEW outcome \in Outcomes, Append(m, e, outcome)
  PROVE  /\ journal' \in Replayed /\ intact' \in BOOLEAN
         /\ slips' \subseteq {"append", "takeover"} /\ faults' \in 0 .. MaxFaults
  <1>1. journal' \in Replayed
    <2>1. Replays(journal, e) => Fits(journal, e)
      BY DEF Replays
    <2>2. journal' = journal \/ (Fits(journal, e) /\ journal' = After(journal, e))
      BY <2>1, AppendMeans
    <2>3. journal \in Replayed
      BY DEF TypeOK
    <2>. QED BY <2>2, <2>3, AfterType
  <1>2. intact' \in BOOLEAN
    BY AppendMeans DEF TypeOK
  <1>3. slips' \subseteq {"append", "takeover"}
    BY AppendMeans DEF TypeOK
  <1>4. faults' \in 0 .. MaxFaults
    BY FaultType DEF TypeOK, Append
  <1>. QED BY <1>1, <1>2, <1>3, <1>4

-----------------------------------------------------------------------------
(* The records that are appended fit the memory of who appends them *)

LEMMA HereIsLane ==
  ASSUME run \in Runs, NEW a \in Agents, run.mem.pairs < Pairs
  PROVE  Here(a) \in Lanes
  BY AttemptAssumption DEF Runs, Replayed, Here, NextPair, Lanes

LEMMA RunFits ==
  ASSUME TypeOK, RunInv, run.at = "running"
  PROVE  /\ \A c \in BOOLEAN : run.mem.guards < Guards =>
              Fits(run.mem, [op |-> "guard", clean |-> c])
         /\ \A a \in Agents : lane[a].at = "active" /\ Stages(a) < LastStage =>
              Here(a) \in Lanes /\ Fits(run.mem, [op |-> "stage", lane |-> Here(a)])
         /\ \A a \in Agents : lane[a].at = "settled" =>
              /\ Here(a) \in Lanes /\ lane[a].outcome \in Results \ {"none"}
              /\ Fits(run.mem, [op |-> "terminal", lane |-> Here(a), result |-> lane[a].outcome])
         /\ run.mem.pairs = Pairs /\ run.mem.mode = "none" =>
              Fits(run.mem, [op |-> "end", mode |-> "runtime"])
         /\ run.mem.mode # "none" => Fits(run.mem, [op |-> "publishing"])
  <1>1. run \in Runs /\ run.mem \in Replayed /\ Ordered(run.mem)
    BY DEF TypeOK, Runs, RunInv, RunAlive
  <1>2. \A a \in Agents : lane[a].at # "idle" => UnderWay(a) /\ Here(a) \in Lanes
    BY <1>1, HereIsLane DEF RunInv, UnderWay
  <1>3. ASSUME NEW c \in BOOLEAN, run.mem.guards < Guards
        PROVE  Fits(run.mem, [op |-> "guard", clean |-> c])
    <2>1. run.mem.mode = "none"
      BY <1>1, <1>3, AttemptAssumption DEF Ordered, Replayed
    <2>. QED BY <1>3, <2>1 DEF Fits
  <1>4. ASSUME NEW a \in Agents, lane[a].at = "active", Stages(a) < LastStage
        PROVE  Fits(run.mem, [op |-> "stage", lane |-> Here(a)])
    BY <1>2, <1>4 DEF UnderWay, Stages, Fits
  <1>5. ASSUME NEW a \in Agents, lane[a].at = "settled"
        PROVE  /\ lane[a].outcome \in Results \ {"none"}
               /\ Fits(run.mem, [op |-> "terminal", lane |-> Here(a), result |-> lane[a].outcome])
    BY <1>2, <1>5 DEF UnderWay, Fits, Results
  <1>6. ASSUME run.mem.pairs = Pairs, run.mem.mode = "none"
        PROVE  Fits(run.mem, [op |-> "end", mode |-> "runtime"])
    <2>1. run.mem.guards = Guards
      BY <1>1, <1>6, AttemptAssumption DEF Ordered
    <2>. QED BY <1>6, <2>1 DEF Fits
  <1>7. ASSUME run.mem.mode # "none"
        PROVE  Fits(run.mem, [op |-> "publishing"])
    <2>1. ~run.mem.publishing /\ ~run.mem.published
      BY <1>1 DEF RunInv, Ordered
    <2>. QED BY <1>7, <2>1 DEF Fits
  <1>. QED BY <1>2, <1>3, <1>4, <1>5, <1>6, <1>7

LEMMA NextRecordIs ==
  ASSUME NEW s \in Sealers, NEW m \in Replayed
  PROVE  /\ NextRecord(s, m) \in Records
         /\ NextRecord(s, m).op = "terminal" =>
              NextRecord(s, m).result = "aborted"
         /\ NextRecord(s, m).op # "stage" /\ NextRecord(s, m).op # "published"
         /\ NextRecord(s, m).op \in LaneOps => NextRecord(s, m).lane[1] = NextPair(m)
         /\ NextRecord(s, m).op = "recovery" <=> m.claimer # s
         /\ NextRecord(s, m).op = "recovery" => NextRecord(s, m).by = s
         /\ NextRecord(s, m).op = "end" => NextRecord(s, m).mode = "recovery"
  <1> DEFINE e == NextRecord(s, m)
  <1>1. CASE m.claimer # s
    <2>1. e = [op |-> "recovery", by |-> s]
      BY <1>1 DEF NextRecord
    <2>. QED BY <1>1, <2>1 DEF Records, LaneOps
  <1>2. CASE m.claimer = s /\ m.mode # "none"
    <2>1. e = [op |-> "publishing"]
      BY <1>2 DEF NextRecord
    <2>. QED BY <1>2, <2>1 DEF Records, LaneOps
  <1>3. CASE m.claimer = s /\ m.mode = "none" /\ m.guards < Guards
    <2>1. e = [op |-> "guard", clean |-> FALSE]
      BY <1>3 DEF NextRecord
    <2>. QED BY <1>3, <2>1 DEF Records, LaneOps
  <1>4. CASE m.claimer = s /\ m.mode = "none" /\ ~(m.guards < Guards) /\ m.pairs = Pairs
    <2>1. e = [op |-> "end", mode |-> "recovery"]
      BY <1>4 DEF NextRecord
    <2>. QED BY <1>4, <2>1 DEF Records, LaneOps
  <1>5. CASE m.claimer = s /\ m.mode = "none" /\ ~(m.guards < Guards) /\ m.pairs # Pairs
    <2>1. CASE Missing(m) = {}
      <3>1. e = [op |-> "pair"]
        BY <1>5, <2>1 DEF NextRecord
      <3>. QED BY <1>5, <3>1 DEF Records, LaneOps
    <2>2. CASE Missing(m) # {}
      <3>1. PICK a \in Agents : e = RecoversLane(m, a)
        BY <1>5, <2>2 DEF NextRecord, Missing, Agents
      <3>2. <<NextPair(m), a>> \in Lanes
        BY <1>5, AttemptAssumption DEF Replayed, NextPair, Lanes
      <3>3. \/ e = [op |-> "terminal", lane |-> <<NextPair(m), a>>, result |-> "aborted"]
            \/ e = [op |-> "reserve", lane |-> <<NextPair(m), a>>]
            \/ e = [op |-> "notStarted", lane |-> <<NextPair(m), a>>]
        BY <3>1 DEF RecoversLane
      <3>. QED BY <1>5, <3>2, <3>3 DEF Records, LaneOps, Results
    <2>. QED BY <2>1, <2>2
  <1>. QED BY <1>1, <1>2, <1>3, <1>4, <1>5

-----------------------------------------------------------------------------
(* The steps that append, in one form each *)

Working == {"running"} \cup Late

\* The run appends e, or tries to.
RunWrites(e) ==
  /\ e \in Records /\ Fits(run.mem, e) /\ ~run.mem.published
  /\ run.at \in Working /\ run'.at \in Working
  /\ e.op # "recovery"
  /\ e.op = "end" => e.mode = "runtime" /\ run.mem.claimer = Nobody
  /\ e.op \in {"stage", "terminal"} => e.lane[1] = NextPair(run.mem)
  /\ e.op = "terminal" /\ e.result = "succeeded" => calls[e.lane] = 1
  /\ \E outcome \in Outcomes :
       /\ Append(run.mem, e, outcome)
       /\ run'.mem = IF outcome = "ok" THEN After(run.mem, e) ELSE run.mem
  /\ claim' = claim /\ sealer' = sealer /\ calls' = calls

LEMMA RunAppendsIs ==
  ASSUME run \in Runs, NEW e, NEW then, RunAppends(e, then)
  PROVE  \E outcome \in Outcomes :
           /\ Append(run.mem, e, outcome)
           /\ run'.at = IF outcome = "ok" THEN then ELSE run.at
           /\ run'.mem = IF outcome = "ok" THEN After(run.mem, e) ELSE run.mem
  <1>1. PICK outcome \in Outcomes :
          /\ Append(run.mem, e, outcome)
          /\ IF outcome = "ok" THEN Remember(After(run.mem, e), then) ELSE Stopped
    BY DEF RunAppends
  <1>2. CASE outcome = "ok"
    BY <1>1, <1>2 DEF Remember, Runs
  <1>3. CASE outcome # "ok"
    BY <1>1, <1>3 DEF Stopped, Runs
  <1>. QED BY <1>1, <1>2, <1>3

\* What the actions of the run that append have in common.
LEMMA RunWriters ==
  ASSUME IInv
  PROVE  /\ Guard \/ EndRun \/ StartPublication \/ Confirm \/ ClosePair \/ SkipLane
              => \E e : RunWrites(e)
         /\ \A a \in Agents :
              /\ Stage(a) \/ CloseLane(a) => \E e : RunWrites(e)
              /\ ReserveLane(a) =>
                   \/ \E e : RunWrites(e)
                   \/ /\ Stopped /\ run.at = "running"
                      /\ UNCHANGED <<files, sealer, calls, sealed, slips, faults>>
  <1>1. run \in Runs /\ run.mem \in Replayed /\ lane \in LanesAtWork
    BY DEF IInv, TypeOK, Runs
  <1>2. run.at = "running" =>
          ~run.mem.published /\ run.mem.claimer = Nobody /\ Ordered(run.mem)
    BY <1>1 DEF IInv, RunInv, RunAlive, Ordered
  <1>3. run.at = "running" => run.at \in Working /\ "running" \in Working
    BY DEF Working
  <1>4. ASSUME NEW e \in Records, NEW then \in Working,
               RunAppends(e, then), Fits(run.mem, e), run.at = "running",
               e.op # "recovery", e.op = "end" => e.mode = "runtime",
               e.op \in {"stage", "terminal"} => e.lane[1] = NextPair(run.mem),
               e.op = "terminal" /\ e.result = "succeeded" => calls[e.lane] = 1,
               claim' = claim, sealer' = sealer, calls' = calls
        PROVE  RunWrites(e)
    BY <1>1, <1>2, <1>3, <1>4, RunAppendsIs DEF RunWrites
  <1>5. Guard => \E e : RunWrites(e)
    <2> SUFFICES ASSUME Guard PROVE \E e : RunWrites(e)
      OBVIOUS
    <2>1. PICK c \in BOOLEAN : RunAppends([op |-> "guard", clean |-> c], "running")
      BY DEF Guard
    <2>2. Fits(run.mem, [op |-> "guard", clean |-> c])
      BY RunFits DEF Guard, IInv
    <2>3. [op |-> "guard", clean |-> c] \in Records
      BY DEF Records
    <2>. QED BY <1>3, <1>4, <2>1, <2>2, <2>3 DEF Guard
  <1>6. EndRun => \E e : RunWrites(e)
    <2> SUFFICES ASSUME EndRun PROVE \E e : RunWrites(e)
      OBVIOUS
    <2>1. Fits(run.mem, [op |-> "end", mode |-> "runtime"])
      BY RunFits DEF EndRun, IInv
    <2>2. [op |-> "end", mode |-> "runtime"] \in Records
      BY DEF Records
    <2>. QED BY <1>3, <1>4, <2>1, <2>2 DEF EndRun
  <1>7. StartPublication => \E e : RunWrites(e)
    <2> SUFFICES ASSUME StartPublication PROVE \E e : RunWrites(e)
      OBVIOUS
    <2>1. Fits(run.mem, [op |-> "publishing"])
      BY RunFits DEF StartPublication, IInv
    <2>2. [op |-> "publishing"] \in Records /\ "linking" \in Working
      BY DEF Records, Working, Late
    <2>. QED BY <1>4, <2>1, <2>2 DEF StartPublication
  <1>8. Confirm => \E e : RunWrites(e)
    <2> SUFFICES ASSUME Confirm PROVE \E e : RunWrites(e)
      OBVIOUS
    <2>1. run.mem.publishing /\ ~run.mem.published
      BY DEF Confirm, IInv, RunInv
    <2>2. Fits(run.mem, [op |-> "published"])
      BY <2>1 DEF Fits
    <2>3. [op |-> "published"] \in Records /\ run.at \in Working /\ "validating" \in Working
      BY DEF Records, Working, Late, Confirm
    <2>. QED BY <1>1, <2>1, <2>2, <2>3, RunAppendsIs DEF Confirm, RunWrites
  <1>9. ClosePair => \E e : RunWrites(e)
    <2> SUFFICES ASSUME ClosePair PROVE \E e : RunWrites(e)
      OBVIOUS
    <2>1. [op |-> "pair"] \in Records
      BY DEF Records
    <2>. QED BY <1>3, <1>4, <2>1 DEF ClosePair, InPair
  <1>10. SkipLane => \E e : RunWrites(e)
    <2> SUFFICES ASSUME SkipLane PROVE \E e : RunWrites(e)
      OBVIOUS
    <2>1. PICK a \in Agents : /\ Fits(run.mem, [op |-> "notStarted", lane |-> Here(a)])
                              /\ RunAppends([op |-> "notStarted", lane |-> Here(a)], "running")
      BY DEF SkipLane
    <2>2. [op |-> "notStarted", lane |-> Here(a)] \in Records
      BY <1>1, HereIsLane DEF Records, SkipLane, InPair
    <2>. QED BY <1>3, <1>4, <2>1, <2>2 DEF SkipLane, InPair
  <1>11. ASSUME NEW a \in Agents, Stage(a) PROVE \E e : RunWrites(e)
    <2> DEFINE e == [op |-> "stage", lane |-> Here(a)]
    <2>1. run.at = "running"
      BY <1>11 DEF Stage, Active, IInv, RunInv, Idle
    <2>2. Here(a) \in Lanes /\ Fits(run.mem, e)
      BY <1>11, <2>1, RunFits DEF Stage, Active, IInv
    <2>3. e \in Records /\ e.lane[1] = NextPair(run.mem)
      BY <2>2 DEF Records, Here
    <2>4. PICK outcome \in Outcomes :
            /\ Append(run.mem, e, outcome)
            /\ IF outcome = "ok" THEN Remember(After(run.mem, e), "running") ELSE run' = run
      BY <1>11 DEF Stage
    <2>5. /\ run'.at = "running"
          /\ run'.mem = IF outcome = "ok" THEN After(run.mem, e) ELSE run.mem
      BY <1>1, <2>1, <2>4 DEF Remember, Runs
    <2>. QED BY <1>2, <1>3, <1>11, <2>1, <2>2, <2>3, <2>4, <2>5 DEF Stage, RunWrites
  <1>12. ASSUME NEW a \in Agents, CloseLane(a) PROVE \E e : RunWrites(e)
    <2> DEFINE e == [op |-> "terminal", lane |-> Here(a), result |-> lane[a].outcome]
    <2>1. run.at = "running"
      BY <1>12 DEF CloseLane, IInv, RunInv, Idle
    <2>2. Here(a) \in Lanes /\ lane[a].outcome \in Results \ {"none"} /\ Fits(run.mem, e)
      BY <1>12, <2>1, RunFits DEF CloseLane, IInv
    <2>3. e \in Records /\ e.lane[1] = NextPair(run.mem)
      BY <2>2 DEF Records, Here
    <2>4. UnderWay(a) /\ \E b \in Agents : lane[b].at # "idle"
      BY <1>12, <2>1 DEF CloseLane, IInv, RunInv
    <2>5. e.result = "succeeded" => calls[e.lane] = 1
      BY <2>1, <2>4 DEF IInv, RunInv, UnderWay
    <2>. QED BY <1>3, <1>4, <1>12, <2>1, <2>2, <2>3, <2>5 DEF CloseLane
  <1>13. ASSUME NEW a \in Agents, ReserveLane(a)
         PROVE  \/ \E e : RunWrites(e)
                \/ /\ Stopped /\ run.at = "running"
                   /\ UNCHANGED <<files, sealer, calls, sealed, slips, faults>>
    <2> DEFINE e == [op |-> "reserve", lane |-> Here(a)]
    <2>1. CASE Fits(run.mem, e)
      <3>1. e \in Records
        BY <1>1, <1>13, HereIsLane DEF Records, ReserveLane
      <3>2. PICK outcome \in Outcomes :
              /\ Append(run.mem, e, outcome)
              /\ IF outcome = "ok" THEN Remember(After(run.mem, e), "running") ELSE Stopped
        BY <1>13, <2>1 DEF ReserveLane
      <3>3. RunAppends(e, "running")
        BY <3>2 DEF RunAppends
      <3>. QED BY <1>3, <1>4, <1>13, <2>1, <3>1, <3>3 DEF ReserveLane
    <2>2. CASE ~Fits(run.mem, e)
      BY <1>13, <2>2 DEF ReserveLane, files
    <2>. QED BY <2>1, <2>2
  <1>. QED BY <1>5, <1>6, <1>7, <1>8, <1>9, <1>10, <1>11, <1>12, <1>13

\* A seal command appends e, or tries to and gives up.
SealWrites(s, e) ==
  /\ e \in Records /\ Fits(sealer[s].mem, e) /\ ~sealer[s].mem.published
  /\ sealer[s].at = IF e.op = "published" THEN "confirming" ELSE "appending"
  /\ e.op = "recovery" => e.by = s /\ sealer[s].mem.claimer # s /\ ~sealer[s].mem.publishing
  /\ e.op # "recovery" /\ e.op # "published" => sealer[s].mem.claimer = s
  /\ e.op = "end" => e.mode = "recovery"
  /\ e.op # "stage"
  /\ e.op \in LaneOps => e.lane[1] = NextPair(sealer[s].mem)
  /\ e.op = "terminal" => e.result = "aborted"
  /\ \E outcome \in Outcomes :
       /\ Append(sealer[s].mem, e, outcome)
       /\ sealer'[s].at =
            IF outcome # "ok" THEN "over"
            ELSE IF e.op = "publishing" THEN "linking"
            ELSE IF e.op = "published" THEN "validating"
            ELSE "sealing"
       /\ sealer'[s].mem = IF outcome = "ok" THEN After(sealer[s].mem, e) ELSE Blank
  /\ \A t \in Sealers \ {s} : sealer'[t] = sealer[t]
  /\ UNCHANGED <<marker, claim, artifact, run, lane, calls, sealed>>

LEMMA SealAppendsIs ==
  ASSUME sealer \in [Sealers -> SealCommands], NEW s \in Sealers,
         NEW e, NEW then, SealAppends(s, e, then)
  PROVE  /\ \E outcome \in Outcomes :
              /\ Append(sealer[s].mem, e, outcome)
              /\ sealer'[s].at = IF outcome = "ok" THEN then ELSE "over"
              /\ sealer'[s].mem = IF outcome = "ok" THEN After(sealer[s].mem, e) ELSE Blank
         /\ \A t \in Sealers \ {s} : sealer'[t] = sealer[t]
  <1>1. PICK outcome \in Outcomes :
          /\ Append(sealer[s].mem, e, outcome)
          /\ IF outcome = "ok" THEN Keep(s, After(sealer[s].mem, e), then) ELSE Leave(s)
    BY DEF SealAppends
  <1>2. ASSUME NEW m, NEW at, Keep(s, m, at)
        PROVE  /\ sealer'[s].mem = m /\ sealer'[s].at = at
               /\ \A t \in Sealers \ {s} : sealer'[t] = sealer[t]
    <2>1. [sealer[s] EXCEPT !.mem = m, !.at = at].mem = m
      BY DEF SealCommands
    <2>2. [sealer[s] EXCEPT !.mem = m, !.at = at].at = at
      BY DEF SealCommands
    <2>3. sealer'[s] = [sealer[s] EXCEPT !.mem = m, !.at = at]
      BY <1>2 DEF Keep
    <2>4. \A t \in Sealers \ {s} : sealer'[t] = sealer[t]
      BY <1>2 DEF Keep
    <2>. QED BY <2>1, <2>2, <2>3, <2>4
  <1>3. CASE outcome = "ok"
    BY <1>1, <1>2, <1>3
  <1>4. CASE outcome # "ok"
    BY <1>1, <1>2, <1>4 DEF Leave
  <1>. QED BY <1>3, <1>4

LEMMA SealWriters ==
  ASSUME IInv, NEW s \in Sealers, Recover(s) \/ SealConfirms(s)
  PROVE  \E e : SealWrites(s, e)
  <1> DEFINE m == sealer[s].mem
  <1>1. sealer \in [Sealers -> SealCommands] /\ m \in Replayed
    BY DEF IInv, TypeOK, SealCommands
  <1>2. CASE Recover(s)
    <2> DEFINE e == NextRecord(s, m)
               then == IF e.op = "publishing" THEN "linking" ELSE "sealing"
    <2>1. Fits(m, e) /\ SealAppends(s, e, then) /\ sealer[s].at = "appending"
      BY <1>2 DEF Recover
    <2>2. ~m.publishing /\ ~m.published
      BY <2>1 DEF IInv, SealerInv
    <2>3. /\ e \in Records
          /\ e.op = "terminal" => e.result = "aborted"
          /\ e.op # "stage" /\ e.op # "published"
          /\ e.op \in LaneOps => e.lane[1] = NextPair(m)
          /\ e.op = "recovery" <=> m.claimer # s
          /\ e.op = "recovery" => e.by = s
          /\ e.op = "end" => e.mode = "recovery"
      BY <1>1, NextRecordIs
    <2>4. UNCHANGED <<marker, claim, artifact, run, lane, calls, sealed>>
      BY <1>2 DEF Recover
    <2>5. /\ \E outcome \in Outcomes :
               /\ Append(m, e, outcome)
               /\ sealer'[s].at = IF outcome = "ok" THEN then ELSE "over"
               /\ sealer'[s].mem = IF outcome = "ok" THEN After(m, e) ELSE Blank
          /\ \A t \in Sealers \ {s} : sealer'[t] = sealer[t]
      BY <1>1, <2>1, SealAppendsIs
    <2>. QED BY <2>1, <2>2, <2>3, <2>4, <2>5 DEF SealWrites
  <1>3. CASE SealConfirms(s)
    <2> DEFINE e == [op |-> "published"]
    <2>1. SealAppends(s, e, "validating") /\ sealer[s].at = "confirming"
      BY <1>3 DEF SealConfirms
    <2>2. m.publishing /\ ~m.published
      BY <2>1 DEF IInv, SealerInv
    <2>3. e \in Records /\ Fits(m, e)
      BY <2>2 DEF Records, Fits
    <2>4. UNCHANGED <<marker, claim, artifact, run, lane, calls, sealed>>
      BY <1>3 DEF SealConfirms
    <2>5. /\ \E outcome \in Outcomes :
               /\ Append(m, e, outcome)
               /\ sealer'[s].at = IF outcome = "ok" THEN "validating" ELSE "over"
               /\ sealer'[s].mem = IF outcome = "ok" THEN After(m, e) ELSE Blank
          /\ \A t \in Sealers \ {s} : sealer'[t] = sealer[t]
      BY <1>1, <2>1, SealAppendsIs
    <2>. QED BY <2>1, <2>2, <2>3, <2>4, <2>5 DEF SealWrites, LaneOps
  <1>. QED BY <1>2, <1>3

-----------------------------------------------------------------------------
(* Type correctness *)

RunActs ==
  \/ CreateMarker \/ WriteMarker \/ CreateJournal \/ Guard \/ SkipLane
  \/ \E a \in Agents : ReserveLane(a) \/ Stage(a) \/ Call(a) \/ Settle(a) \/ CloseLane(a)
  \/ ClosePair \/ EndRun \/ StartPublication \/ LinkArtifact \/ Confirm \/ ValidateRun
  \/ Stop \/ Crash

LEMMA LaneTypes ==
  ASSUME lane \in LanesAtWork, NEW a \in Agents
  PROVE  /\ \A at \in {"active", "ended"} :
              [lane EXCEPT ![a].at = at] \in LanesAtWork
         /\ \A outcome \in {"succeeded", "failed"} :
              [lane EXCEPT ![a].at = "settled", ![a].outcome = outcome] \in LanesAtWork
         /\ [lane EXCEPT ![a].called = TRUE] \in LanesAtWork
         /\ [b \in Agents |-> Idle] \in LanesAtWork
  <1>1. lane[a] \in [at : {"idle", "active", "settled", "ended"}, called : BOOLEAN, outcome : Results]
    BY DEF LanesAtWork
  <1>2. \A at \in {"active", "ended"} : [lane EXCEPT ![a].at = at] \in LanesAtWork
    BY <1>1 DEF LanesAtWork
  <1>3. ASSUME NEW outcome \in {"succeeded", "failed"}
        PROVE  [lane EXCEPT ![a].at = "settled", ![a].outcome = outcome] \in LanesAtWork
    <2> DEFINE lane1 == [lane EXCEPT ![a].at = "settled"]
    <2>1. lane1 \in LanesAtWork
      BY <1>1 DEF LanesAtWork
    <2>2. outcome \in Results
      BY DEF Results
    <2>3. [lane1 EXCEPT ![a].outcome = outcome] \in LanesAtWork
      BY <2>1, <2>2 DEF LanesAtWork
    <2>. QED BY <2>3
  <1>4. [lane EXCEPT ![a].called = TRUE] \in LanesAtWork
    BY <1>1 DEF LanesAtWork
  <1>5. [b \in Agents |-> Idle] \in LanesAtWork
    BY DEF LanesAtWork, Idle, Results
  <1>. QED BY <1>2, <1>3, <1>4, <1>5

\* What a writing step of the run does to the files, whichever it is.
LEMMA RunWritesTypes ==
  ASSUME TypeOK, NEW e, RunWrites(e)
  PROVE  /\ journal' \in Replayed /\ intact' \in BOOLEAN
         /\ slips' \subseteq {"append", "takeover"} /\ faults' \in 0 .. MaxFaults
         /\ claim' = claim /\ sealer' = sealer /\ calls' = calls
  BY AppendType DEF RunWrites

LEMMA RunAppendsTypes ==
  ASSUME TypeOK, NEW e \in Records, Fits(run.mem, e),
         NEW then \in {"running", "linking", "validating"}, RunAppends(e, then)
  PROVE  run' \in Runs
  <1>1. run \in Runs /\ lane \in LanesAtWork
    BY DEF TypeOK
  <1>2. After(run.mem, e) \in Replayed
    BY <1>1, AfterType DEF Runs
  <1>. QED BY <1>1, <1>2, RunTypes DEF RunAppends

LEMMA RunTypeStep ==
  ASSUME IInv, RunActs
  PROVE  TypeOK'
  <1>1. /\ TypeOK /\ run \in Runs /\ run.mem \in Replayed /\ lane \in LanesAtWork
        /\ [b \in Agents |-> Idle] \in LanesAtWork
    BY LaneTypes DEF IInv, TypeOK, Runs, Agents
  <1>2. CASE CreateMarker
    BY <1>1, <1>2, RunTypes, BlankType DEF CreateMarker, TypeOK
  <1>3. CASE WriteMarker
    BY <1>1, <1>3, RunTypes, BlankType, FaultType DEF WriteMarker, TypeOK
  <1>4. CASE CreateJournal
    <2> DEFINE first == [Blank EXCEPT !.n = 1]
    <2>1. first \in Replayed
      BY BlankType
    <2>2. PICK outcome \in Outcomes :
            /\ IF outcome = "ok" THEN UNCHANGED slips ELSE Fault /\ slips' = slips \cup {"append"}
            /\ journal' = IF outcome \in {"ok", "unknown"} THEN first ELSE journal
            /\ intact' = (outcome # "torn")
            /\ IF outcome = "ok" THEN Remember(first, "running") /\ UNCHANGED <<lane, faults>>
               ELSE Over
      BY <1>4 DEF CreateJournal
    <2>3. run' \in Runs /\ lane' \in LanesAtWork
      BY <1>1, <2>1, <2>2, RunTypes
    <2>4. slips' \subseteq {"append", "takeover"} /\ faults' \in 0 .. MaxFaults
      BY <1>1, <2>2, FaultType DEF TypeOK
    <2>5. journal' \in Replayed /\ intact' \in BOOLEAN
      BY <1>1, <2>1, <2>2 DEF TypeOK
    <2>. QED BY <1>1, <1>4, <2>3, <2>4, <2>5 DEF CreateJournal, TypeOK
  <1>5. CASE Guard
    <2>1. PICK c \in BOOLEAN : RunAppends([op |-> "guard", clean |-> c], "running")
      BY <1>5 DEF Guard
    <2>2. Fits(run.mem, [op |-> "guard", clean |-> c]) /\ [op |-> "guard", clean |-> c] \in Records
      BY <1>5, RunFits DEF Guard, IInv, Records
    <2>3. run' \in Runs
      BY <1>1, <2>1, <2>2, RunAppendsTypes
    <2>. QED BY <1>1, <1>5, <2>3, RunWriters, RunWritesTypes DEF Guard, TypeOK
  <1>6. CASE SkipLane
    <2>1. PICK a \in Agents : /\ Fits(run.mem, [op |-> "notStarted", lane |-> Here(a)])
                              /\ RunAppends([op |-> "notStarted", lane |-> Here(a)], "running")
      BY <1>6 DEF SkipLane
    <2>2. [op |-> "notStarted", lane |-> Here(a)] \in Records
      BY <1>1, <1>6, HereIsLane DEF Records, SkipLane, InPair
    <2>3. run' \in Runs
      BY <1>1, <2>1, <2>2, RunAppendsTypes
    <2>. QED BY <1>1, <1>6, <2>3, RunWriters, RunWritesTypes DEF SkipLane, TypeOK
  <1>7. ASSUME NEW a \in Agents, ReserveLane(a) PROVE TypeOK'
    <2> DEFINE e == [op |-> "reserve", lane |-> Here(a)]
    <2>1. e \in Records
      BY <1>1, <1>7, HereIsLane DEF Records, ReserveLane
    <2>2. lane' \in LanesAtWork
      BY <1>1, <1>7, LaneTypes DEF ReserveLane
    <2>3. CASE Fits(run.mem, e)
      <3>1. RunAppends(e, "running")
        BY <1>7, <2>3 DEF ReserveLane, RunAppends
      <3>2. run' \in Runs
        BY <1>1, <2>1, <2>3, <3>1, RunAppendsTypes
      <3>3. \/ \E d : RunWrites(d)
            \/ UNCHANGED <<files, sealer, calls, sealed, slips, faults>>
        BY <1>7, RunWriters
      <3>4. CASE \E d : RunWrites(d)
        BY <1>1, <1>7, <2>2, <3>2, <3>4, RunWritesTypes DEF ReserveLane, TypeOK
      <3>5. CASE UNCHANGED <<files, sealer, calls, sealed, slips, faults>>
        BY <1>1, <1>7, <2>2, <3>2, <3>5 DEF files, ReserveLane, TypeOK
      <3>. QED BY <3>3, <3>4, <3>5
    <2>4. CASE ~Fits(run.mem, e)
      <3>1. run' \in Runs
        BY <1>1, <1>7, <2>4, RunTypes DEF ReserveLane
      <3>. QED BY <1>1, <1>7, <2>2, <2>4, <3>1 DEF ReserveLane, TypeOK
    <2>. QED BY <2>3, <2>4
  <1>8. ASSUME NEW a \in Agents, Stage(a) PROVE TypeOK'
    <2> DEFINE e == [op |-> "stage", lane |-> Here(a)]
    <2>1. run.at = "running"
      BY <1>8 DEF Stage, Active, IInv, RunInv, Idle
    <2>2. Here(a) \in Lanes /\ Fits(run.mem, e)
      BY <1>8, <2>1, RunFits DEF Stage, Active, IInv
    <2>3. e \in Records
      BY <2>2 DEF Records
    <2>4. After(run.mem, e) \in Replayed
      BY <1>1, <2>2, <2>3, AfterType
    <2>5. run' \in Runs /\ lane' \in LanesAtWork
      BY <1>1, <1>8, <2>4, RunTypes, LaneTypes DEF Stage
    <2>. QED BY <1>1, <1>8, <2>5, RunWriters, RunWritesTypes DEF Stage, TypeOK
  <1>9. ASSUME NEW a \in Agents, Call(a) PROVE TypeOK'
    <2>1. lane' \in LanesAtWork
      BY <1>1, <1>9, LaneTypes DEF Call
    <2>2. calls' \in [Lanes -> Nat]
      <3>1. \A n \in Nat : n + 1 \in Nat
        OBVIOUS
      <3>2. calls \in [Lanes -> Nat] /\ calls' = [calls EXCEPT ![Here(a)] = @ + 1]
        BY <1>1, <1>9 DEF Call, TypeOK
      <3>3. Here(a) \in Lanes => calls[Here(a)] + 1 \in Nat
        BY <3>1, <3>2
      <3>. QED BY <3>2, <3>3
    <2>. QED BY <1>1, <1>9, <2>1, <2>2 DEF Call, TypeOK, files
  <1>10. ASSUME NEW a \in Agents, Settle(a) PROVE TypeOK'
    <2>1. lane' \in LanesAtWork
      BY <1>1, <1>10, LaneTypes DEF Settle
    <2>. QED BY <1>1, <1>10, <2>1 DEF Settle, TypeOK, files
  <1>11. ASSUME NEW a \in Agents, CloseLane(a) PROVE TypeOK'
    <2> DEFINE e == [op |-> "terminal", lane |-> Here(a), result |-> lane[a].outcome]
    <2>1. run.at = "running"
      BY <1>11 DEF CloseLane, IInv, RunInv, Idle
    <2>2. Here(a) \in Lanes /\ lane[a].outcome \in Results \ {"none"} /\ Fits(run.mem, e)
      BY <1>11, <2>1, RunFits DEF CloseLane, IInv
    <2>3. e \in Records
      BY <2>2 DEF Records
    <2>4. run' \in Runs
      BY <1>1, <1>11, <2>2, <2>3, RunAppendsTypes DEF CloseLane
    <2>5. lane' \in LanesAtWork
      BY <1>1, <1>11, LaneTypes DEF CloseLane
    <2>. QED BY <1>1, <1>11, <2>4, <2>5, RunWriters, RunWritesTypes DEF CloseLane, TypeOK
  <1>12. CASE ClosePair
    <2>1. [op |-> "pair"] \in Records
      BY DEF Records
    <2>2. run' \in Runs
      BY <1>1, <1>12, <2>1, RunAppendsTypes DEF ClosePair
    <2>. QED BY <1>1, <1>12, <2>2, RunWriters, RunWritesTypes DEF ClosePair, TypeOK
  <1>13. CASE EndRun
    <2>1. [op |-> "end", mode |-> "runtime"] \in Records
      BY DEF Records
    <2>2. Fits(run.mem, [op |-> "end", mode |-> "runtime"])
      BY <1>13, RunFits DEF EndRun, IInv
    <2>3. run' \in Runs
      BY <1>1, <1>13, <2>1, <2>2, RunAppendsTypes DEF EndRun
    <2>. QED BY <1>1, <1>13, <2>3, RunWriters, RunWritesTypes DEF EndRun, TypeOK
  <1>14. CASE StartPublication
    <2>1. [op |-> "publishing"] \in Records
      BY DEF Records
    <2>2. Fits(run.mem, [op |-> "publishing"])
      BY <1>14, RunFits DEF StartPublication, IInv
    <2>3. run' \in Runs
      BY <1>1, <1>14, <2>1, <2>2, RunAppendsTypes DEF StartPublication
    <2>. QED BY <1>1, <1>14, <2>3, RunWriters, RunWritesTypes DEF StartPublication, TypeOK
  <1>15. CASE LinkArtifact
    <2>1. run' \in Runs
      BY <1>1, <1>15, RunTypes DEF LinkArtifact
    <2>2. artifact' \in [mode : {"none", "runtime", "recovery"}, claimer : Sealers \cup {Nobody}]
      BY <1>1, <1>15 DEF LinkArtifact, Link, TypeOK, Replayed
    <2>3. faults' \in 0 .. MaxFaults
      BY <1>1, <1>15, FaultType DEF LinkArtifact, TypeOK
    <2>. QED BY <1>1, <1>15, <2>1, <2>2, <2>3 DEF LinkArtifact, TypeOK
  <1>16. CASE Confirm
    <2>1. [op |-> "published"] \in Records
      BY DEF Records
    <2>2. Fits(run.mem, [op |-> "published"])
      BY <1>16 DEF Confirm, IInv, RunInv, Fits
    <2>3. run' \in Runs
      BY <1>1, <1>16, <2>1, <2>2, RunAppendsTypes DEF Confirm
    <2>. QED BY <1>1, <1>16, <2>3, RunWriters, RunWritesTypes DEF Confirm, TypeOK
  <1>17. CASE ValidateRun
    <2>1. (sealed \/ Valid) \in BOOLEAN
      OBVIOUS
    <2>2. sealed' \in BOOLEAN
      BY <1>17, <2>1 DEF ValidateRun
    <2>. QED BY <1>1, <1>17, <2>2, RunTypes DEF ValidateRun, TypeOK, files
  <1>18. CASE Stop
    BY <1>1, <1>18, RunTypes DEF Stop, TypeOK, files
  <1>19. CASE Crash
    BY <1>1, <1>19, RunTypes, FaultType DEF Crash, TypeOK, files
  <1>. QED BY <1>2, <1>3, <1>4, <1>5, <1>6, <1>7, <1>8, <1>9, <1>10, <1>11, <1>12, <1>13,
              <1>14, <1>15, <1>16, <1>17, <1>18, <1>19 DEF RunActs

\* Seal commands that append nothing.
Quiet(s) ==
  \/ Look(s) \/ Decide(s) \/ CreateClaim(s) \/ WriteClaim(s) \/ ReadClaim(s) \/ RenameClaim(s)
  \/ Reread(s) \/ AssertOwned(s) \/ Unlink(s) \/ Fence(s) \/ SealLinks(s) \/ SealValidates(s)
  \/ SealerCrashes(s)

LEMMA SealTypeStep ==
  ASSUME TypeOK, NEW s \in Sealers, SealerInv(s), Seal(s)
  PROVE  TypeOK'
  <1>1. /\ sealer \in [Sealers -> SealCommands] /\ journal \in Replayed
        /\ sealer[s].mem \in Replayed /\ sealer[s] \in SealCommands
        /\ claim \in [by : Sealers \cup {Nobody}, whole : BOOLEAN]
    BY DEF TypeOK, SealCommands
  <1>2. \A at \in SealPlaces : Goto(s, at) => sealer' \in [Sealers -> SealCommands]
    BY <1>1, SealerTypes
  <1>3. \A m \in Replayed, at \in SealPlaces :
          Keep(s, m, at) => sealer' \in [Sealers -> SealCommands]
    BY <1>1, SealerTypes
  <1>4. Leave(s) => sealer' \in [Sealers -> SealCommands]
    BY <1>1, SealerTypes
  <1>5. /\ [by |-> s, whole |-> FALSE] \in [by : Sealers \cup {Nobody}, whole : BOOLEAN]
        /\ [claim EXCEPT !.whole = TRUE] \in [by : Sealers \cup {Nobody}, whole : BOOLEAN]
        /\ NoClaim \in [by : Sealers \cup {Nobody}, whole : BOOLEAN]
    BY <1>1 DEF NoClaim
  <1>6. CASE Look(s)
    <2>1. [Blank EXCEPT !.n = journal.n, !.publishing = journal.publishing] \in Replayed
      <3>1. [Blank EXCEPT !.n = journal.n] \in Replayed
        BY <1>1, BlankType DEF Replayed
      <3>2. journal.publishing \in BOOLEAN
        BY <1>1 DEF Replayed
      <3>. QED BY <3>1, <3>2 DEF Replayed
    <2>2. (IF Alone(s) THEN faults ELSE MaxFaults + 1) \in 0 .. MaxFaults + 1
      BY AttemptAssumption DEF TypeOK
    <2>3. sealer' \in [Sealers -> SealCommands]
      BY <1>1, <1>4, <1>6, <2>1, <2>2 DEF Look, SealCommands
    <2>. QED BY <1>6, <2>3 DEF Look, TypeOK, files
  <1>7. CASE Decide(s)
    <2>1. sealer' \in [Sealers -> SealCommands]
      BY <1>2, <1>4, <1>7 DEF Decide, SealPlaces, Looking
    <2>. QED BY <1>7, <2>1 DEF Decide, TypeOK, files
  <1>8. CASE CreateClaim(s)
    <2>1. sealer' \in [Sealers -> SealCommands]
      BY <1>2, <1>4, <1>8 DEF CreateClaim, SealPlaces, Looking
    <2>. QED BY <1>5, <1>8, <2>1 DEF CreateClaim, TypeOK
  <1>9. CASE WriteClaim(s)
    <2>1. sealer' \in [Sealers -> SealCommands]
      BY <1>2, <1>4, <1>9 DEF WriteClaim, SealPlaces, Looking
    <2>2. claim' \in [by : Sealers \cup {Nobody}, whole : BOOLEAN]
      BY <1>1, <1>5, <1>9 DEF WriteClaim
    <2>3. faults' \in 0 .. MaxFaults
      BY <1>9, FaultType DEF WriteClaim, TypeOK
    <2>. QED BY <1>9, <2>1, <2>2, <2>3 DEF WriteClaim, TypeOK
  <1>10. CASE ReadClaim(s)
    <2>1. sealer' \in [Sealers -> SealCommands]
      BY <1>2, <1>4, <1>10 DEF ReadClaim, SealPlaces, Looking
    <2>. QED BY <1>10, <2>1 DEF ReadClaim, TypeOK, files
  <1>11. CASE RenameClaim(s)
    <2>1. sealer' \in [Sealers -> SealCommands]
      BY <1>2, <1>11 DEF RenameClaim, SealPlaces, Looking
    <2>2. slips' \subseteq {"append", "takeover"}
      BY <1>11 DEF RenameClaim, TypeOK
    <2>. QED BY <1>5, <1>11, <2>1, <2>2 DEF RenameClaim, TypeOK
  <1>12. CASE Reread(s)
    <2>1. sealer' \in [Sealers -> SealCommands]
      BY <1>1, <1>2, <1>3, <1>4, <1>12 DEF Reread, SealPlaces, Owning, Recovering
    <2>. QED BY <1>12, <2>1 DEF Reread, TypeOK, files
  <1>13. CASE AssertOwned(s)
    <2>1. sealer' \in [Sealers -> SealCommands]
      BY <1>2, <1>4, <1>13 DEF AssertOwned, SealPlaces, Owning, Recovering
    <2>. QED BY <1>13, <2>1 DEF AssertOwned, TypeOK, files
  <1>14. CASE Unlink(s)
    BY <1>4, <1>5, <1>14 DEF Unlink, TypeOK
  <1>15. CASE Fence(s)
    <2>1. sealer' \in [Sealers -> SealCommands]
      BY <1>2, <1>4, <1>15 DEF Fence, SealPlaces, Owning, Recovering
    <2>. QED BY <1>15, <2>1 DEF Fence, TypeOK, files
  <1>16. ASSUME NEW e \in Records, NEW then \in SealPlaces, Fits(sealer[s].mem, e),
                SealAppends(s, e, then)
         PROVE  /\ journal' \in Replayed /\ intact' \in BOOLEAN
                /\ slips' \subseteq {"append", "takeover"} /\ faults' \in 0 .. MaxFaults
                /\ sealer' \in [Sealers -> SealCommands]
    <2>1. After(sealer[s].mem, e) \in Replayed
      BY <1>1, <1>16, AfterType
    <2>. QED BY <1>3, <1>4, <1>16, <2>1, AppendType DEF SealAppends
  <1>17. CASE Recover(s)
    <2> DEFINE e == NextRecord(s, sealer[s].mem)
               then == IF e.op = "publishing" THEN "linking" ELSE "sealing"
    <2>1. Fits(sealer[s].mem, e) /\ SealAppends(s, e, then)
      BY <1>17 DEF Recover
    <2>2. e \in Records
      BY <1>1, NextRecordIs
    <2>3. then \in SealPlaces
      BY DEF SealPlaces, Owning, Recovering
    <2>. QED BY <1>16, <1>17, <2>1, <2>2, <2>3 DEF Recover, TypeOK
  <1>18. CASE SealConfirms(s)
    <2>1. [op |-> "published"] \in Records /\ Fits(sealer[s].mem, [op |-> "published"])
      BY <1>18 DEF Records, Fits, SealConfirms, SealerInv
    <2>2. "validating" \in SealPlaces
      BY DEF SealPlaces, Owning, Recovering
    <2>. QED BY <1>16, <1>18, <2>1, <2>2 DEF SealConfirms, TypeOK
  <1>19. CASE SealLinks(s)
    <2>1. sealer' \in [Sealers -> SealCommands]
      BY <1>2, <1>4, <1>19 DEF SealLinks, SealPlaces, Owning, Recovering
    <2>2. artifact' \in [mode : {"none", "runtime", "recovery"}, claimer : Sealers \cup {Nobody}]
      BY <1>1, <1>19 DEF SealLinks, Link, TypeOK, Replayed
    <2>3. faults' \in 0 .. MaxFaults
      BY <1>19, FaultType DEF SealLinks, TypeOK
    <2>. QED BY <1>19, <2>1, <2>2, <2>3 DEF SealLinks, TypeOK
  <1>20. CASE SealValidates(s)
    <2>1. (sealed \/ Valid) \in BOOLEAN
      OBVIOUS
    <2>2. sealed' \in BOOLEAN
      BY <1>20, <2>1 DEF SealValidates
    <2>. QED BY <1>4, <1>20, <2>2 DEF SealValidates, TypeOK, files
  <1>21. CASE SealerCrashes(s)
    BY <1>4, <1>21, FaultType DEF SealerCrashes, TypeOK, files
  <1>. QED BY <1>6, <1>7, <1>8, <1>9, <1>10, <1>11, <1>12, <1>13, <1>14, <1>15, <1>17, <1>18,
              <1>19, <1>20, <1>21 DEF Seal

-----------------------------------------------------------------------------
(* The evidence *)

\* A journal that takes a record keeps what it says.
LEMMA Grows ==
  ASSUME NEW j \in Replayed, NEW e \in Records, Fits(j, e), NEW l \in Lanes
  PROVE  /\ j.lane[l].stages <= After(j, e).lane[l].stages
         /\ j.lane[l].result # "none" => After(j, e).lane[l].result = j.lane[l].result
         /\ After(j, e).lane[l].result = "succeeded" =>
              \/ j.lane[l].result = "succeeded"
              \/ e.op = "terminal" /\ l = e.lane /\ e.result = "succeeded"
  <1>1. j.lane[l].stages \in Nat
    BY DEF Replayed, LaneRecords, LastStage
  <1>2. e.op = "terminal" => j.lane[e.lane].result = "none"
    BY FitsMeans
  <1>3. e.op = "notStarted" => j.lane[e.lane].result = "none"
    BY FitsMeans DEF Opens, Untouched
  <1>4. After(j, e).lane[l].stages =
          j.lane[l].stages + (IF e.op = "stage" /\ l = e.lane THEN 1 ELSE 0)
    BY AfterLanes
  <1>5. After(j, e).lane[l].result =
          IF e.op = "terminal" /\ l = e.lane THEN e.result
          ELSE IF e.op = "notStarted" /\ l = e.lane THEN "notStarted"
          ELSE j.lane[l].result
    BY AfterLanes
  <1>6. j.lane[l].stages <= After(j, e).lane[l].stages
    BY <1>1, <1>4
  <1>. QED BY <1>2, <1>3, <1>5, <1>6

LEMMA FollowsOn ==
  ASSUME NEW m \in Replayed, NEW j \in Replayed, NEW e \in Records,
         Fits(m, e), Fits(j, e), Follows(m, j)
  PROVE  Follows(m, After(j, e)) /\ Follows(After(m, e), After(j, e))
  <1>1. Follows(m, After(j, e))
    <2> SUFFICES ASSUME NEW l \in Lanes
                 PROVE  /\ m.lane[l].stages <= After(j, e).lane[l].stages
                        /\ m.lane[l].result # "none" =>
                             After(j, e).lane[l].result = m.lane[l].result
      BY DEF Follows
    <2>1. /\ m.lane[l].stages <= j.lane[l].stages
          /\ m.lane[l].result # "none" => j.lane[l].result = m.lane[l].result
      BY DEF Follows
    <2>2. /\ j.lane[l].stages <= After(j, e).lane[l].stages
          /\ j.lane[l].result # "none" => After(j, e).lane[l].result = j.lane[l].result
      BY Grows
    <2>3. \A x \in {m, j, After(j, e)} : x.lane[l].stages \in Nat
      <3>1. \A x \in Replayed : x.lane[l].stages \in Nat
        BY DEF Replayed, LaneRecords, LastStage
      <3>2. After(j, e) \in Replayed
        BY AfterType
      <3>. QED BY <3>1, <3>2
    <2>. QED BY <2>1, <2>2, <2>3
  <1>2. Follows(After(m, e), After(j, e))
    <2> SUFFICES ASSUME NEW l \in Lanes
                 PROVE  /\ After(m, e).lane[l].stages <= After(j, e).lane[l].stages
                        /\ After(m, e).lane[l].result # "none" =>
                             After(j, e).lane[l].result = After(m, e).lane[l].result
      BY DEF Follows
    <2>1. /\ m.lane[l].stages <= j.lane[l].stages
          /\ m.lane[l].result # "none" => j.lane[l].result = m.lane[l].result
      BY DEF Follows
    <2>2. m.lane[l].stages \in Nat /\ j.lane[l].stages \in Nat
      BY DEF Replayed, LaneRecords, LastStage
    <2>3. \A x \in {m, j} :
            /\ After(x, e).lane[l].stages =
                 x.lane[l].stages + (IF e.op = "stage" /\ l = e.lane THEN 1 ELSE 0)
            /\ After(x, e).lane[l].result =
                 IF e.op = "terminal" /\ l = e.lane THEN e.result
                 ELSE IF e.op = "notStarted" /\ l = e.lane THEN "notStarted"
                 ELSE x.lane[l].result
      BY AfterLanes
    <2>4. After(m, e).lane[l].stages <= After(j, e).lane[l].stages
      BY <2>1, <2>2, <2>3
    <2>. QED BY <2>1, <2>3, <2>4
  <1>. QED BY <1>1, <1>2

\* What an append does to an intact journal.
LEMMA JournalStep ==
  ASSUME TypeOK, NEW m, NEW e \in Records, NEW outcome \in Outcomes, Append(m, e, outcome),
         journal.published => journal.publishing
  PROVE  /\ journal'.published => journal'.publishing
         /\ journal.n <= journal'.n
         /\ journal'.n = journal.n => journal' = journal
         /\ e.op # "recovery" => journal'.claimer = journal.claimer
         /\ e.op = "recovery" => journal'.claimer \in {journal.claimer, e.by}
         /\ journal' = journal \/ (Fits(journal, e) /\ journal' = After(journal, e))
         /\ intact' => intact
  <1>1. journal' = journal \/ (Replays(journal, e) /\ journal' = After(journal, e))
    BY AppendMeans
  <1>2. Replays(journal, e) => Fits(journal, e) /\ ~journal.published
    BY DEF Replays
  <1>3. journal \in Replayed /\ journal.n \in Nat
    BY DEF TypeOK, Replayed
  <1>4. intact' => intact
    BY AppendMeans DEF TypeOK
  <1>5. CASE journal' = journal
    BY <1>3, <1>4, <1>5
  <1>6. CASE Replays(journal, e) /\ journal' = After(journal, e)
    <2>1. e.op = "published" => journal.publishing
      BY <1>2, <1>6, FitsMeans
    <2>2. /\ journal'.n = journal.n + 1
          /\ journal'.claimer = (IF e.op = "recovery" THEN e.by ELSE journal.claimer)
          /\ (journal'.publishing <=> (journal.publishing \/ e.op = "publishing"))
          /\ (journal'.published <=> (journal.published \/ e.op = "published"))
      BY <1>3, <1>6, AfterRest
    <2>. QED BY <1>2, <1>3, <1>4, <1>6, <2>1, <2>2
  <1>. QED BY <1>1, <1>5, <1>6

\* What the evidence says stays true when a record is added that reports no success
\* that was not one.
LEMMA EvidenceKept ==
  ASSUME TypeOK, NEW m, NEW e \in Records, NEW outcome \in Outcomes, Append(m, e, outcome),
         journal.published => journal.publishing, EvidenceInv, calls' = calls, intact',
         e.op = "terminal" /\ e.result = "succeeded" => calls[e.lane] = 1
  PROVE  /\ \A l \in Lanes : calls'[l] = 1 =>
              /\ journal'.lane[l].stages >= DispatchStage
              /\ \A k \in Lanes : k[1] < l[1] => journal'.lane[k].result = "succeeded"
         /\ \A l \in Lanes : journal'.lane[l].result = "succeeded" => calls'[l] = 1
  <1>1. journal \in Replayed /\ journal' \in Replayed
    BY AppendType DEF TypeOK
  <1>2. journal' = journal \/ (Fits(journal, e) /\ journal' = After(journal, e))
    BY JournalStep
  <1>3. intact
    BY JournalStep
  <1>4. \A l \in Lanes : calls[l] = 1 =>
          /\ journal.lane[l].stages >= DispatchStage
          /\ \A k \in Lanes : k[1] < l[1] => journal.lane[k].result = "succeeded"
    BY <1>3 DEF EvidenceInv
  <1>5. \A l \in Lanes : journal.lane[l].result = "succeeded" => calls[l] = 1
    BY <1>3 DEF EvidenceInv
  <1>6. CASE journal' = journal
    BY <1>4, <1>5, <1>6
  <1>7. CASE Fits(journal, e) /\ journal' = After(journal, e)
    <2>1. \A l \in Lanes :
            /\ journal.lane[l].stages <= journal'.lane[l].stages
            /\ journal.lane[l].result # "none" => journal'.lane[l].result = journal.lane[l].result
            /\ journal'.lane[l].result = "succeeded" =>
                 \/ journal.lane[l].result = "succeeded"
                 \/ e.op = "terminal" /\ l = e.lane /\ e.result = "succeeded"
      BY <1>1, <1>7, Grows
    <2>2. \A l \in Lanes : journal.lane[l].stages \in Nat /\ journal'.lane[l].stages \in Nat
      BY <1>1 DEF Replayed, LaneRecords, LastStage
    <2>3. \A l \in Lanes :
            journal.lane[l].stages >= DispatchStage => journal'.lane[l].stages >= DispatchStage
      BY <2>1, <2>2 DEF DispatchStage
    <2>. QED BY <1>4, <1>5, <2>1, <2>3
  <1>. QED BY <1>2, <1>6, <1>7

LEMMA RunWritesEvidence ==
  ASSUME IInv, NEW e, RunWrites(e)
  PROVE  EvidenceInv'
  <1>1. PICK outcome \in Outcomes :
          /\ Append(run.mem, e, outcome)
          /\ run'.mem = IF outcome = "ok" THEN After(run.mem, e) ELSE run.mem
    BY DEF RunWrites
  <1>2. /\ TypeOK /\ e \in Records /\ EvidenceInv /\ run.mem \in Replayed /\ journal \in Replayed
        /\ Fits(run.mem, e) /\ (journal.published => journal.publishing)
    BY DEF IInv, TypeOK, Runs, RunWrites
  <1>3. run.at # "over" /\ RunAlive
    BY DEF RunWrites, Working, Late, RunAlive
  <1>4. \A s \in Sealers : ~Acting(s)
    BY <1>2, <1>3 DEF EvidenceInv
  <1>5. \A s \in Sealers : ~Acting(s)'
    BY <1>4 DEF Acting, RunWrites
  <1>6. ASSUME intact' PROVE journal'.claimer = Nobody
    BY <1>1, <1>2, <1>3, <1>6, JournalStep DEF EvidenceInv, RunWrites
  <1>7. ASSUME intact' PROVE Follows(run'.mem, journal')
    <2>1. Follows(run.mem, journal)
      BY <1>1, <1>2, <1>3, <1>7, JournalStep DEF EvidenceInv
    <2>2. journal' = journal \/ (Fits(journal, e) /\ journal' = After(journal, e))
      BY <1>1, <1>2, JournalStep
    <2>3. CASE outcome # "ok"
      BY <1>1, <1>2, <2>1, <2>2, <2>3, FollowsOn
    <2>4. CASE outcome = "ok"
      <3>1. journal' = After(journal, e) /\ run'.mem = After(run.mem, e)
        BY <1>1, <1>2, <1>7, <2>4, AppendMeans
      <3>2. journal'.n = journal.n + 1 /\ journal.n \in Nat
        BY <1>2, <3>1, AfterRest DEF Replayed
      <3>3. Fits(journal, e)
        BY <2>2, <3>2
      <3>. QED BY <1>2, <2>1, <3>1, <3>3, FollowsOn
    <2>. QED BY <2>3, <2>4
  <1>8. ASSUME intact'
        PROVE  /\ \A l \in Lanes : calls'[l] = 1 =>
                    /\ journal'.lane[l].stages >= DispatchStage
                    /\ \A k \in Lanes : k[1] < l[1] => journal'.lane[k].result = "succeeded"
               /\ \A l \in Lanes : journal'.lane[l].result = "succeeded" => calls'[l] = 1
    BY <1>1, <1>2, <1>8, EvidenceKept DEF RunWrites
  <1>. QED BY <1>5, <1>6, <1>7, <1>8 DEF EvidenceInv

LEMMA SealWritesEvidence ==
  ASSUME IInv, NEW s \in Sealers, NEW e, SealWrites(s, e)
  PROVE  EvidenceInv'
  <1>1. PICK outcome \in Outcomes : Append(sealer[s].mem, e, outcome)
    BY DEF SealWrites
  <1>2. TypeOK /\ e \in Records /\ EvidenceInv /\ (journal.published => journal.publishing)
    BY DEF IInv, SealWrites
  <1>3. run.at = "over" /\ run' = run
    BY <1>2 DEF EvidenceInv, Acting, SealWrites
  <1>4. ~RunAlive'
    BY <1>3 DEF RunAlive
  <1>5. ASSUME intact'
        PROVE  /\ \A l \in Lanes : calls'[l] = 1 =>
                    /\ journal'.lane[l].stages >= DispatchStage
                    /\ \A k \in Lanes : k[1] < l[1] => journal'.lane[k].result = "succeeded"
               /\ \A l \in Lanes : journal'.lane[l].result = "succeeded" => calls'[l] = 1
    BY <1>1, <1>2, <1>5, EvidenceKept DEF SealWrites
  <1>. QED BY <1>3, <1>4, <1>5 DEF EvidenceInv

\* The journal and the calls stay, and no seal command acts before the run is over.
LEMMA EvidenceUntouched ==
  ASSUME EvidenceInv, journal' = journal, intact' = intact, calls' = calls,
         \A s \in Sealers : Acting(s)' => run'.at = "over",
         run.at = "over" => run'.at = "over",
         RunAlive' => RunAlive /\ run'.mem = run.mem
  PROVE  EvidenceInv'
  BY DEF EvidenceInv, Follows

LEMMA CallEvidence ==
  ASSUME IInv, NEW a \in Agents, Call(a)
  PROVE  /\ run.at = "running" /\ Here(a) \in Lanes /\ calls[Here(a)] = 0
         /\ calls'[Here(a)] = 1 /\ (\A l \in Lanes \ {Here(a)} : calls'[l] = calls[l])
         /\ EvidenceInv'
  <1>1. /\ run \in Runs /\ run.mem \in Replayed /\ journal \in Replayed
        /\ calls \in [Lanes -> Nat] /\ EvidenceInv
    BY DEF IInv, TypeOK, Runs
  <1>2. run.at = "running"
    BY DEF Call, Active, IInv, RunInv, Idle
  <1>3. UnderWay(a) /\ lane[a].at = "active" /\ ~lane[a].called
    BY <1>2 DEF Call, Active, IInv, RunInv
  <1>4. Here(a) \in Lanes
    BY <1>1, <1>3, HereIsLane DEF UnderWay
  <1>5. calls[Here(a)] = 0
    BY <1>2, <1>3 DEF IInv, RunInv, UnderWay
  <1>6. calls'[Here(a)] = 1 /\ \A l \in Lanes \ {Here(a)} : calls'[l] = calls[l]
    <2>1. calls' = [calls EXCEPT ![Here(a)] = @ + 1]
      BY DEF Call
    <2>. QED BY <1>1, <1>4, <1>5, <2>1
  <1>7. EvidenceInv'
    <2>1. \A s \in Sealers : ~Acting(s) /\ ~Acting(s)'
      BY <1>1, <1>2 DEF EvidenceInv, Call, Acting
    <2>2. journal' = journal /\ intact' = intact /\ run' = run
      BY DEF Call, files
    <2>3. ASSUME intact
          PROVE  /\ journal.lane[Here(a)].stages >= DispatchStage
                 /\ \A k \in Lanes : k[1] < Here(a)[1] => journal.lane[k].result = "succeeded"
      <3>1. Follows(run.mem, journal)
        BY <1>1, <1>2, <2>3 DEF EvidenceInv, RunAlive
      <3>2. run.mem.lane[Here(a)].stages = DispatchStage
        BY DEF Call, Stages
      <3>3. \A k \in Lanes : k[1] < Here(a)[1] => run.mem.lane[k].result = "succeeded"
        BY <1>1, <1>3 DEF UnderWay, Here, NextPair, Replayed, Lanes
      <3>4. journal.lane[Here(a)].stages \in Nat
        BY <1>1, <1>4 DEF Replayed, LaneRecords, LastStage
      <3>. QED BY <1>4, <3>1, <3>2, <3>3, <3>4 DEF Follows, DispatchStage
    <2>4. intact => \A l \in Lanes : calls[l] = 1 =>
            /\ journal.lane[l].stages >= DispatchStage
            /\ \A k \in Lanes : k[1] < l[1] => journal.lane[k].result = "succeeded"
      BY <1>1 DEF EvidenceInv
    <2>5. intact => \A l \in Lanes : journal.lane[l].result = "succeeded" => calls[l] = 1
      BY <1>1 DEF EvidenceInv
    <2>6. intact => \A l \in Lanes : calls'[l] = 1 =>
            /\ journal.lane[l].stages >= DispatchStage
            /\ \A k \in Lanes : k[1] < l[1] => journal.lane[k].result = "succeeded"
      BY <1>6, <2>3, <2>4
    <2>7. intact => \A l \in Lanes : journal.lane[l].result = "succeeded" => calls'[l] = 1
      BY <1>6, <2>5
    <2>8. intact => /\ journal.claimer # Nobody => run.at = "over"
                    /\ RunAlive => Follows(run.mem, journal)
      BY <1>1 DEF EvidenceInv
    <2>. QED BY <2>1, <2>2, <2>6, <2>7, <2>8 DEF EvidenceInv, RunAlive, Follows
  <1>. QED BY <1>2, <1>4, <1>5, <1>6, <1>7

LEMMA CreateJournalEvidence ==
  ASSUME IInv, CreateJournal
  PROVE  EvidenceInv'
  <1> DEFINE first == [Blank EXCEPT !.n = 1]
  <1>1. journal = Blank /\ \A l \in Lanes : calls[l] = 0
    BY DEF CreateJournal, IInv, RunInv, Early
  <1>2. \A s \in Sealers : ~Acting(s) /\ ~Acting(s)'
    BY DEF CreateJournal, IInv, EvidenceInv, Acting
  <1>3. journal' \in {Blank, first} /\ (RunAlive' => run'.mem = first /\ journal' = first)
    <2>1. run \in Runs
      BY DEF IInv, TypeOK
    <2>2. PICK outcome \in Outcomes :
            /\ journal' = IF outcome \in {"ok", "unknown"} THEN first ELSE journal
            /\ IF outcome = "ok" THEN Remember(first, "running") ELSE Over
      BY DEF CreateJournal
    <2>. QED BY <1>1, <2>1, <2>2, RunFields DEF RunAlive
  <1>4. \A j \in {Blank, first} :
          j.lane = [l \in Lanes |-> Untouched] /\ j.claimer = Nobody
    BY DEF Blank
  <1>5. \A l \in Lanes : journal'.lane[l].result = "none" /\ calls'[l] = 0
    BY <1>1, <1>3, <1>4 DEF Untouched, CreateJournal
  <1>6. RunAlive' => Follows(run'.mem, journal')
    <2>1. \A l \in Lanes : first.lane[l].stages <= first.lane[l].stages
      BY <1>4 DEF Untouched
    <2>. QED BY <1>3, <2>1 DEF Follows
  <1>7. journal'.claimer = Nobody
    BY <1>3, <1>4
  <1>. QED BY <1>2, <1>5, <1>6, <1>7 DEF EvidenceInv

LEMMA EvidenceStep ==
  ASSUME IInv, Next
  PROVE  EvidenceInv'
  <1>1. EvidenceInv /\ run \in Runs
    BY DEF IInv, TypeOK
  <1>2. ASSUME run.at # "over", UNCHANGED <<journal, intact, sealer, calls>>,
               run'.at = "over" \/ (RunAlive /\ run'.mem = run.mem)
        PROVE  EvidenceInv'
    BY <1>1, <1>2, EvidenceUntouched DEF EvidenceInv, Acting, RunAlive
  <1>3. CASE CreateMarker \/ WriteMarker
    <2>1. /\ run.at \in {"absent", "marking"} /\ journal' = journal /\ sealer' = sealer
          /\ calls' = calls /\ intact' = intact
      BY <1>3 DEF CreateMarker, WriteMarker
    <2>2. journal = Blank /\ \A l \in Lanes : calls[l] = 0
      BY <2>1 DEF IInv, RunInv, Early
    <2>3. run'.at = "over" \/ run'.mem = Blank
      BY <1>1, <1>3, RunFields DEF CreateMarker, WriteMarker
    <2>4. Follows(Blank, Blank)
      BY DEF Blank, Untouched, Follows
    <2>5. \A s \in Sealers : ~Acting(s)'
      BY <1>1, <2>1 DEF EvidenceInv, Acting
    <2>6. journal.claimer = Nobody
      BY <2>2 DEF Blank
    <2>. QED BY <1>1, <2>1, <2>2, <2>3, <2>4, <2>5, <2>6 DEF EvidenceInv, RunAlive
  <1>4. CASE CreateJournal
    BY <1>4, CreateJournalEvidence
  <1>5. CASE \E e : RunWrites(e)
    BY <1>5, RunWritesEvidence
  <1>6. ASSUME NEW a \in Agents, Call(a) PROVE EvidenceInv'
    BY <1>6, CallEvidence
  <1>7. ASSUME NEW a \in Agents, Settle(a) PROVE EvidenceInv'
    <2>1. run.at = "running"
      BY <1>7 DEF Settle, Active, IInv, RunInv, Idle
    <2>. QED BY <1>2, <1>7, <2>1 DEF Settle, files, RunAlive
  <1>8. ASSUME Stopped, run.at = "running",
               UNCHANGED <<files, sealer, calls, sealed, slips, faults>>
        PROVE  EvidenceInv'
    BY <1>1, <1>2, <1>8 DEF Stopped, files, RunAlive, Runs
  <1>9. CASE LinkArtifact
    <2>1. run'.mem = run.mem /\ RunAlive /\ run.at # "over"
      BY <1>1, <1>9 DEF LinkArtifact, Remember, Stopped, Runs, RunAlive
    <2>. QED BY <1>2, <1>9, <2>1 DEF LinkArtifact
  <1>10. CASE ValidateRun \/ Stop \/ Crash
    <2>1. /\ run'.at = "over" /\ journal' = journal /\ intact' = intact
          /\ sealer' = sealer /\ calls' = calls
      BY <1>10 DEF ValidateRun, Stop, Crash, Over, files
    <2>. QED BY <1>1, <2>1, EvidenceUntouched DEF RunAlive
  <1>11. ASSUME NEW s \in Sealers, Recover(s) \/ SealConfirms(s) PROVE EvidenceInv'
    BY <1>11, SealWriters, SealWritesEvidence
  <1>12. ASSUME NEW s \in Sealers, Quiet(s) PROVE EvidenceInv'
    <2>1. /\ journal' = journal /\ intact' = intact /\ calls' = calls /\ run' = run
      BY <1>12 DEF Quiet, Look, Decide, CreateClaim, WriteClaim, ReadClaim, RenameClaim, Reread,
                   AssertOwned, Unlink, Fence, SealLinks, SealValidates, SealerCrashes, files
    <2>2. Acting(s)' => run.at = "over"
      <3>1. ASSUME sealer'[s].at \notin {"idle", "looked", "over"} PROVE run.at = "over"
        <4>1. CASE Acting(s)
          BY <1>1, <4>1 DEF EvidenceInv
        <4>2. CASE ~Acting(s)
          <5>1. Decide(s) /\ ~RunAlive
            <6>1. sealer \in [Sealers -> SealCommands]
              BY DEF IInv, TypeOK
            <6>2. sealer[s].at \in {"idle", "looked", "over"}
              BY <4>2 DEF Acting
            <6>3. Look(s) \/ Decide(s) \/ SealerCrashes(s)
              BY <1>12, <6>2 DEF Quiet, CreateClaim, WriteClaim, ReadClaim, RenameClaim, Reread,
                   AssertOwned, Unlink, Fence, SealLinks, SealValidates
            <6>4. Leave(s) => sealer'[s].at = "over"
              BY <6>1 DEF Leave, Keep, SealCommands
            <6>. QED BY <3>1, <6>1, <6>3, <6>4 DEF Look, Decide, SealerCrashes
          <5>2. run.at # "absent"
            <6>1. 0 < sealer[s].mem.n /\ sealer[s].mem.n <= journal.n
              BY <5>1 DEF Decide, IInv, SealerInv, Looking
            <6>2. journal # Blank
              BY <6>1 DEF Blank, IInv, TypeOK, SealCommands, Replayed
            <6>. QED BY <6>2 DEF IInv, RunInv, Early
          <5>. QED BY <5>1, <5>2 DEF RunAlive
        <4>. QED BY <4>1, <4>2
      <3>. QED BY <3>1 DEF Acting
    <2>3. \A t \in Sealers \ {s} : sealer'[t] = sealer[t]
      BY <1>12 DEF Quiet, Look, Decide, CreateClaim, WriteClaim, ReadClaim, RenameClaim, Reread,
                   AssertOwned, Unlink, Fence, SealLinks, SealValidates, SealerCrashes,
                   Goto, Leave, Keep, IInv, TypeOK
    <2>4. \A t \in Sealers : Acting(t)' => run'.at = "over"
      BY <1>1, <2>1, <2>2, <2>3 DEF Acting, EvidenceInv
    <2>. QED BY <1>1, <2>1, <2>4, EvidenceUntouched DEF RunAlive
  <1>13. CASE RunActs
    <2>1. CASE Guard \/ EndRun \/ StartPublication \/ Confirm \/ ClosePair \/ SkipLane
      BY <1>5, <2>1, RunWriters
    <2>2. ASSUME NEW a \in Agents, Stage(a) \/ CloseLane(a) \/ ReserveLane(a)
          PROVE  EvidenceInv'
      BY <1>5, <1>8, <2>2, RunWriters
    <2>. QED BY <1>3, <1>4, <1>6, <1>7, <1>9, <1>10, <1>13, <2>1, <2>2 DEF RunActs
  <1>. QED BY <1>11, <1>12, <1>13 DEF Next, RunActs, Seal, Quiet

-----------------------------------------------------------------------------
(* What a seal command remembers *)

LEMMA SealerFields ==
  ASSUME sealer \in [Sealers -> SealCommands], NEW s \in Sealers
  PROVE  /\ \A at : Goto(s, at) => sealer'[s].at = at /\ sealer'[s].mem = sealer[s].mem
         /\ \A m, at : Keep(s, m, at) => sealer'[s].at = at /\ sealer'[s].mem = m
         /\ Leave(s) => sealer'[s].at = "over"
         /\ \A at : Goto(s, at) => \A t \in Sealers \ {s} : sealer'[t] = sealer[t]
         /\ \A m, at : Keep(s, m, at) => \A t \in Sealers \ {s} : sealer'[t] = sealer[t]
         /\ Leave(s) => \A t \in Sealers \ {s} : sealer'[t] = sealer[t]
  <1>1. ASSUME NEW at, Goto(s, at)
        PROVE  /\ sealer'[s].at = at /\ sealer'[s].mem = sealer[s].mem
               /\ \A t \in Sealers \ {s} : sealer'[t] = sealer[t]
    BY <1>1 DEF Goto, SealCommands
  <1>2. ASSUME NEW m, NEW at, Keep(s, m, at)
        PROVE  /\ sealer'[s].at = at /\ sealer'[s].mem = m
               /\ \A t \in Sealers \ {s} : sealer'[t] = sealer[t]
    <2>1. [sealer[s] EXCEPT !.mem = m, !.at = at].mem = m
      BY DEF SealCommands
    <2>2. [sealer[s] EXCEPT !.mem = m, !.at = at].at = at
      BY DEF SealCommands
    <2>3. sealer'[s] = [sealer[s] EXCEPT !.mem = m, !.at = at]
      BY <1>2 DEF Keep
    <2>4. \A t \in Sealers \ {s} : sealer'[t] = sealer[t]
      BY <1>2 DEF Keep
    <2>. QED BY <2>1, <2>2, <2>3, <2>4
  <1>3. Leave(s) => /\ sealer'[s].at = "over"
                    /\ \A t \in Sealers \ {s} : sealer'[t] = sealer[t]
    BY <1>2 DEF Leave
  <1>. QED BY <1>1, <1>2, <1>3

\* A seal command that rests is not disturbed by a journal that grows.
LEMMA SealerUntouched ==
  ASSUME TypeOK, NEW t \in Sealers, SealerInv(t), sealer'[t] = sealer[t],
         journal' \in Replayed, journal.n <= journal'.n,
         journal'.n = journal.n => journal' = journal,
         journal'.claimer = t => journal.claimer = t
  PROVE  SealerInv(t)'
  <1>1. sealer[t].mem.n \in Nat /\ journal.n \in Nat /\ journal'.n \in Nat
    BY DEF TypeOK, SealCommands, Replayed
  <1>. QED BY <1>1 DEF SealerInv

LEMMA RunWritesSealers ==
  ASSUME IInv, NEW e, RunWrites(e)
  PROVE  /\ \A t \in Sealers : SealerInv(t)'
         /\ journal'.published => journal'.publishing
  <1>1. PICK outcome \in Outcomes : Append(run.mem, e, outcome)
    BY DEF RunWrites
  <1>2. TypeOK /\ e \in Records /\ e.op # "recovery" /\ (journal.published => journal.publishing)
    BY DEF IInv, RunWrites
  <1>3. /\ journal.n <= journal'.n
        /\ journal'.n = journal.n => journal' = journal
        /\ journal'.claimer = journal.claimer
        /\ journal'.published => journal'.publishing
    BY <1>1, <1>2, JournalStep
  <1>4. journal' \in Replayed
    BY <1>2, RunWritesTypes
  <1>. QED BY <1>2, <1>3, <1>4, SealerUntouched DEF IInv, RunWrites

LEMMA SealWritesSealers ==
  ASSUME IInv, NEW s \in Sealers, NEW e, SealWrites(s, e)
  PROVE  /\ \A t \in Sealers : SealerInv(t)'
         /\ journal'.published => journal'.publishing
  <1>1. PICK outcome \in Outcomes :
          /\ Append(sealer[s].mem, e, outcome)
          /\ sealer'[s].at = IF outcome # "ok" THEN "over"
                             ELSE IF e.op = "publishing" THEN "linking"
                             ELSE IF e.op = "published" THEN "validating"
                             ELSE "sealing"
          /\ sealer'[s].mem = IF outcome = "ok" THEN After(sealer[s].mem, e) ELSE Blank
    BY DEF SealWrites
  <1>2. TypeOK /\ e \in Records /\ (journal.published => journal.publishing)
    BY DEF IInv, SealWrites
  <1>3. /\ journal.n <= journal'.n
        /\ journal'.n = journal.n => journal' = journal
        /\ e.op # "recovery" => journal'.claimer = journal.claimer
        /\ e.op = "recovery" => journal'.claimer \in {journal.claimer, e.by}
        /\ journal'.published => journal'.publishing
    BY <1>1, <1>2, JournalStep
  <1>4. journal' \in Replayed
    BY <1>1, <1>2, AppendType
  <1>5. ASSUME NEW t \in Sealers \ {s} PROVE SealerInv(t)'
    <2>1. sealer'[t] = sealer[t] /\ SealerInv(t)
      BY DEF SealWrites, IInv
    <2>2. journal'.claimer = t => journal.claimer = t
      BY <1>3 DEF SealWrites
    <2>. QED BY <1>2, <1>3, <1>4, <2>1, <2>2, SealerUntouched
  <1>6. SealerInv(s)'
    <2>1. CASE outcome # "ok"
      BY <1>1, <2>1 DEF SealerInv, Looking
    <2>2. CASE outcome = "ok"
      <3>1. sealer[s].mem \in Replayed
        BY <1>2 DEF TypeOK, SealCommands
      <3>2. /\ (sealer'[s].mem.publishing <=> (sealer[s].mem.publishing \/ e.op = "publishing"))
            /\ (sealer'[s].mem.published <=> (sealer[s].mem.published \/ e.op = "published"))
        BY <1>1, <1>2, <2>2, <3>1, AfterRest
      <3>3. sealer[s].at = "appending" => ~sealer[s].mem.publishing /\ ~sealer[s].mem.published
        BY DEF IInv, SealerInv
      <3>4. sealer[s].at = "confirming" => sealer[s].mem.publishing
        BY DEF IInv, SealerInv
      <3>5. e.op = "published" => sealer[s].mem.publishing
        BY FitsMeans DEF SealWrites
      <3>6. sealer[s].at = IF e.op = "published" THEN "confirming" ELSE "appending"
        BY DEF SealWrites
      <3>. QED BY <1>1, <2>2, <3>2, <3>3, <3>4, <3>5, <3>6 DEF SealerInv, Looking, SealWrites
    <2>. QED BY <2>1, <2>2
  <1>. QED BY <1>3, <1>5, <1>6

\* What the quiet steps of a seal command leave alone.
LEMMA QuietMeans ==
  ASSUME TypeOK, NEW s \in Sealers, Quiet(s)
  PROVE  /\ UNCHANGED <<marker, journal, intact, run, lane, calls>>
         /\ \A t \in Sealers \ {s} : sealer'[t] = sealer[t]
         /\ slips' = slips \/ slips' = slips \cup {"takeover"}
  <1>1. sealer \in [Sealers -> SealCommands]
    BY DEF TypeOK
  <1>2. UNCHANGED <<marker, journal, intact, run, lane, calls>>
    BY DEF Quiet, Look, Decide, CreateClaim, WriteClaim, ReadClaim, RenameClaim, Reread,
           AssertOwned, Unlink, Fence, SealLinks, SealValidates, SealerCrashes, files
  <1>3. slips' = slips \/ slips' = slips \cup {"takeover"}
    BY DEF Quiet, Look, Decide, CreateClaim, WriteClaim, ReadClaim, RenameClaim, Reread,
           AssertOwned, Unlink, Fence, SealLinks, SealValidates, SealerCrashes
  <1>4. \A t \in Sealers \ {s} : sealer'[t] = sealer[t]
    BY <1>1, SealerFields
       DEF Quiet, Look, Decide, CreateClaim, WriteClaim, ReadClaim, RenameClaim, Reread,
           AssertOwned, Unlink, Fence, SealLinks, SealValidates, SealerCrashes
  <1>. QED BY <1>2, <1>3, <1>4

\* Where a quiet step leads, and what the seal command then remembers.
LEMMA QuietMoves ==
  ASSUME TypeOK, NEW s \in Sealers, Quiet(s)
  PROVE  LET at == sealer[s].at  to == sealer'[s].at IN
         /\ \/ to = "over"
            \/ /\ at = "idle" /\ to = "looked" /\ journal.n > 0
               /\ sealer'[s].mem.n = journal.n
               /\ sealer'[s].mem.publishing = journal.publishing
            \/ /\ at = "looked" /\ to = "claiming" /\ ~sealer[s].mem.publishing
               /\ sealer'[s].mem = sealer[s].mem
            \/ /\ at \in Looking \ {"looked"} /\ to \in Looking \ {"looked"}
               /\ sealer'[s].mem = sealer[s].mem
            \/ at = "claimed" /\ to = "releasing"
            \/ /\ at = "claimed" /\ to = "owning"
               /\ sealer[s].mem.n = journal.n /\ sealer'[s].mem = journal
            \/ at = "owning" /\ to = "sealing" /\ sealer'[s].mem = sealer[s].mem
            \/ at \in {"owning", "releasing"} /\ to \in {"releasing", "unlinking"}
            \/ at = "sealing" /\ to = "appending" /\ sealer'[s].mem = sealer[s].mem
            \/ at = "linking" /\ to = "confirming" /\ sealer'[s].mem = sealer[s].mem
  <1>1. sealer \in [Sealers -> SealCommands]
    BY DEF TypeOK
  <1>2. /\ \A at : Goto(s, at) => sealer'[s].at = at /\ sealer'[s].mem = sealer[s].mem
        /\ \A m, at : Keep(s, m, at) => sealer'[s].at = at /\ sealer'[s].mem = m
        /\ Leave(s) => sealer'[s].at = "over"
    BY <1>1, SealerFields
  <1>3. CASE Look(s)
    <2>1. CASE marker = "whole" /\ intact /\ journal.n > 0
      <3> DEFINE seen == [Blank EXCEPT !.n = journal.n, !.publishing = journal.publishing]
      <3>1. [Blank EXCEPT !.n = journal.n].n = journal.n
        BY DEF Blank
      <3>2. seen.n = journal.n /\ seen.publishing = journal.publishing
        BY DEF Blank
      <3>3. sealer'[s].at = "looked" /\ sealer'[s].mem = seen /\ sealer[s].at = "idle"
        BY <1>1, <1>3, <2>1 DEF Look
      <3>. QED BY <2>1, <3>2, <3>3
    <2>2. CASE ~(marker = "whole" /\ intact /\ journal.n > 0)
      BY <1>2, <1>3, <2>2 DEF Look
    <2>. QED BY <2>1, <2>2
  <1>4. CASE Decide(s)
    BY <1>2, <1>4 DEF Decide
  <1>5. CASE CreateClaim(s)
    BY <1>2, <1>5 DEF CreateClaim, Looking
  <1>6. CASE WriteClaim(s)
    BY <1>2, <1>6 DEF WriteClaim, Looking
  <1>7. CASE ReadClaim(s)
    BY <1>2, <1>7 DEF ReadClaim, Looking
  <1>8. CASE RenameClaim(s)
    BY <1>2, <1>8 DEF RenameClaim, Looking
  <1>9. CASE Reread(s)
    BY <1>2, <1>9 DEF Reread
  <1>10. CASE AssertOwned(s)
    BY <1>2, <1>10 DEF AssertOwned
  <1>11. CASE Unlink(s) \/ SealValidates(s) \/ SealerCrashes(s)
    BY <1>2, <1>11 DEF Unlink, SealValidates, SealerCrashes
  <1>12. CASE Fence(s)
    BY <1>2, <1>12 DEF Fence
  <1>13. CASE SealLinks(s)
    BY <1>2, <1>13 DEF SealLinks
  <1>. QED BY <1>3, <1>4, <1>5, <1>6, <1>7, <1>8, <1>9, <1>10, <1>11, <1>12, <1>13 DEF Quiet

LEMMA QuietSealers ==
  ASSUME IInv, NEW s \in Sealers, Quiet(s)
  PROVE  \A t \in Sealers : SealerInv(t)'
  <1>1. TypeOK /\ SealerInv(s) /\ (journal.published => journal.publishing)
    BY DEF IInv
  <1>2. journal' = journal /\ \A t \in Sealers \ {s} : sealer'[t] = sealer[t]
    BY <1>1, QuietMeans
  <1>3. ASSUME NEW t \in Sealers \ {s} PROVE SealerInv(t)'
    BY <1>2, <1>3 DEF IInv, SealerInv
  <1>4. SealerInv(s)'
    <2> DEFINE at == sealer[s].at
               to == sealer'[s].at
    <2>1. CASE to = "over"
      BY <2>1 DEF SealerInv, Looking
    <2>2. CASE /\ at = "idle" /\ to = "looked" /\ journal.n > 0
               /\ sealer'[s].mem.n = journal.n /\ sealer'[s].mem.publishing = journal.publishing
      <3>1. journal.n \in Nat
        BY <1>1 DEF TypeOK, Replayed
      <3>. QED BY <1>1, <1>2, <2>2, <3>1 DEF SealerInv, Looking
    <2>3. CASE /\ at = "looked" /\ to = "claiming" /\ ~sealer[s].mem.publishing
               /\ sealer'[s].mem = sealer[s].mem
      BY <1>1, <1>2, <2>3 DEF SealerInv, Looking
    <2>4. CASE /\ at \in Looking \ {"looked"} /\ to \in Looking \ {"looked"}
               /\ sealer'[s].mem = sealer[s].mem
      BY <1>1, <1>2, <2>4 DEF SealerInv, Looking
    <2>5. CASE at = "claimed" /\ to = "releasing"
      BY <1>1, <1>2, <2>5 DEF SealerInv, Looking
    <2>6. CASE /\ at = "claimed" /\ to = "owning"
               /\ sealer[s].mem.n = journal.n /\ sealer'[s].mem = journal
      <3>1. ~journal.publishing /\ ~journal.published
        BY <1>1, <2>6 DEF SealerInv, Looking
      <3>. QED BY <1>1, <1>2, <2>6, <3>1 DEF SealerInv, Looking
    <2>7. CASE at = "owning" /\ to = "sealing" /\ sealer'[s].mem = sealer[s].mem
      BY <1>1, <1>2, <2>7 DEF SealerInv, Looking
    <2>8. CASE at \in {"owning", "releasing"} /\ to \in {"releasing", "unlinking"}
      BY <1>1, <1>2, <2>8 DEF SealerInv, Looking
    <2>9. CASE at = "sealing" /\ to = "appending" /\ sealer'[s].mem = sealer[s].mem
      BY <1>1, <1>2, <2>9 DEF SealerInv, Looking
    <2>10. CASE at = "linking" /\ to = "confirming" /\ sealer'[s].mem = sealer[s].mem
      BY <1>1, <1>2, <2>10 DEF SealerInv, Looking
    <2>. QED BY <1>1, <2>1, <2>2, <2>3, <2>4, <2>5, <2>6, <2>7, <2>8, <2>9, <2>10, QuietMoves
  <1>. QED BY <1>3, <1>4

LEMMA SealerStep ==
  ASSUME IInv, Next
  PROVE  (\A t \in Sealers : SealerInv(t)') /\ (journal'.published => journal'.publishing)
  <1>1. TypeOK /\ (\A t \in Sealers : SealerInv(t)) /\ (journal.published => journal.publishing)
    BY DEF IInv
  <1>2. ASSUME journal' = journal, sealer' = sealer
        PROVE  (\A t \in Sealers : SealerInv(t)') /\ (journal'.published => journal'.publishing)
    BY <1>1, <1>2 DEF SealerInv
  <1>3. ASSUME NEW e, RunWrites(e)
        PROVE  (\A t \in Sealers : SealerInv(t)') /\ (journal'.published => journal'.publishing)
    BY <1>3, RunWritesSealers
  <1>4. CASE CreateJournal
    <2>1. /\ journal = Blank /\ journal' \in {Blank, [Blank EXCEPT !.n = 1]}
          /\ sealer' = sealer
      BY <1>4 DEF CreateJournal, IInv, RunInv, Early
    <2>2. /\ journal' \in Replayed /\ journal'.claimer = Nobody /\ ~journal'.published
          /\ journal' = journal \/ journal'.n = 1
      <3>1. /\ Blank.claimer = Nobody /\ ~Blank.published
            /\ [Blank EXCEPT !.n = 1].claimer = Nobody /\ ~[Blank EXCEPT !.n = 1].published
            /\ [Blank EXCEPT !.n = 1].n = 1
        BY DEF Blank
      <3>. QED BY <2>1, <3>1, BlankType
    <2>3. journal.n = 0
      BY <2>1 DEF Blank
    <2>4. \A t \in Sealers : t # Nobody
      BY AttemptAssumption
    <2>. QED BY <1>1, <2>1, <2>2, <2>3, <2>4, SealerUntouched
  <1>5. CASE RunActs
    <2>1. CASE CreateMarker \/ WriteMarker \/ LinkArtifact \/ ValidateRun \/ Stop \/ Crash
      BY <1>2, <2>1 DEF CreateMarker, WriteMarker, LinkArtifact, ValidateRun, Stop, Crash, files
    <2>2. CASE Guard \/ EndRun \/ StartPublication \/ Confirm \/ ClosePair \/ SkipLane
      BY <1>3, <2>2, RunWriters
    <2>3. ASSUME NEW a \in Agents, Stage(a) \/ CloseLane(a) \/ ReserveLane(a)
          PROVE  (\A t \in Sealers : SealerInv(t)') /\ (journal'.published => journal'.publishing)
      <3>1. (\E e : RunWrites(e)) \/ (journal' = journal /\ sealer' = sealer)
        BY <2>3, RunWriters DEF files
      <3>. QED BY <1>2, <1>3, <3>1
    <2>4. ASSUME NEW a \in Agents, Call(a) \/ Settle(a)
          PROVE  (\A t \in Sealers : SealerInv(t)') /\ (journal'.published => journal'.publishing)
      BY <1>2, <2>4 DEF Call, Settle, files
    <2>. QED BY <1>4, <1>5, <2>1, <2>2, <2>3, <2>4 DEF RunActs
  <1>6. ASSUME NEW s \in Sealers, Seal(s)
        PROVE  (\A t \in Sealers : SealerInv(t)') /\ (journal'.published => journal'.publishing)
    <2>1. CASE Quiet(s)
      <3>1. journal' = journal
        BY <1>1, <2>1, QuietMeans
      <3>. QED BY <1>1, <2>1, <3>1, QuietSealers
    <2>2. CASE Recover(s) \/ SealConfirms(s)
      BY <2>2, SealWriters, SealWritesSealers
    <2>. QED BY <1>6, <2>1, <2>2 DEF Seal, Quiet
  <1>. QED BY <1>5, <1>6 DEF Next, RunActs

-----------------------------------------------------------------------------
(* The owner of the claim *)

LEMMA RunWritesOwner ==
  ASSUME IInv, NEW e, RunWrites(e)
  PROVE  MemoryInv' /\ ClaimInv'
  <1>1. PICK outcome \in Outcomes :
          /\ Append(run.mem, e, outcome)
          /\ run'.mem = IF outcome = "ok" THEN After(run.mem, e) ELSE run.mem
    BY DEF RunWrites
  <1>2. TypeOK /\ e \in Records /\ EvidenceInv /\ (journal.published => journal.publishing)
    BY DEF IInv, RunWrites
  <1>3. MemoryInv'
    <2> SUFFICES ASSUME slips' = {}
                 PROVE  intact' /\ (run'.at = "running" \/ run'.at \in Late => run'.mem = journal')
      BY DEF MemoryInv
    <2>1. outcome = "ok" /\ slips = {}
      BY <1>1, <1>2, AppendMeans
    <2>2. intact /\ run.mem = journal
      BY <2>1 DEF IInv, MemoryInv, RunWrites, Working
    <2>3. Replays(journal, e)
      BY <2>2 DEF RunWrites, Replays
    <2>4. intact'
      BY <1>1, <1>2, <2>1, <2>2, <2>3, AppendMeans
    <2>5. journal' = After(journal, e)
      BY <1>1, <1>2, <2>1, <2>4, AppendMeans
    <2>. QED BY <1>1, <2>1, <2>2, <2>4, <2>5
  <1>4. ClaimInv'
    <2>1. slips' = slips \/ slips' = slips \cup {"append"}
      BY <1>1, <1>2, AppendMeans
    <2>2. journal'.claimer = journal.claimer /\ claim' = claim /\ sealer' = sealer
      BY <1>1, <1>2, JournalStep DEF RunWrites
    <2>3. \A s \in Sealers : sealer[s].at \notin Owning
      BY <1>2 DEF EvidenceInv, Acting, Owning, Recovering, RunWrites, Working, Late
    <2>. QED BY <2>1, <2>2, <2>3 DEF IInv, ClaimInv, Owning
  <1>. QED BY <1>3, <1>4

\* The owner of the claim appends what the replay accepts.
LEMMA OwnerWrites ==
  ASSUME IInv, NEW s \in Sealers, NEW e, SealWrites(s, e), "takeover" \notin slips, intact
  PROVE  /\ sealer[s].mem = journal /\ journal \in Replayed
         /\ claim.by = s /\ journal.claimer \in {Nobody, s}
         /\ Replays(journal, e)
  <1>1. sealer[s].at \in Recovering /\ sealer[s].at \in Owning
    BY DEF SealWrites, Recovering, Owning
  <1>2. sealer[s].mem = journal /\ claim.by = s /\ journal \in Replayed
    BY <1>1 DEF IInv, ClaimInv, TypeOK
  <1>3. journal.claimer \in {Nobody, s}
    BY <1>2 DEF IInv, ClaimInv
  <1>4. ~journal.published /\ s # Nobody
    BY <1>2, AttemptAssumption DEF SealWrites
  <1>5. e.op \in {"stage", "terminal"} => e.lane[1] = NextPair(journal)
    BY <1>2 DEF SealWrites, LaneOps
  <1>6. e.op = "recovery" => ~journal.publishing /\ journal.claimer = Nobody
    BY <1>2, <1>3 DEF SealWrites
  <1>7. e.op = "end" => e.mode = "recovery" /\ journal.claimer # Nobody
    BY <1>2, <1>4 DEF SealWrites
  <1>8. Replays(journal, e)
    BY <1>2, <1>4, <1>5, <1>6, <1>7 DEF SealWrites, Replays
  <1>. QED BY <1>2, <1>3, <1>8

LEMMA SealWritesOwner ==
  ASSUME IInv, NEW s \in Sealers, NEW e, SealWrites(s, e)
  PROVE  MemoryInv' /\ ClaimInv'
  <1>1. PICK outcome \in Outcomes :
          /\ Append(sealer[s].mem, e, outcome)
          /\ sealer'[s].at = IF outcome # "ok" THEN "over"
                             ELSE IF e.op = "publishing" THEN "linking"
                             ELSE IF e.op = "published" THEN "validating"
                             ELSE "sealing"
          /\ sealer'[s].mem = IF outcome = "ok" THEN After(sealer[s].mem, e) ELSE Blank
    BY DEF SealWrites
  <1>2. TypeOK /\ e \in Records /\ EvidenceInv /\ (journal.published => journal.publishing)
    BY DEF IInv, SealWrites
  <1>3. sealer[s].at \in Recovering /\ sealer[s].at \in Owning /\ Acting(s)
    BY DEF SealWrites, Recovering, Owning, Acting
  <1>4. run.at = "over" /\ run' = run /\ claim' = claim
        /\ \A t \in Sealers \ {s} : sealer'[t] = sealer[t]
    BY <1>2, <1>3 DEF EvidenceInv, SealWrites
  <1>5. MemoryInv'
    <2> SUFFICES ASSUME slips' = {} PROVE intact'
      BY <1>4 DEF MemoryInv, Late
    <2>1. outcome = "ok" /\ slips = {}
      BY <1>1, <1>2, AppendMeans
    <2>2. intact
      BY <2>1 DEF IInv, MemoryInv
    <2>3. sealer[s].mem = journal /\ Replays(journal, e)
      BY <2>1, <2>2, OwnerWrites
    <2>. QED BY <1>1, <1>2, <2>1, <2>2, <2>3, AppendMeans
  <1>6. ClaimInv'
    <2> SUFFICES ASSUME "takeover" \notin slips'
                 PROVE  /\ journal'.claimer # Nobody => claim'.by = journal'.claimer
                        /\ \A t \in Sealers :
                             /\ sealer'[t].at \in Owning => claim'.by = t
                             /\ intact' /\ sealer'[t].at \in Recovering => sealer'[t].mem = journal'
      BY DEF ClaimInv
    <2>1. "takeover" \notin slips
      BY <1>1, <1>2, AppendMeans
    <2>2. claim.by = s /\ journal.claimer \in {Nobody, s}
      BY <1>3, <2>1 DEF IInv, ClaimInv
    <2>3. journal'.claimer \in {Nobody, s}
      BY <1>1, <1>2, <2>2, JournalStep DEF SealWrites
    <2>4. \A t \in Sealers \ {s} : sealer'[t].at \notin Owning
      BY <1>4, <2>1, <2>2 DEF IInv, ClaimInv
    <2>5. intact' /\ sealer'[s].at \in Recovering => sealer'[s].mem = journal'
      <3> SUFFICES ASSUME intact', sealer'[s].at \in Recovering
                   PROVE  sealer'[s].mem = journal'
        OBVIOUS
      <3>1. outcome = "ok"
        BY <1>1 DEF Recovering
      <3>2. intact /\ journal' = After(journal, e)
        BY <1>1, <1>2, <3>1, AppendMeans, JournalStep
      <3>3. sealer[s].mem = journal
        BY <1>3, <2>1, <3>2 DEF IInv, ClaimInv
      <3>. QED BY <1>1, <3>1, <3>2, <3>3
    <2>. QED BY <1>4, <2>2, <2>3, <2>4, <2>5 DEF Owning
  <1>. QED BY <1>5, <1>6

LEMMA QuietOwner ==
  ASSUME IInv, NEW s \in Sealers, Quiet(s)
  PROVE  MemoryInv' /\ ClaimInv'
  <1>1. TypeOK /\ SealerInv(s) /\ sealer \in [Sealers -> SealCommands]
    BY DEF IInv, TypeOK
  <1>2. /\ UNCHANGED <<marker, journal, intact, run, lane, calls>>
        /\ \A t \in Sealers \ {s} : sealer'[t] = sealer[t]
        /\ slips' = slips \/ slips' = slips \cup {"takeover"}
    BY <1>1, QuietMeans
  <1>3. MemoryInv'
    BY <1>2 DEF IInv, MemoryInv
  <1> SUFFICES ASSUME "takeover" \notin slips'
               PROVE  /\ journal'.claimer # Nobody => claim'.by = journal'.claimer
                      /\ \A t \in Sealers :
                           /\ sealer'[t].at \in Owning => claim'.by = t
                           /\ intact' /\ sealer'[t].at \in Recovering => sealer'[t].mem = journal'
    BY <1>3 DEF ClaimInv
  <1>4. /\ journal.claimer # Nobody => claim.by = journal.claimer
        /\ \A t \in Sealers :
             /\ sealer[t].at \in Owning => claim.by = t
             /\ intact /\ sealer[t].at \in Recovering => sealer[t].mem = journal
    BY <1>2 DEF IInv, ClaimInv
  <1>5. intact /\ sealer'[s].at \in Recovering => sealer'[s].mem = journal
    <2>1. sealer'[s].at \in Recovering =>
            \/ sealer'[s].mem = journal
            \/ sealer[s].at \in Recovering /\ sealer'[s].mem = sealer[s].mem
      BY <1>1, QuietMoves DEF Recovering, Looking
    <2>. QED BY <1>4, <2>1
  <1>6. ASSUME claim'.by = claim.by, sealer'[s].at \in Owning => sealer[s].at \in Owning
        PROVE  /\ journal'.claimer # Nobody => claim'.by = journal'.claimer
               /\ \A t \in Sealers : sealer'[t].at \in Owning => claim'.by = t
    BY <1>2, <1>4, <1>6
  <1>7. /\ journal'.claimer # Nobody => claim'.by = journal'.claimer
        /\ \A t \in Sealers : sealer'[t].at \in Owning => claim'.by = t
    <2>1. CASE CreateClaim(s)
      <3>1. CASE claim = NoClaim
        <4>1. journal.claimer = Nobody
          BY <1>4, <3>1 DEF NoClaim
        <4>2. \A t \in Sealers : sealer[t].at \notin Owning
          BY <1>4, <3>1, AttemptAssumption DEF NoClaim
        <4>3. claim'.by = s
          BY <2>1, <3>1 DEF CreateClaim
        <4>. QED BY <1>2, <4>1, <4>2, <4>3
      <3>2. CASE claim # NoClaim
        <4>1. sealer'[s].at \notin Owning
          BY <1>1, <2>1, <3>2, SealerFields DEF CreateClaim, Owning, Recovering
        <4>. QED BY <1>6, <2>1, <3>2, <4>1 DEF CreateClaim
      <3>. QED BY <3>1, <3>2
    <2>2. CASE RenameClaim(s)
      <3>1. claim.by = Nobody \/ (~SealerAlive(claim.by) /\ claim.by # journal.claimer)
        BY <2>2 DEF RenameClaim
      <3>2. journal.claimer = Nobody
        BY <1>4, <3>1
      <3>3. \A t \in Sealers : sealer[t].at \notin Owning
        BY <1>4, <3>1, AttemptAssumption DEF SealerAlive, Owning, Recovering
      <3>4. sealer'[s].at \notin Owning
        BY <1>1, <2>2, SealerFields DEF RenameClaim, Owning, Recovering
      <3>. QED BY <1>2, <3>2, <3>3, <3>4
    <2>3. CASE Unlink(s)
      <3>1. sealer[s].at = "unlinking" /\ claim.by = s
        BY <1>4, <2>3 DEF Unlink, Owning
      <3>2. journal.claimer = Nobody
        BY <1>1, <1>4, <3>1 DEF SealerInv
      <3>3. \A t \in Sealers \ {s} : sealer[t].at \notin Owning
        BY <1>4, <3>1
      <3>4. sealer'[s].at \notin Owning
        BY <1>1, <2>3, SealerFields DEF Unlink, Owning, Recovering
      <3>. QED BY <1>2, <3>2, <3>3, <3>4
    <2>4. CASE ~CreateClaim(s) /\ ~RenameClaim(s) /\ ~Unlink(s)
      <3>1. claim'.by = claim.by
        BY <1>1, <2>4 DEF Quiet, Look, Decide, WriteClaim, ReadClaim, Reread, AssertOwned,
             Fence, SealLinks, SealValidates, SealerCrashes, files, TypeOK
      <3>2. sealer'[s].at \in Owning => sealer[s].at \in Owning
        <4>1. CASE Look(s)
          BY <1>1, <4>1, SealerFields DEF Look, Owning, Recovering
        <4>2. CASE Decide(s) \/ ReadClaim(s)
          BY <1>1, <4>2, SealerFields DEF Decide, ReadClaim, Owning, Recovering
        <4>3. CASE WriteClaim(s) \/ Reread(s)
          BY <1>1, <4>3 DEF WriteClaim, Reread, Owning, Recovering
        <4>4. CASE AssertOwned(s) \/ Fence(s) \/ SealLinks(s)
          BY <4>4 DEF AssertOwned, Fence, SealLinks, Owning, Recovering
        <4>5. CASE SealValidates(s) \/ SealerCrashes(s)
          BY <1>1, <4>5, SealerFields DEF SealValidates, SealerCrashes, Owning, Recovering
        <4>. QED BY <2>4, <4>1, <4>2, <4>3, <4>4, <4>5 DEF Quiet
      <3>. QED BY <1>6, <3>1, <3>2
    <2>. QED BY <2>1, <2>2, <2>3, <2>4
  <1>8. ASSUME NEW t \in Sealers, intact', sealer'[t].at \in Recovering
        PROVE  sealer'[t].mem = journal'
    <2>1. CASE t = s
      BY <1>2, <1>5, <1>8, <2>1
    <2>2. CASE t # s
      BY <1>2, <1>4, <1>8, <2>2
    <2>. QED BY <2>1, <2>2
  <1>. QED BY <1>7, <1>8

LEMMA OwnerStep ==
  ASSUME IInv, Next
  PROVE  MemoryInv' /\ ClaimInv'
  <1>1. TypeOK /\ MemoryInv /\ ClaimInv /\ EvidenceInv /\ run \in Runs
    BY DEF IInv, TypeOK
  <1>2. ASSUME UNCHANGED <<journal, intact, claim, sealer, slips>>,
               run'.at = "running" \/ run'.at \in Late =>
                 (run.at = "running" \/ run.at \in Late) /\ run'.mem = run.mem
        PROVE  MemoryInv' /\ ClaimInv'
    BY <1>1, <1>2 DEF MemoryInv, ClaimInv
  <1>3. ASSUME NEW e, RunWrites(e) PROVE MemoryInv' /\ ClaimInv'
    BY <1>3, RunWritesOwner
  <1>4. CASE CreateJournal
    <2> DEFINE first == [Blank EXCEPT !.n = 1]
    <2>1. PICK outcome \in Outcomes :
            /\ IF outcome = "ok" THEN UNCHANGED slips ELSE slips' = slips \cup {"append"}
            /\ journal' = IF outcome \in {"ok", "unknown"} THEN first ELSE journal
            /\ intact' = (outcome # "torn")
            /\ outcome = "ok" => Remember(first, "running")
      BY <1>4 DEF CreateJournal
    <2>2. \A s \in Sealers : sealer'[s] = sealer[s] /\ ~Acting(s)
      BY <1>1, <1>4 DEF CreateJournal, EvidenceInv
    <2>3. \A s \in Sealers : sealer'[s].at \notin Owning
      BY <2>2 DEF Acting, Owning, Recovering
    <2>4. outcome = "ok" => intact' /\ journal' = first /\ run'.mem = first
      BY <1>1, <2>1, RunFields
    <2>5. MemoryInv'
      BY <2>1, <2>4 DEF MemoryInv
    <2>6. journal = Blank
      BY <1>4 DEF CreateJournal, IInv, RunInv, Early
    <2>7. journal'.claimer = Nobody
      BY <2>1, <2>6 DEF Blank
    <2>. QED BY <2>3, <2>5, <2>7 DEF ClaimInv, Owning
  <1>5. CASE RunActs
    <2>1. CASE CreateMarker \/ WriteMarker
      <3>1. run'.at \notin {"running"} \cup Late
        BY <1>1, <2>1, RunFields DEF CreateMarker, WriteMarker, Late
      <3>. QED BY <1>2, <2>1, <3>1 DEF CreateMarker, WriteMarker
    <2>2. CASE LinkArtifact
      <3>1. run'.mem = run.mem /\ run.at \in Late
        BY <1>1, <2>2, RunFields DEF LinkArtifact, Late
      <3>. QED BY <1>2, <2>2, <3>1 DEF LinkArtifact
    <2>3. CASE ValidateRun \/ Stop \/ Crash
      <3>1. run'.at = "over" /\ UNCHANGED <<journal, intact, claim, sealer, slips>>
        BY <1>1, <2>3, RunFields DEF ValidateRun, Stop, Crash, files
      <3>. QED BY <1>2, <3>1 DEF Late
    <2>4. CASE Guard \/ EndRun \/ StartPublication \/ Confirm \/ ClosePair \/ SkipLane
      BY <1>3, <2>4, RunWriters DEF IInv
    <2>5. ASSUME NEW a \in Agents, Stage(a) \/ CloseLane(a) \/ ReserveLane(a)
          PROVE  MemoryInv' /\ ClaimInv'
      <3>1. \/ \E e : RunWrites(e)
            \/ Stopped /\ UNCHANGED <<files, sealer, calls, sealed, slips, faults>>
        BY <2>5, RunWriters
      <3>2. CASE Stopped /\ UNCHANGED <<files, sealer, calls, sealed, slips, faults>>
        BY <1>1, <1>2, <3>2, RunFields DEF files
      <3>. QED BY <1>3, <3>1, <3>2
    <2>6. ASSUME NEW a \in Agents, Call(a) \/ Settle(a)
          PROVE  MemoryInv' /\ ClaimInv'
      BY <1>2, <2>6 DEF Call, Settle, files
    <2>. QED BY <1>4, <1>5, <2>1, <2>2, <2>3, <2>4, <2>5, <2>6 DEF RunActs
  <1>6. ASSUME NEW s \in Sealers, Seal(s) PROVE MemoryInv' /\ ClaimInv'
    <2>1. CASE Quiet(s)
      BY <2>1, QuietOwner
    <2>2. CASE Recover(s) \/ SealConfirms(s)
      BY <2>2, SealWriters, SealWritesOwner
    <2>. QED BY <1>6, <2>1, <2>2 DEF Seal, Quiet
  <1>. QED BY <1>5, <1>6 DEF Next, RunActs

-----------------------------------------------------------------------------
(* The run and its lanes *)

LEMMA OrderedAfter ==
  ASSUME NEW m \in Replayed, NEW e \in Records, Fits(m, e), Ordered(m),
         e.op = "pair" => m.guards = Guards
  PROVE  Ordered(After(m, e))
  <1> DEFINE n == After(m, e)
  <1>1. /\ n.guards = m.guards + (IF e.op = "guard" THEN 1 ELSE 0)
        /\ n.pairs = m.pairs + (IF e.op = "pair" THEN 1 ELSE 0)
        /\ n.mode = (IF e.op = "end" THEN e.mode ELSE m.mode)
        /\ (n.publishing <=> (m.publishing \/ e.op = "publishing"))
        /\ (n.published <=> (m.published \/ e.op = "published"))
    BY AfterRest
  <1>2. m.guards \in Nat /\ m.pairs \in Nat /\ Guards \in Nat /\ Pairs \in Nat
    BY AttemptAssumption DEF Replayed
  <1>3. ASSUME NEW l \in Lanes, l[1] <= n.pairs PROVE n.lane[l].result # "none"
    <2>1. m.lane[l].result # "none"
      <3>1. CASE l[1] <= m.pairs
        BY <3>1 DEF Ordered
      <3>2. CASE ~(l[1] <= m.pairs)
        <4>1. e.op = "pair" /\ l[1] = NextPair(m)
          BY <1>1, <1>2, <1>3, <3>2 DEF Lanes, NextPair
        <4>2. l[2] \in Agents /\ l = <<l[1], l[2]>>
          BY DEF Lanes
        <4>. QED BY <4>1, <4>2, FitsMeans
      <3>. QED BY <3>1, <3>2
    <2>. QED BY <2>1, Grows
  <1>4. n.pairs > 0 => n.guards = Guards
    <2>1. e.op = "guard" => m.guards < Guards
      BY FitsMeans
    <2>. QED BY <1>1, <1>2, <2>1 DEF Ordered
  <1>5. n.mode # "none" => n.guards = Guards /\ n.pairs = Pairs
    <2>1. /\ e.op = "guard" => m.mode = "none"
          /\ e.op = "end" => m.guards = Guards /\ m.pairs = Pairs
          /\ e.op = "pair" => m.pairs < Pairs
      BY FitsMeans
    <2>. QED BY <1>1, <1>2, <2>1 DEF Ordered
  <1>6. n.published => n.publishing
    <2>1. e.op = "published" => m.publishing
      BY FitsMeans
    <2>. QED BY <1>1, <2>1 DEF Ordered
  <1>. QED BY <1>3, <1>4, <1>5, <1>6 DEF Ordered

\* A lane does not notice what is recorded of the other one.
LEMMA LaneKept ==
  ASSUME TypeOK, NEW b \in Agents, UnderWay(b), NEW e \in Records, Fits(run.mem, e),
         e.op \in {"reserve", "stage", "terminal"}, e.lane # Here(b),
         run'.mem = run.mem \/ run'.mem = After(run.mem, e),
         lane'[b] = lane[b]
  PROVE  UnderWay(b)'
  <1>1. run.mem \in Replayed /\ Here(b) \in Lanes
    BY HereIsLane DEF TypeOK, Runs, UnderWay
  <1>2. CASE run'.mem = run.mem
    BY <1>2 DEF UnderWay, Here, Stages, NextPair
  <1>3. CASE run'.mem = After(run.mem, e)
    <2>1. run'.mem.guards = run.mem.guards /\ run'.mem.pairs = run.mem.pairs
      BY <1>1, <1>3, AfterRest DEF Replayed
    <2>2. Here(b)' = Here(b)
      BY <2>1 DEF Here, NextPair
    <2>3. /\ run'.mem.lane[Here(b)].stages = run.mem.lane[Here(b)].stages
          /\ run'.mem.lane[Here(b)].result = run.mem.lane[Here(b)].result
          /\ (run'.mem.lane[Here(b)].reserved <=> run.mem.lane[Here(b)].reserved)
      <3>1. run.mem.lane[Here(b)].stages \in Nat
        BY <1>1 DEF Replayed, LaneRecords, LastStage
      <3>. QED BY <1>1, <1>3, <3>1, AfterLanes
    <2>4. \A l \in Lanes : l[1] <= run.mem.pairs => run'.mem.lane[l].result = "succeeded"
      BY <1>1, <1>3, Grows DEF UnderWay
    <2>. QED BY <2>1, <2>2, <2>3, <2>4 DEF UnderWay, Stages
  <1>. QED BY <1>2, <1>3

\* The run goes on and the calls stay.
LEMMA RunGoesOn ==
  ASSUME RunInv, calls' = calls, run.at = "running", run'.at = "running",
         Ordered(run'.mem), ~run'.mem.publishing, run'.mem.claimer = Nobody,
         run'.mem.pairs = run.mem.pairs,
         run'.stopped /\ (\E b \in Agents : lane'[b].at # "idle") =>
           ~run.stopped \/ \E b \in Agents : lane[b].at # "idle",
         \A b \in Agents : lane'[b].called = lane[b].called,
         run'.stopped \/ ~run.stopped,
         \A b \in Agents : IF lane'[b].at = "idle" THEN lane'[b] = Idle ELSE UnderWay(b)'
  PROVE  RunInv'
  <1>1. NextPair(run'.mem) = NextPair(run.mem) /\ \A a \in Agents : Here(a)' = Here(a)
    BY DEF NextPair, Here
  <1>2. /\ \A l \in Lanes : calls[l] \in {0, 1}
        /\ \A l \in Lanes : l[1] > NextPair(run.mem) => calls[l] = 0
        /\ \A a \in Agents :
             run.mem.pairs < Pairs /\ (run.stopped => \E b \in Agents : lane[b].at # "idle") =>
               calls[Here(a)] = IF lane[a].called THEN 1 ELSE 0
    BY DEF RunInv
  <1>3. \A a \in Agents :
          run'.mem.pairs < Pairs /\ (run'.stopped => \E b \in Agents : lane'[b].at # "idle") =>
            calls[Here(a)] = IF lane'[a].called THEN 1 ELSE 0
    BY <1>2
  <1>. QED BY <1>1, <1>2, <1>3 DEF RunInv, Early

\* What an append of the run does to its memory.
LEMMA RunRemembers ==
  ASSUME IInv, run.at = "running", NEW e \in Records, Fits(run.mem, e), NEW then,
         e.op = "pair" => run.mem.guards = Guards, e.op # "recovery",
         RunAppends(e, then)
  PROVE  /\ run.mem \in Replayed /\ Ordered(run'.mem) /\ run'.mem.claimer = Nobody
         /\ \/ run'.mem = After(run.mem, e) /\ run'.at = then /\ run'.stopped = run.stopped
            \/ run'.mem = run.mem /\ run'.at = "running" /\ run'.stopped
         /\ e.op # "publishing" => ~run'.mem.publishing
         /\ e.op # "pair" => run'.mem.pairs = run.mem.pairs
         /\ e.op # "guard" => run'.mem.guards = run.mem.guards
  <1>1. run \in Runs /\ run.mem \in Replayed
    BY DEF IInv, TypeOK, Runs
  <1>2. Ordered(run.mem) /\ ~run.mem.publishing /\ run.mem.claimer = Nobody
    BY DEF IInv, RunInv, RunAlive
  <1>3. \/ run'.mem = After(run.mem, e) /\ run'.at = then /\ run'.stopped = run.stopped
        \/ run'.mem = run.mem /\ run'.at = "running" /\ run'.stopped
    BY <1>1, RunFields DEF RunAppends
  <1>4. Ordered(After(run.mem, e))
    BY <1>1, <1>2, OrderedAfter
  <1>5. /\ After(run.mem, e).claimer = Nobody
        /\ e.op # "publishing" => ~After(run.mem, e).publishing
        /\ e.op # "pair" => After(run.mem, e).pairs = run.mem.pairs
        /\ e.op # "guard" => After(run.mem, e).guards = run.mem.guards
    <2>1. run.mem.pairs \in Nat /\ run.mem.guards \in Nat
      BY <1>1 DEF Replayed
    <2>. QED BY <1>1, <1>2, <2>1, AfterRest
  <1>. QED BY <1>1, <1>2, <1>3, <1>4, <1>5

LEMMA IdleLanes ==
  ASSUME lane \in LanesAtWork
  PROVE  lane = [b \in Agents |-> Idle] <=> \A b \in Agents : lane[b] = Idle
  BY DEF LanesAtWork

\* A step of the run while no lane is at work.
LEMMA RunAloneStep ==
  ASSUME IInv, Guard \/ SkipLane \/ EndRun
  PROVE  RunInv'
  <1>1. PICK e \in Records :
          /\ Fits(run.mem, e) /\ RunAppends(e, "running")
          /\ e.op \in {"guard", "notStarted", "end"}
    <2>1. CASE Guard
      <3>1. PICK c \in BOOLEAN : RunAppends([op |-> "guard", clean |-> c], "running")
        BY <2>1 DEF Guard
      <3>2. Fits(run.mem, [op |-> "guard", clean |-> c])
        BY <2>1, RunFits DEF Guard, IInv
      <3>3. [op |-> "guard", clean |-> c] \in Records
        BY DEF Records
      <3>. QED BY <3>1, <3>2, <3>3
    <2>2. CASE SkipLane
      <3>1. PICK a \in Agents : /\ Fits(run.mem, [op |-> "notStarted", lane |-> Here(a)])
                                /\ RunAppends([op |-> "notStarted", lane |-> Here(a)], "running")
        BY <2>2 DEF SkipLane
      <3>2. [op |-> "notStarted", lane |-> Here(a)] \in Records
        BY <2>2, HereIsLane DEF Records, SkipLane, InPair, IInv, TypeOK
      <3>. QED BY <3>1, <3>2
    <2>3. CASE EndRun
      <3>1. Fits(run.mem, [op |-> "end", mode |-> "runtime"])
        BY <2>3, RunFits DEF EndRun, IInv
      <3>2. [op |-> "end", mode |-> "runtime"] \in Records
        BY DEF Records
      <3>. QED BY <2>3, <3>1, <3>2 DEF EndRun
    <2>. QED BY <2>1, <2>2, <2>3
  <1>2. run.at = "running" /\ ~run.stopped /\ lane' = lane /\ calls' = calls
    BY DEF Guard, SkipLane, EndRun, InPair
  <1>3. \A b \in Agents : lane[b] = Idle
    <2>1. \A b \in Agents : IF lane[b].at = "idle" THEN lane[b] = Idle ELSE UnderWay(b)
      BY <1>2 DEF IInv, RunInv
    <2>2. CASE Guard
      BY <2>1, <2>2, AttemptAssumption DEF Guard, UnderWay
    <2>3. CASE SkipLane
      BY <2>3 DEF SkipLane
    <2>4. CASE EndRun
      BY <2>1, <2>4, AttemptAssumption DEF EndRun, UnderWay
    <2>. QED BY <2>2, <2>3, <2>4
  <1>4. /\ Ordered(run'.mem) /\ run'.mem.claimer = Nobody /\ run'.at = "running"
        /\ ~run'.mem.publishing /\ run'.mem.pairs = run.mem.pairs
    BY <1>1, <1>2, RunRemembers
  <1>. QED BY <1>2, <1>3, <1>4, RunGoesOn DEF Idle, IInv

LEMMA ClosePairStep ==
  ASSUME IInv, ClosePair
  PROVE  RunInv'
  <1> DEFINE e == [op |-> "pair"]
  <1>1. e \in Records /\ Fits(run.mem, e) /\ RunAppends(e, "running")
    BY DEF ClosePair, Records
  <1>2. /\ run.at = "running" /\ ~run.stopped /\ run.mem.guards = Guards
        /\ run.mem.pairs < Pairs /\ calls' = calls /\ lane' = [b \in Agents |-> Idle]
    BY DEF ClosePair, InPair
  <1>3. /\ run.mem \in Replayed /\ Ordered(run'.mem) /\ run'.mem.claimer = Nobody
        /\ ~run'.mem.publishing
        /\ \/ run'.mem = After(run.mem, e) /\ run'.at = "running" /\ run'.stopped = run.stopped
           \/ run'.mem = run.mem /\ run'.at = "running" /\ run'.stopped
    BY <1>1, <1>2, RunRemembers
  <1>4. /\ \A l \in Lanes : calls[l] \in {0, 1}
        /\ \A l \in Lanes : l[1] > NextPair(run.mem) => calls[l] = 0
    BY <1>2 DEF IInv, RunInv
  <1>5. \A b \in Agents : lane'[b] = Idle
    BY <1>2
  <1>6. run.mem.pairs \in Nat
    BY <1>3 DEF Replayed
  <1>7. CASE run'.mem = After(run.mem, e) /\ run'.at = "running"
    <2>1. run'.mem.pairs = run.mem.pairs + 1
      BY <1>1, <1>3, <1>7, AfterRest
    <2>2. \A l \in Lanes : l[1] > NextPair(run'.mem) => calls'[l] = 0
      BY <1>2, <1>4, <1>6, <2>1 DEF NextPair, Lanes
    <2>3. \A a \in Agents : run'.mem.pairs < Pairs =>
            Here(a)' \in Lanes /\ Here(a)'[1] > NextPair(run.mem)
      BY <1>6, <2>1, AttemptAssumption DEF Here, NextPair, Lanes
    <2>4. \A a \in Agents : run'.mem.pairs < Pairs => calls'[Here(a)'] = 0
      BY <1>2, <1>4, <2>3
    <2>. QED BY <1>2, <1>3, <1>4, <1>5, <1>7, <2>2, <2>4 DEF RunInv, Early, Idle
  <1>8. CASE run'.mem = run.mem /\ run'.at = "running" /\ run'.stopped
    BY <1>2, <1>3, <1>4, <1>5, <1>8 DEF RunInv, Early, Idle, NextPair
  <1>. QED BY <1>3, <1>7, <1>8

LEMMA StartPublicationStep ==
  ASSUME IInv, StartPublication
  PROVE  RunInv'
  <1> DEFINE e == [op |-> "publishing"]
  <1>1. e \in Records /\ Fits(run.mem, e) /\ RunAppends(e, "linking")
    BY RunFits DEF StartPublication, Records, IInv
  <1>2. /\ run.at = "running" /\ ~run.stopped /\ run.mem.mode # "none"
        /\ calls' = calls /\ lane' = lane /\ lane \in LanesAtWork
    BY DEF StartPublication, IInv, TypeOK
  <1>3. /\ run.mem \in Replayed /\ Ordered(run'.mem) /\ run'.mem.claimer = Nobody
        /\ \/ run'.mem = After(run.mem, e) /\ run'.at = "linking" /\ run'.stopped = run.stopped
           \/ run'.mem = run.mem /\ run'.at = "running" /\ run'.stopped
        /\ run'.mem.pairs = run.mem.pairs
    BY <1>1, <1>2, RunRemembers
  <1>4. \A b \in Agents : lane[b] = Idle
    <2>1. run.mem.pairs = Pairs
      BY <1>2 DEF IInv, RunInv, RunAlive, Ordered
    <2>. QED BY <1>2, <2>1, AttemptAssumption DEF IInv, RunInv, UnderWay
  <1>5. \A l \in Lanes : calls[l] \in {0, 1}
    BY DEF IInv, RunInv
  <1>6. CASE run'.mem = After(run.mem, e) /\ run'.at = "linking"
    <2>1. run'.mem.publishing /\ ~run'.mem.published
      BY <1>1, <1>3, <1>6, AfterRest, FitsMeans
    <2>2. lane' = [b \in Agents |-> Idle]
      BY <1>2, <1>4, IdleLanes
    <2>. QED BY <1>2, <1>3, <1>5, <1>6, <2>1, <2>2 DEF RunInv, Early
  <1>7. CASE run'.mem = run.mem /\ run'.at = "running" /\ run'.stopped
    <2>1. ~run.mem.publishing
      BY <1>2 DEF IInv, RunInv
    <2>. QED BY <1>2, <1>3, <1>4, <1>7, <2>1, RunGoesOn DEF Idle, IInv
  <1>. QED BY <1>3, <1>6, <1>7

\* A step of lane a that records something of it, or stops the run.
LEMMA LaneStep ==
  ASSUME IInv, run.at = "running", NEW a \in Agents, NEW e \in Records, Fits(run.mem, e),
         e.op \in {"reserve", "stage", "terminal"}, e.lane = Here(a),
         \/ run'.mem = run.mem
         \/ run'.mem = After(run.mem, e),
         run'.at = "running", run'.stopped \/ ~run.stopped,
         calls' = calls, lane'[a].called = lane[a].called, lane'[a].at # "idle",
         \A b \in Agents \ {a} : lane'[b] = lane[b],
         ~run.stopped \/ \E b \in Agents : lane[b].at # "idle",
         UnderWay(a)'
  PROVE  RunInv'
  <1>1. /\ TypeOK /\ run.mem \in Replayed /\ Ordered(run.mem)
        /\ ~run.mem.publishing /\ run.mem.claimer = Nobody
    BY DEF IInv, TypeOK, Runs, RunInv, RunAlive
  <1>2. /\ Ordered(run'.mem) /\ ~run'.mem.publishing /\ run'.mem.claimer = Nobody
        /\ run'.mem.pairs = run.mem.pairs
    <2>1. CASE run'.mem = run.mem
      BY <1>1, <2>1
    <2>2. CASE run'.mem = After(run.mem, e)
      <3>1. run.mem.pairs \in Nat
        BY <1>1 DEF Replayed
      <3>. QED BY <1>1, <2>2, <3>1, OrderedAfter, AfterRest
    <2>. QED BY <2>1, <2>2
  <1>3. ASSUME NEW b \in Agents \ {a}
        PROVE  IF lane'[b].at = "idle" THEN lane'[b] = Idle ELSE UnderWay(b)'
    <2>1. IF lane[b].at = "idle" THEN lane[b] = Idle ELSE UnderWay(b)
      BY DEF IInv, RunInv
    <2>2. e.lane # Here(b)
      BY DEF Here
    <2>3. UnderWay(b) => UnderWay(b)'
      BY <1>1, <2>2, LaneKept
    <2>. QED BY <2>1, <2>3
  <1>. QED BY <1>2, <1>3, RunGoesOn DEF IInv

LEMMA ReserveLaneStep ==
  ASSUME IInv, NEW a \in Agents, ReserveLane(a)
  PROVE  RunInv'
  <1> DEFINE e == [op |-> "reserve", lane |-> Here(a)]
  <1>1. /\ TypeOK /\ run \in Runs /\ run.mem \in Replayed /\ lane \in LanesAtWork
        /\ Ordered(run.mem) /\ run.at = "running" /\ run.mem.guards = Guards
        /\ run.mem.pairs < Pairs /\ calls' = calls /\ run.mem.pairs \in Nat
    BY DEF IInv, TypeOK, Runs, Replayed, RunInv, RunAlive, ReserveLane
  <1>2. lane[a] = Idle /\ Here(a) \in Lanes /\ e \in Records
    BY <1>1, HereIsLane DEF IInv, RunInv, ReserveLane, Records
  <1>3. ~run.stopped \/ \E b \in Agents : lane[b].at # "idle"
    BY DEF ReserveLane, Agents
  <1>4. \A l \in Lanes : l[1] <= run.mem.pairs => run.mem.lane[l].result = "succeeded"
    <2>1. CASE a = "tutor"
      BY <1>1, <2>1 DEF ReserveLane, Breaker, Ordered
    <2>2. CASE a # "tutor"
      <3>1. UnderWay("tutor")
        BY <1>1, <2>2 DEF ReserveLane, IInv, RunInv, Agents
      <3>. QED BY <3>1 DEF UnderWay
    <2>. QED BY <2>1, <2>2
  <1>5. \A at \in {"active", "ended"} :
          lane' = [lane EXCEPT ![a].at = at] =>
            /\ lane'[a].at = at /\ ~lane'[a].called /\ lane'[a].outcome = "none"
            /\ lane'[a].called = lane[a].called
            /\ \A b \in Agents \ {a} : lane'[b] = lane[b]
    <2> SUFFICES ASSUME NEW at \in {"active", "ended"}, lane' = [lane EXCEPT ![a].at = at]
                 PROVE  /\ lane'[a].at = at /\ ~lane'[a].called /\ lane'[a].outcome = "none"
                        /\ lane'[a].called = lane[a].called
                        /\ \A b \in Agents \ {a} : lane'[b] = lane[b]
      OBVIOUS
    <2>1. lane'[a] = [lane[a] EXCEPT !.at = at] /\ \A b \in Agents \ {a} : lane'[b] = lane[b]
      BY <1>1 DEF LanesAtWork
    <2>2. [Idle EXCEPT !.at = at].at = at /\ ~[Idle EXCEPT !.at = at].called
          /\ [Idle EXCEPT !.at = at].outcome = "none" /\ ~Idle.called
          /\ [Idle EXCEPT !.at = at].called = Idle.called
      BY DEF Idle
    <2>. QED BY <1>2, <2>1, <2>2
  <1>6. ASSUME run'.mem.guards = Guards, run'.mem.pairs = run.mem.pairs,
               \A l \in Lanes : l[1] <= run.mem.pairs => run'.mem.lane[l].result = "succeeded",
               lane'[a].at = "ended", ~lane'[a].called, lane'[a].outcome = "none"
        PROVE  UnderWay(a)'
    BY <1>1, <1>6 DEF UnderWay
  <1>7. CASE Fits(run.mem, e)
    <2>1. PICK outcome \in Outcomes :
            /\ IF outcome = "ok" THEN Remember(After(run.mem, e), "running") ELSE Stopped
            /\ lane' = [lane EXCEPT ![a].at = IF outcome = "ok" THEN "active" ELSE "ended"]
      BY <1>7 DEF ReserveLane
    <2>2. CASE outcome = "ok"
      <3>1. /\ run'.mem = After(run.mem, e) /\ run'.at = "running"
            /\ run'.stopped = run.stopped
        BY <1>1, <2>1, <2>2, RunFields
      <3>2. /\ lane'[a].at = "active" /\ ~lane'[a].called /\ lane'[a].outcome = "none"
            /\ lane'[a].called = lane[a].called
            /\ \A b \in Agents \ {a} : lane'[b] = lane[b]
        BY <1>5, <2>1, <2>2
      <3>3. run'.mem.guards = Guards /\ run'.mem.pairs = run.mem.pairs
        BY <1>1, <1>2, <3>1, AfterRest DEF Replayed
      <3>4. Here(a)' = Here(a)
        BY <3>3 DEF Here, NextPair
      <3>5. /\ run'.mem.lane[Here(a)].reserved
            /\ run'.mem.lane[Here(a)].result = "none"
            /\ run'.mem.lane[Here(a)].stages <= DispatchStage
        <4>1. run.mem.lane[Here(a)].result = "none" /\ run.mem.lane[Here(a)].stages = 0
          BY <1>7, FitsMeans DEF Opens, Untouched
        <4>. QED BY <1>1, <1>2, <3>1, <4>1, AfterLanes DEF DispatchStage
      <3>6. \A l \in Lanes : l[1] <= run.mem.pairs => run'.mem.lane[l].result = "succeeded"
        BY <1>1, <1>2, <1>4, <1>7, <3>1, Grows
      <3>7. UnderWay(a)'
        BY <1>1, <3>2, <3>3, <3>4, <3>5, <3>6 DEF UnderWay, Stages
      <3>. QED BY <1>1, <1>2, <1>3, <1>7, <3>1, <3>2, <3>7, LaneStep
    <2>3. CASE outcome # "ok"
      <3>1. run'.mem = run.mem /\ run'.at = "running" /\ run'.stopped
        BY <1>1, <2>1, <2>3, RunFields
      <3>2. /\ lane'[a].at = "ended" /\ ~lane'[a].called /\ lane'[a].outcome = "none"
            /\ lane'[a].called = lane[a].called
            /\ \A b \in Agents \ {a} : lane'[b] = lane[b]
        BY <1>5, <2>1, <2>3
      <3>3. UnderWay(a)'
        BY <1>1, <1>4, <1>6, <3>1, <3>2
      <3>. QED BY <1>1, <1>2, <1>3, <1>7, <3>1, <3>2, <3>3, LaneStep
    <2>. QED BY <2>2, <2>3
  <1>8. CASE ~Fits(run.mem, e)
    <2>1. Stopped /\ lane' = [lane EXCEPT ![a].at = "ended"]
      BY <1>8 DEF ReserveLane
    <2>2. run'.mem = run.mem /\ run'.at = "running" /\ run'.stopped
      BY <1>1, <2>1, RunFields
    <2>3. /\ lane'[a].at = "ended" /\ ~lane'[a].called /\ lane'[a].outcome = "none"
          /\ lane'[a].called = lane[a].called
          /\ \A b \in Agents \ {a} : lane'[b] = lane[b]
      BY <1>5, <2>1
    <2>4. UnderWay(a)'
      BY <1>1, <1>4, <1>6, <2>2, <2>3
    <2>5. ASSUME NEW b \in Agents \ {a}
          PROVE  IF lane'[b].at = "idle" THEN lane'[b] = Idle ELSE UnderWay(b)'
      <3>1. IF lane[b].at = "idle" THEN lane[b] = Idle ELSE UnderWay(b)
        BY <1>1 DEF IInv, RunInv
      <3>2. UnderWay(b) => UnderWay(b)'
        BY <2>2, <2>3 DEF UnderWay, Here, Stages, NextPair
      <3>. QED BY <2>3, <3>1, <3>2
    <2>6. ~run.mem.publishing /\ run.mem.claimer = Nobody
      BY <1>1 DEF IInv, RunInv
    <2>. QED BY <1>1, <1>3, <2>2, <2>3, <2>4, <2>5, <2>6, RunGoesOn DEF IInv
  <1>. QED BY <1>7, <1>8

LEMMA StageStep ==
  ASSUME IInv, NEW a \in Agents, Stage(a)
  PROVE  RunInv'
  <1> DEFINE e == [op |-> "stage", lane |-> Here(a)]
  <1>1. run.at = "running" /\ lane[a].at = "active"
    BY DEF Stage, Active, IInv, RunInv, Idle
  <1>2. /\ TypeOK /\ run \in Runs /\ run.mem \in Replayed /\ lane \in LanesAtWork
        /\ UnderWay(a) /\ calls' = calls
    BY <1>1 DEF IInv, TypeOK, Runs, RunInv, Stage
  <1>3. Here(a) \in Lanes /\ Fits(run.mem, e)
    BY <1>1, RunFits DEF Stage, IInv
  <1>4. e \in Records
    BY <1>3 DEF Records
  <1>5. PICK outcome \in Outcomes :
          IF outcome = "ok" THEN Remember(After(run.mem, e), "running") /\ UNCHANGED lane
          ELSE lane' = [lane EXCEPT ![a].at = "settled", ![a].outcome = "failed"] /\ UNCHANGED run
    BY DEF Stage
  <1>6. CASE outcome = "ok"
    <2>1. run'.mem = After(run.mem, e) /\ run'.at = "running" /\ run'.stopped = run.stopped
      BY <1>2, <1>5, <1>6, RunFields
    <2>2. run'.mem.guards = run.mem.guards /\ run'.mem.pairs = run.mem.pairs
      BY <1>2, <1>4, <2>1, AfterRest DEF Replayed
    <2>3. Here(a)' = Here(a)
      BY <2>2 DEF Here, NextPair
    <2>4. /\ run'.mem.lane[Here(a)].stages = run.mem.lane[Here(a)].stages + 1
          /\ run'.mem.lane[Here(a)].result = run.mem.lane[Here(a)].result
          /\ (run'.mem.lane[Here(a)].reserved <=> run.mem.lane[Here(a)].reserved)
      BY <1>2, <1>3, <1>4, <2>1, AfterLanes
    <2>5. \A l \in Lanes : l[1] <= run.mem.pairs => run'.mem.lane[l].result = "succeeded"
      BY <1>2, <1>3, <1>4, <2>1, Grows DEF UnderWay
    <2>6. ~lane[a].called => Stages(a)' <= DispatchStage
      <3>1. run.mem.lane[Here(a)].stages \in Nat
        BY <1>2, <1>3 DEF Replayed, LaneRecords, LastStage
      <3>2. ~lane[a].called => Stages(a) <= DispatchStage /\ Stages(a) # DispatchStage
        BY <1>1, <1>2 DEF UnderWay, Stage
      <3>. QED BY <2>3, <2>4, <3>1, <3>2 DEF Stages, DispatchStage
    <2>7. UnderWay(a)'
      BY <1>1, <1>2, <1>5, <1>6, <2>2, <2>3, <2>4, <2>5, <2>6 DEF UnderWay
    <2>. QED BY <1>1, <1>2, <1>3, <1>4, <1>5, <1>6, <2>1, <2>7, LaneStep
  <1>7. CASE outcome # "ok"
    <2>1. lane' = [lane EXCEPT ![a].at = "settled", ![a].outcome = "failed"] /\ run' = run
      BY <1>5, <1>7
    <2>2. /\ lane'[a].at = "settled" /\ lane'[a].outcome = "failed"
          /\ lane'[a].called = lane[a].called
          /\ \A b \in Agents \ {a} : lane'[b] = lane[b]
      BY <1>2, <2>1 DEF LanesAtWork
    <2>3. UnderWay(a)'
      BY <1>1, <1>2, <2>1, <2>2 DEF UnderWay, Here, NextPair
    <2>. QED BY <1>1, <1>2, <1>3, <1>4, <2>1, <2>2, <2>3, LaneStep
  <1>. QED BY <1>6, <1>7

LEMMA CloseLaneStep ==
  ASSUME IInv, NEW a \in Agents, CloseLane(a)
  PROVE  RunInv'
  <1> DEFINE e == [op |-> "terminal", lane |-> Here(a), result |-> lane[a].outcome]
  <1>1. run.at = "running" /\ lane[a].at = "settled"
    BY DEF CloseLane, IInv, RunInv, Idle
  <1>2. /\ TypeOK /\ run \in Runs /\ run.mem \in Replayed /\ lane \in LanesAtWork
        /\ UnderWay(a) /\ calls' = calls
    BY <1>1 DEF IInv, TypeOK, Runs, RunInv, CloseLane
  <1>3. Here(a) \in Lanes /\ lane[a].outcome \in Results \ {"none"} /\ Fits(run.mem, e)
    BY <1>1, RunFits DEF IInv
  <1>4. e \in Records /\ RunAppends(e, "running")
    BY <1>3 DEF Records, CloseLane
  <1>5. /\ \/ run'.mem = After(run.mem, e) /\ run'.at = "running" /\ run'.stopped = run.stopped
           \/ run'.mem = run.mem /\ run'.at = "running" /\ run'.stopped
        /\ run'.mem.pairs = run.mem.pairs /\ run'.mem.guards = run.mem.guards
    BY <1>1, <1>3, <1>4, RunRemembers
  <1>6. /\ lane'[a].at = "ended" /\ lane'[a].outcome = lane[a].outcome
        /\ lane'[a].called = lane[a].called
        /\ \A b \in Agents \ {a} : lane'[b] = lane[b]
    BY <1>2 DEF CloseLane, LanesAtWork
  <1>7. \A l \in Lanes : l[1] <= run.mem.pairs => run'.mem.lane[l].result = "succeeded"
    BY <1>2, <1>3, <1>4, <1>5, Grows DEF UnderWay
  <1>8. UnderWay(a)'
    BY <1>2, <1>5, <1>6, <1>7 DEF UnderWay
  <1>. QED BY <1>1, <1>2, <1>3, <1>4, <1>5, <1>6, <1>8, LaneStep

LEMMA SettleStep ==
  ASSUME IInv, NEW a \in Agents, Settle(a)
  PROVE  RunInv'
  <1>1. run.at = "running" /\ lane[a].at = "active"
    BY DEF Settle, Active, IInv, RunInv, Idle
  <1>2. /\ lane \in LanesAtWork /\ UnderWay(a) /\ calls' = calls /\ run' = run
        /\ Ordered(run.mem) /\ ~run.mem.publishing /\ run.mem.claimer = Nobody
    BY <1>1 DEF IInv, TypeOK, RunInv, RunAlive, Settle
  <1>3. PICK outcome \in {"succeeded", "failed"} :
          /\ outcome = "succeeded" => Stages(a) = LastStage
          /\ lane' = [lane EXCEPT ![a].at = "settled", ![a].outcome = outcome]
    BY DEF Settle
  <1>4. /\ lane'[a].at = "settled" /\ lane'[a].outcome = outcome
        /\ lane'[a].called = lane[a].called
        /\ \A b \in Agents \ {a} : lane'[b] = lane[b]
    BY <1>2, <1>3 DEF LanesAtWork
  <1>5. outcome = "succeeded" => lane[a].called
    BY <1>1, <1>2, <1>3 DEF UnderWay, LastStage, DispatchStage
  <1>6. UnderWay(a)'
    BY <1>1, <1>2, <1>4, <1>5 DEF UnderWay, Here, NextPair
  <1>7. ASSUME NEW b \in Agents \ {a}
        PROVE  IF lane'[b].at = "idle" THEN lane'[b] = Idle ELSE UnderWay(b)'
    BY <1>1, <1>2, <1>4 DEF IInv, RunInv, UnderWay, Here, Stages, NextPair
  <1>8. \E b \in Agents : lane[b].at # "idle"
    BY <1>1
  <1>. QED BY <1>1, <1>2, <1>4, <1>6, <1>7, <1>8, RunGoesOn DEF IInv

LEMMA CallStep ==
  ASSUME IInv, NEW a \in Agents, Call(a)
  PROVE  RunInv'
  <1>1. /\ run.at = "running" /\ Here(a) \in Lanes /\ calls[Here(a)] = 0
        /\ calls'[Here(a)] = 1 /\ \A l \in Lanes \ {Here(a)} : calls'[l] = calls[l]
    BY CallEvidence
  <1>2. /\ lane \in LanesAtWork /\ run' = run /\ journal' = journal
        /\ lane' = [lane EXCEPT ![a].called = TRUE] /\ lane[a].at = "active"
    BY DEF IInv, TypeOK, Call, Active, files
  <1>3. /\ lane'[a].at = "active" /\ lane'[a].called /\ lane'[a].outcome = lane[a].outcome
        /\ \A b \in Agents \ {a} : lane'[b] = lane[b]
    BY <1>2 DEF LanesAtWork
  <1>4. /\ \A b \in Agents : Here(b)' = Here(b) /\ Here(b)[2] = b /\ Here(b)[1] = NextPair(run.mem)
        /\ NextPair(run.mem)' = NextPair(run.mem)
    BY <1>2 DEF Here, NextPair
  <1>5. UnderWay(a) /\ UnderWay(a)'
    BY <1>1, <1>2, <1>3 DEF IInv, RunInv, UnderWay, Here, NextPair
  <1>6. ASSUME NEW b \in Agents \ {a}
        PROVE  /\ IF lane'[b].at = "idle" THEN lane'[b] = Idle ELSE UnderWay(b)'
               /\ calls'[Here(b)] = calls[Here(b)]
    <2>1. IF lane'[b].at = "idle" THEN lane'[b] = Idle ELSE UnderWay(b)'
      BY <1>1, <1>2, <1>3 DEF IInv, RunInv, UnderWay, Here, Stages, NextPair
    <2>2. Here(b) \in Lanes
      BY <1>5, HereIsLane DEF UnderWay, IInv, TypeOK
    <2>. QED BY <1>1, <1>4, <2>1, <2>2
  <1>7. \A l \in Lanes : calls'[l] \in {0, 1}
    BY <1>1 DEF IInv, RunInv
  <1>8. \A l \in Lanes : l[1] > NextPair(run.mem) => calls'[l] = 0
    <2>1. run.mem.pairs \in Nat
      BY DEF IInv, TypeOK, Runs, Replayed
    <2>. QED BY <1>1, <1>4, <2>1 DEF IInv, RunInv, NextPair
  <1>9. \A b \in Agents : run.mem.pairs < Pairs => calls'[Here(b)] = IF lane'[b].called THEN 1 ELSE 0
    BY <1>1, <1>2, <1>3, <1>6 DEF IInv, RunInv
  <1>10. Ordered(run.mem) /\ ~run.mem.publishing /\ run.mem.claimer = Nobody
    BY <1>1 DEF IInv, RunInv, RunAlive
  <1>11. \A b \in Agents : IF lane'[b].at = "idle" THEN lane'[b] = Idle ELSE UnderWay(b)'
    BY <1>3, <1>5, <1>6
  <1>. QED BY <1>1, <1>2, <1>4, <1>7, <1>8, <1>9, <1>10, <1>11 DEF RunInv, Early

LEMMA RunStep ==
  ASSUME IInv, Next
  PROVE  RunInv'
  <1>1. /\ TypeOK /\ RunInv /\ run \in Runs /\ lane \in LanesAtWork
        /\ \A l \in Lanes : calls[l] \in {0, 1}
    BY DEF IInv, TypeOK, RunInv
  <1>2. ASSUME Over, calls' = calls PROVE RunInv'
    <2>1. run'.at = "over" /\ lane' = [a \in Agents |-> Idle]
      BY <1>1, <1>2, RunFields
    <2>. QED BY <1>1, <1>2, <2>1 DEF RunInv, Early, RunAlive
  <1>3. CASE CreateMarker \/ WriteMarker
    <2>1. CASE WriteMarker /\ Over
      BY <1>2, <2>1 DEF WriteMarker
    <2>2. CASE ~(WriteMarker /\ Over)
      <3>1. /\ run.at \in {"absent", "marking"} /\ run'.at \in {"marking", "reserving"}
            /\ run'.mem = Blank /\ lane' = lane /\ journal' = journal /\ calls' = calls
        BY <1>1, <1>3, <2>2, RunFields DEF CreateMarker, WriteMarker
      <3>2. Ordered(Blank)
        BY AttemptAssumption DEF Ordered, Blank, Lanes
      <3>. QED BY <1>1, <3>1, <3>2 DEF RunInv, Early
    <2>. QED BY <2>1, <2>2
  <1>4. CASE CreateJournal
    <2> DEFINE first == [Blank EXCEPT !.n = 1]
    <2>1. PICK outcome \in Outcomes :
            IF outcome = "ok" THEN Remember(first, "running") /\ UNCHANGED lane ELSE Over
      BY <1>4 DEF CreateJournal
    <2>2. CASE outcome # "ok"
      BY <1>2, <1>4, <2>1, <2>2 DEF CreateJournal
    <2>3. CASE outcome = "ok"
      <3>1. /\ run'.mem = first /\ run'.at = "running" /\ lane' = lane /\ calls' = calls
        BY <1>1, <1>4, <2>1, <2>3, RunFields DEF CreateJournal
      <3>2. /\ first.lane = Blank.lane /\ first.guards = Blank.guards /\ first.pairs = Blank.pairs
            /\ first.mode = "none" /\ ~first.published /\ ~first.publishing
            /\ first.claimer = Nobody /\ first.pairs = 0
        BY DEF Blank
      <3>3. Ordered(first)
        BY <3>2 DEF Ordered, Lanes, Blank
      <3>4. lane = [a \in Agents |-> Idle] /\ \A l \in Lanes : calls[l] = 0
        BY <1>4 DEF CreateJournal, IInv, RunInv, Early
      <3>5. \A a \in Agents : lane[a] = Idle
        BY <3>4
      <3>6. \A a \in Agents : Here(a)' \in Lanes
        BY <3>1, <3>2, AttemptAssumption DEF Here, NextPair, Lanes
      <3>. QED BY <1>1, <3>1, <3>2, <3>3, <3>4, <3>5, <3>6 DEF RunInv, Early, Idle
    <2>. QED BY <2>2, <2>3
  <1>5. CASE LinkArtifact
    <2>1. /\ run.at = "linking" /\ run'.at \in {"linking", "confirming"} /\ run'.mem = run.mem
          /\ lane' = lane /\ calls' = calls
      BY <1>1, <1>5, RunFields DEF LinkArtifact
    <2>. QED BY <1>1, <2>1 DEF RunInv, Early, RunAlive
  <1>6. CASE Confirm
    <2> DEFINE e == [op |-> "published"]
    <2>1. e \in Records /\ Fits(run.mem, e) /\ RunAppends(e, "validating")
      BY <1>6 DEF Confirm, Records, IInv, RunInv, Fits
    <2>2. run.mem \in Replayed /\ Ordered(run.mem)
      BY <1>1, <1>6 DEF Runs, RunInv, RunAlive, Confirm
    <2>3. Ordered(After(run.mem, e))
      BY <2>1, <2>2, OrderedAfter
    <2>4. \/ run'.mem = After(run.mem, e) /\ run'.at = "validating"
          \/ run'.mem = run.mem /\ run'.at = run.at
      BY <1>1, <2>1, RunFields DEF RunAppends
    <2>. QED BY <1>1, <1>6, <2>2, <2>3, <2>4 DEF RunInv, Early, Confirm
  <1>7. CASE ValidateRun \/ Stop \/ Crash
    BY <1>2, <1>7 DEF ValidateRun, Stop, Crash
  <1>8. ASSUME NEW s \in Sealers, Seal(s) PROVE RunInv'
    <2>1. run' = run /\ lane' = lane /\ calls' = calls /\ (run.at \in Early => journal' = journal)
      <3>1. CASE Quiet(s)
        BY <1>1, <3>1, QuietMeans
      <3>2. CASE Recover(s) \/ SealConfirms(s)
        <4>1. PICK e : SealWrites(s, e)
          BY <3>2, SealWriters
        <4>2. run.at = "over"
          BY <4>1 DEF IInv, EvidenceInv, SealWrites, Acting
        <4>. QED BY <4>1, <4>2 DEF SealWrites, Early
      <3>. QED BY <1>8, <3>1, <3>2 DEF Seal, Quiet
    <2>. QED BY <1>1, <2>1 DEF RunInv, RunAlive, UnderWay, Here, Stages, NextPair
  <1>. QED BY <1>3, <1>4, <1>5, <1>6, <1>7, <1>8, RunAloneStep, ClosePairStep,
              StartPublicationStep, ReserveLaneStep, StageStep, CallStep, SettleStep,
              CloseLaneStep DEF Next

-----------------------------------------------------------------------------
(* The invariant holds, and means that the evidence is true *)

LEMMA InitIInv == Init => IInv
  <1> SUFFICES ASSUME Init PROVE IInv
    OBVIOUS
  <1>1. Blank \in Replayed
    BY BlankType
  <1>2. lane \in LanesAtWork
    BY DEF Init, LanesAtWork, Idle, Results
  <1>3. sealer \in [Sealers -> SealCommands]
    BY <1>1, AttemptAssumption DEF Init, SealCommands
  <1>4. TypeOK
    <2>1. run \in Runs
      BY <1>1 DEF Init, Runs
    <2>2. calls \in [Lanes -> Nat]
      BY DEF Init
    <2>3. /\ claim \in [by : Sealers \cup {Nobody}, whole : BOOLEAN]
          /\ artifact \in [mode : {"none", "runtime", "recovery"}, claimer : Sealers \cup {Nobody}]
      BY DEF Init, NoClaim, NoArtifact
    <2>4. faults \in 0 .. MaxFaults /\ slips \subseteq {"append", "takeover"}
      BY AttemptAssumption DEF Init
    <2>5. marker \in {"absent", "empty", "whole"} /\ journal \in Replayed
          /\ intact \in BOOLEAN /\ sealed \in BOOLEAN
      BY <1>1 DEF Init
    <2>. QED BY <1>2, <1>3, <2>1, <2>2, <2>3, <2>4, <2>5 DEF TypeOK
  <1>5. RunInv
    <2>1. Ordered(Blank)
      BY AttemptAssumption DEF Ordered, Blank, Lanes
    <2>. QED BY <2>1 DEF Init, RunInv, Early
  <1>6. journal = Blank /\ journal.claimer = Nobody /\ ~journal.published
        /\ \A l \in Lanes : journal.lane[l].result = "none"
    BY DEF Init, Blank, Untouched
  <1>7. EvidenceInv
    BY <1>6 DEF Init, EvidenceInv, Acting, RunAlive
  <1>8. \A s \in Sealers : SealerInv(s)
    BY <1>6, AttemptAssumption DEF Init, SealerInv, Looking
  <1>9. MemoryInv /\ ClaimInv
    BY <1>6 DEF Init, MemoryInv, ClaimInv, Owning, Recovering, Late
  <1>. QED BY <1>4, <1>5, <1>6, <1>7, <1>8, <1>9 DEF IInv

LEMMA NextIInv == IInv /\ [Next]_vars => IInv'
  <1> SUFFICES ASSUME IInv, [Next]_vars PROVE IInv'
    OBVIOUS
  <1>1. CASE Next
    <2>1. TypeOK'
      <3>1. CASE RunActs
        BY <3>1, RunTypeStep
      <3>2. ASSUME NEW s \in Sealers, Seal(s) PROVE TypeOK'
        BY <3>2, SealTypeStep DEF IInv
      <3>. QED BY <1>1, <3>1, <3>2 DEF Next, RunActs
    <2>. QED BY <1>1, <2>1, RunStep, EvidenceStep, SealerStep, OwnerStep DEF IInv
  <1>2. CASE UNCHANGED vars
    <2>1. TypeOK' /\ (journal'.published => journal'.publishing)
      BY <1>2 DEF vars, IInv, TypeOK
    <2>2. RunInv'
      BY <1>2 DEF vars, IInv, RunInv, RunAlive, UnderWay, Here, Stages, NextPair
    <2>3. EvidenceInv'
      BY <1>2 DEF vars, IInv, EvidenceInv, Acting, RunAlive
    <2>4. \A s \in Sealers : SealerInv(s)'
      BY <1>2 DEF vars, IInv, SealerInv
    <2>5. MemoryInv' /\ ClaimInv'
      BY <1>2 DEF vars, IInv, MemoryInv, ClaimInv
    <2>. QED BY <2>1, <2>2, <2>3, <2>4, <2>5 DEF IInv
  <1>. QED BY <1>1, <1>2

LEMMA IInvMeans == IInv => TypeOK /\ JournalIsTrue
  <1> SUFFICES ASSUME IInv PROVE TypeOK /\ JournalIsTrue
    OBVIOUS
  <1>1. TypeOK /\ \A l \in Lanes : calls[l] \in {0, 1}
    BY DEF IInv, RunInv
  <1>2. ASSUME intact, NEW l \in Lanes, journal.lane[l].result \notin {"none", "succeeded"},
               NEW k \in Lanes, k[1] > l[1]
        PROVE  calls[k] = 0
    <2>1. l[1] < k[1]
      BY <1>2 DEF Lanes
    <2>2. calls[k] = 1 => journal.lane[l].result = "succeeded"
      BY <1>2, <2>1 DEF IInv, EvidenceInv
    <2>. QED BY <1>1, <1>2, <2>2
  <1>3. intact =>
          /\ \A l \in Lanes : calls[l] = 1 => journal.lane[l].stages >= DispatchStage
          /\ \A l \in Lanes : journal.lane[l].result = "succeeded" => calls[l] = 1
          /\ journal.claimer # Nobody => ~RunAlive
    BY DEF IInv, EvidenceInv, RunAlive
  <1>4. EvidenceIsTrue
    BY <1>1, <1>2, <1>3 DEF EvidenceIsTrue
  <1>5. JournalReadable
    BY DEF IInv, MemoryInv, JournalReadable
  <1>. QED BY <1>1, <1>4, <1>5 DEF JournalIsTrue

-----------------------------------------------------------------------------
(* Sealing *)

\* The bundle that the end recorded in the journal asks for.
OwnArtifact == [mode |-> journal.mode, claimer |-> journal.claimer]

\* An artifact is linked only after its announcement.
PublicationInv ==
  /\ run.at \in Early => artifact = NoArtifact
  /\ intact /\ (artifact # NoArtifact \/ run.at \in Late \/ \E s \in Sealers : sealer[s].at \in Late)
       => journal.publishing

\* A bundle found valid: nobody writes into it any more.
SealedInv ==
  sealed /\ "takeover" \notin slips =>
    /\ run.at = "over" /\ marker = "whole" /\ intact /\ journal.published
    /\ artifact = OwnArtifact
    /\ \A s \in Sealers : sealer[s].at \notin Recovering
    /\ journal.claimer # Nobody => claim.whole

\* When a seal command began is a count of mishaps, or the bound that none reaches.
SinceInv ==
  \A s \in Sealers :
    /\ sealer[s].since \in 0 .. faults \/ sealer[s].since = MaxFaults + 1
    /\ sealer[s].at = "idle" => sealer[s].since = MaxFaults + 1

\* Nobody has created a claim yet; s is about to, and whoever else may has seen the
\* same journal.
Opening(s) ==
  /\ claim = NoClaim /\ artifact = NoArtifact /\ ~journal.publishing
  /\ sealer[s].at \in {"looked", "claiming"}
  /\ \A u \in Sealers :
       \/ sealer[u].at \in {"idle", "over"}
       \/ sealer[u].at \in {"looked", "claiming"} /\ sealer[u].mem.n = journal.n

\* Seal command u keeps out of the way of t.
Waits(u, t) ==
  \/ sealer[u].at \in {"idle", "looked", "claiming", "contending", "over"}
  \/ sealer[u].at = "replacing" /\ sealer[t].at = "over"

\* Seal command t, which created the claim, is on its way or through.
Winning(t) ==
  /\ claim.by = t /\ \A u \in Sealers \ {t} : Waits(u, t)
  /\ sealer[t].at \in {"writing", "claimed", "over"} \cup Recovering
  /\ claim.whole <=> sealer[t].at # "writing"
  /\ sealer[t].at \in {"writing", "claimed"} => sealer[t].mem.n = journal.n
  /\ sealer[t].at \notin {"confirming", "validating", "over"} => artifact = NoArtifact
  /\ sealer[t].at \in Late \cup {"over"} => journal.claimer = t
  /\ sealer[t].at \in {"confirming", "validating", "over"} => artifact = OwnArtifact
  /\ sealer[t].at \in {"validating", "over"} => journal.published

\* From a look at an attempt at rest, and as long as nothing fails, somebody wins.
Undisturbed(s) ==
  /\ run.at = "over" /\ marker = "whole" /\ intact
  /\ Opening(s) \/ \E t \in Sealers : Winning(t)

\* The look that found nobody at work is since when nothing may have failed.
WinsInv ==
  \A s \in Sealers : sealer[s].since = faults /\ "takeover" \notin slips => Undisturbed(s)

SealInv == PublicationInv /\ SealedInv /\ SinceInv /\ WinsInv

\* A run that is over stays over.
LEMMA OverStays ==
  ASSUME IInv, RunActs, run.at = "over", marker = "whole"
  PROVE  run'.at = "over" /\ UNCHANGED <<files, sealer, sealed, slips, faults>>
  <1>1. \A a \in Agents : lane[a].at = "idle"
    BY DEF IInv, RunInv, Idle
  <1>2. Stop
    BY <1>1 DEF RunActs, CreateMarker, WriteMarker, CreateJournal, Guard, SkipLane, InPair,
         ReserveLane, Stage, Call, Settle, CloseLane, Active, ClosePair, EndRun,
         StartPublication, LinkArtifact, Confirm, ValidateRun, Crash, RunAlive
  <1>. QED BY <1>2 DEF Stop, Over

\* No step but a look changes when a seal command began.
LEMMA SinceKept ==
  ASSUME sealer \in [Sealers -> SealCommands], NEW s \in Sealers
  PROVE  /\ \A at : Goto(s, at) => sealer'[s].since = sealer[s].since
         /\ \A m, at : Keep(s, m, at) => sealer'[s].since = sealer[s].since
         /\ Leave(s) => sealer'[s].since = sealer[s].since
  <1>1. \A at : Goto(s, at) => sealer'[s].since = sealer[s].since
    BY DEF Goto, SealCommands
  <1>2. ASSUME NEW m, NEW at, Keep(s, m, at)
        PROVE  sealer'[s].since = sealer[s].since
    <2>1. [sealer[s] EXCEPT !.mem = m, !.at = at].since = sealer[s].since
      BY DEF SealCommands
    <2>2. sealer'[s] = [sealer[s] EXCEPT !.mem = m, !.at = at]
      BY <1>2 DEF Keep
    <2>. QED BY <2>1, <2>2
  <1>3. Leave(s) => sealer'[s].since = sealer[s].since
    BY <1>2 DEF Leave
  <1>. QED BY <1>1, <1>2, <1>3

\* A look notes the length of the journal and, where the attempt rests, the mishaps so far.
LEMMA LookMeans ==
  ASSUME TypeOK, NEW s \in Sealers, Look(s)
  PROVE  /\ UNCHANGED <<files, run, lane, calls, sealed, slips, faults>>
         /\ sealer[s].at = "idle" /\ \A t \in Sealers \ {s} : sealer'[t] = sealer[t]
         /\ \/ /\ marker = "whole" /\ intact
               /\ sealer'[s].at = "looked" /\ sealer'[s].mem.n = journal.n
               /\ sealer'[s].since = IF Alone(s) THEN faults ELSE MaxFaults + 1
            \/ sealer'[s].at = "over" /\ sealer'[s].since = sealer[s].since
  <1>1. sealer \in [Sealers -> SealCommands]
    BY DEF TypeOK
  <1>2. CASE marker = "whole" /\ intact /\ journal.n > 0
    <2> DEFINE seen == [Blank EXCEPT !.n = journal.n, !.publishing = journal.publishing]
    <2>1. seen.n = journal.n
      BY DEF Blank
    <2>2. sealer' = [sealer EXCEPT ![s] =
            [at |-> "looked", mem |-> seen,
             since |-> IF Alone(s) THEN faults ELSE MaxFaults + 1]]
      BY <1>2 DEF Look
    <2> HIDE DEF seen
    <2>. QED BY <1>1, <1>2, <2>1, <2>2 DEF Look
  <1>3. CASE ~(marker = "whole" /\ intact /\ journal.n > 0)
    BY <1>1, <1>3, SealerFields, SinceKept DEF Look
  <1>. QED BY <1>2, <1>3

\* So does no step of Next.
LEMMA SinceMoves ==
  ASSUME IInv, Next
  PROVE  /\ faults' = faults \/ (faults < MaxFaults /\ faults' = faults + 1)
         /\ \A s \in Sealers :
              \/ sealer'[s].since = sealer[s].since
                   /\ (sealer'[s].at = "idle" => sealer[s].at = "idle")
              \/ Look(s) /\ sealer'[s].at = "looked"
  <1>1. TypeOK /\ sealer \in [Sealers -> SealCommands]
    BY DEF IInv, TypeOK
  <1>2. CASE RunActs
    <2>1. ASSUME NEW e, RunWrites(e)
          PROVE  sealer' = sealer /\ (faults' = faults \/ (faults < MaxFaults /\ faults' = faults + 1))
      BY <2>1 DEF RunWrites, Append, Fault
    <2>2. CASE CreateMarker \/ WriteMarker \/ CreateJournal \/ LinkArtifact \/ ValidateRun
               \/ Stop \/ Crash
      BY <2>2 DEF CreateMarker, WriteMarker, CreateJournal, LinkArtifact, ValidateRun, Stop,
           Crash, Fault
    <2>3. CASE Guard \/ EndRun \/ StartPublication \/ Confirm \/ ClosePair \/ SkipLane
      BY <2>1, <2>3, RunWriters
    <2>4. ASSUME NEW a \in Agents, Stage(a) \/ CloseLane(a) \/ ReserveLane(a)
          PROVE  sealer' = sealer /\ (faults' = faults \/ (faults < MaxFaults /\ faults' = faults + 1))
      <3>1. (\E e : RunWrites(e)) \/ UNCHANGED <<sealer, faults>>
        BY <2>4, RunWriters
      <3>. QED BY <2>1, <3>1
    <2>5. ASSUME NEW a \in Agents, Call(a) \/ Settle(a)
          PROVE  sealer' = sealer /\ faults' = faults
      BY <2>5 DEF Call, Settle
    <2>. QED BY <1>2, <2>2, <2>3, <2>4, <2>5 DEF RunActs
  <1>3. ASSUME NEW s \in Sealers, Seal(s)
        PROVE  /\ faults' = faults \/ (faults < MaxFaults /\ faults' = faults + 1)
               /\ \A t \in Sealers \ {s} : sealer'[t] = sealer[t]
               /\ \/ sealer'[s].since = sealer[s].since
                       /\ (sealer'[s].at = "idle" => sealer[s].at = "idle")
                  \/ Look(s) /\ sealer'[s].at = "looked"
    <2>1. CASE Look(s)
      BY <1>1, <2>1, LookMeans
    <2>2. ASSUME NEW m, NEW at, at # "idle", Keep(s, m, at) \/ Goto(s, at)
          PROVE  /\ sealer'[s].since = sealer[s].since /\ sealer'[s].at # "idle"
                 /\ \A t \in Sealers \ {s} : sealer'[t] = sealer[t]
      BY <1>1, <2>2, SinceKept, SealerFields
    <2>3. Leave(s) => /\ sealer'[s].since = sealer[s].since /\ sealer'[s].at # "idle"
                      /\ \A t \in Sealers \ {s} : sealer'[t] = sealer[t]
      BY <2>2 DEF Leave
    <2>4. CASE Decide(s) \/ CreateClaim(s) \/ ReadClaim(s) \/ RenameClaim(s) \/ Reread(s)
      BY <2>2, <2>3, <2>4 DEF Decide, CreateClaim, ReadClaim, RenameClaim, Reread
    <2>5. CASE WriteClaim(s) \/ SealLinks(s)
      BY <2>2, <2>3, <2>5 DEF WriteClaim, SealLinks, Fault
    <2>6. CASE AssertOwned(s) \/ Fence(s)
      BY <2>2, <2>3, <2>6 DEF AssertOwned, Fence
    <2>7. CASE Unlink(s) \/ SealValidates(s) \/ SealerCrashes(s)
      BY <2>3, <2>7 DEF Unlink, SealValidates, SealerCrashes, Fault
    <2>8. CASE Recover(s) \/ SealConfirms(s)
      <3>1. PICK e, then : then # "idle" /\ SealAppends(s, e, then)
        <4>1. Recover(s) =>
                SealAppends(s, NextRecord(s, sealer[s].mem),
                  IF NextRecord(s, sealer[s].mem).op = "publishing" THEN "linking" ELSE "sealing")
          BY DEF Recover
        <4>2. SealConfirms(s) => SealAppends(s, [op |-> "published"], "validating")
          BY DEF SealConfirms
        <4>. QED BY <2>8, <4>1, <4>2
      <3>2. PICK outcome \in Outcomes :
              /\ Append(sealer[s].mem, e, outcome)
              /\ IF outcome = "ok" THEN Keep(s, After(sealer[s].mem, e), then) ELSE Leave(s)
        BY <3>1 DEF SealAppends
      <3>3. faults' = faults \/ (faults < MaxFaults /\ faults' = faults + 1)
        BY <3>2 DEF Append, Fault
      <3>. QED BY <2>2, <2>3, <3>1, <3>2, <3>3
    <2>. QED BY <1>3, <2>1, <2>4, <2>5, <2>6, <2>7, <2>8 DEF Seal
  <1>. QED BY <1>2, <1>3 DEF Next, RunActs

LEMMA SinceStep ==
  ASSUME IInv, SinceInv, Next
  PROVE  SinceInv'
  <1>1. TypeOK /\ faults \in Nat /\ MaxFaults \in Nat /\ faults <= MaxFaults
    BY AttemptAssumption DEF IInv, TypeOK
  <1>2. faults' \in Nat /\ faults <= faults'
    BY <1>1, SinceMoves
  <1> SUFFICES ASSUME NEW s \in Sealers
               PROVE  /\ sealer'[s].since \in 0 .. faults' \/ sealer'[s].since = MaxFaults + 1
                      /\ sealer'[s].at = "idle" => sealer'[s].since = MaxFaults + 1
    BY DEF SinceInv
  <1>3. CASE /\ sealer'[s].since = sealer[s].since
             /\ sealer'[s].at = "idle" => sealer[s].at = "idle"
    BY <1>1, <1>2, <1>3 DEF SinceInv
  <1>4. CASE Look(s) /\ sealer'[s].at = "looked"
    <2>1. sealer'[s].since = faults \/ sealer'[s].since = MaxFaults + 1
      BY <1>1, <1>4, LookMeans
    <2>. QED BY <1>1, <1>2, <1>4, <2>1
  <1>. QED BY <1>3, <1>4, SinceMoves

\* An announcement that was appended stays, and makes the journal announce.
LEMMA JournalPublishes ==
  ASSUME TypeOK, NEW m, NEW e \in Records, NEW outcome \in Outcomes, Append(m, e, outcome)
  PROVE  /\ intact' => intact
         /\ journal.publishing => journal'.publishing
         /\ intact' /\ outcome = "ok" /\ e.op = "publishing" => journal'.publishing
  <1>1. journal \in Replayed /\ (journal' = journal \/ journal' = After(journal, e))
    BY AppendMeans DEF TypeOK
  <1>2. After(journal, e).publishing <=> (journal.publishing \/ e.op = "publishing")
    BY <1>1, AfterRest
  <1>3. intact' => intact
    BY AppendMeans DEF TypeOK
  <1>. QED BY <1>1, <1>2, <1>3, AppendMeans

\* Whoever links has announced it, in a file that nobody shortens.
LEMMA PublicationStep ==
  ASSUME IInv, PublicationInv, Next
  PROVE  PublicationInv'
  <1>1. TypeOK /\ run \in Runs /\ sealer \in [Sealers -> SealCommands]
    BY DEF IInv, TypeOK
  <1>2. ASSUME UNCHANGED <<journal, intact, artifact, sealer>>,
               run'.at \in Early => run.at \in Early, run'.at \in Late => run.at \in Late
        PROVE  PublicationInv'
    BY <1>2 DEF PublicationInv
  <1>3. ASSUME NEW e, RunWrites(e), artifact' = artifact,
               run'.at \in Late => run.at \in Late
        PROVE  PublicationInv'
    <2>1. PICK outcome \in Outcomes : Append(run.mem, e, outcome)
      BY <1>3 DEF RunWrites
    <2>2. (intact' => intact) /\ (journal.publishing => journal'.publishing)
      BY <1>1, <1>3, <2>1, JournalPublishes DEF RunWrites
    <2>3. run'.at \notin Early /\ sealer' = sealer
      BY <1>3 DEF RunWrites, Working, Early, Late
    <2>. QED BY <1>3, <2>2, <2>3 DEF PublicationInv
  <1>4. CASE RunActs
    <2>1. CASE CreateMarker \/ WriteMarker
      <3>1. run.at \in Early /\ run'.at \notin Late
        BY <1>1, <2>1, RunFields DEF CreateMarker, WriteMarker, Early, Late
      <3>. QED BY <1>2, <2>1, <3>1 DEF CreateMarker, WriteMarker
    <2>2. CASE CreateJournal
      <3>1. run.at \in Early /\ artifact' = artifact /\ sealer' = sealer
        BY <2>2 DEF CreateJournal, Early
      <3>2. run'.at \in {"running", "over"}
        BY <1>1, <2>2, RunFields DEF CreateJournal
      <3>3. \A s \in Sealers : sealer[s].at \notin Late
        BY <3>1 DEF IInv, EvidenceInv, Acting, Early, Late
      <3>. QED BY <3>1, <3>2, <3>3 DEF PublicationInv, Early, Late
    <2>3. CASE Guard \/ EndRun \/ ClosePair \/ SkipLane
      <3>1. run.at = "running" /\ artifact' = artifact
        BY <2>3 DEF Guard, EndRun, ClosePair, SkipLane, InPair
      <3>2. run'.at \notin Late
        <4>1. \E e : RunAppends(e, "running")
          BY <2>3 DEF Guard, EndRun, ClosePair, SkipLane
        <4>2. run'.at = "running"
          BY <1>1, <3>1, <4>1, RunAppendsIs
        <4>. QED BY <4>2 DEF Late
      <3>3. \E e : RunWrites(e)
        BY <2>3, RunWriters
      <3>. QED BY <1>3, <3>1, <3>2, <3>3
    <2>4. CASE StartPublication
      <3> DEFINE e == [op |-> "publishing"]
      <3>1. PICK outcome \in Outcomes :
              /\ Append(run.mem, e, outcome)
              /\ run'.at = IF outcome = "ok" THEN "linking" ELSE run.at
        BY <1>1, <2>4, RunAppendsIs DEF StartPublication
      <3>2. e \in Records
        BY DEF Records
      <3>3. /\ intact' => intact
            /\ journal.publishing => journal'.publishing
            /\ intact' /\ outcome = "ok" => journal'.publishing
        BY <1>1, <3>1, <3>2, JournalPublishes
      <3>4. run.at = "running" /\ artifact' = artifact /\ sealer' = sealer
        BY <2>4 DEF StartPublication
      <3>. QED BY <3>1, <3>3, <3>4 DEF PublicationInv, Early, Late
    <2>5. CASE Confirm
      <3>1. run.at \in Late /\ artifact' = artifact
        BY <2>5 DEF Confirm, Late
      <3>. QED BY <1>3, <2>5, <3>1, RunWriters
    <2>6. CASE LinkArtifact
      <3>1. run.at \in Late /\ UNCHANGED <<journal, intact, sealer>> /\ run'.at \in Late
        BY <1>1, <2>6, RunFields DEF LinkArtifact, Late
      <3>. QED BY <3>1 DEF PublicationInv, Early, Late
    <2>7. CASE ValidateRun \/ Stop \/ Crash
      <3>1. run'.at = "over" /\ UNCHANGED <<journal, intact, artifact, sealer>>
        BY <1>1, <2>7, RunFields DEF ValidateRun, Stop, Crash, files
      <3>. QED BY <1>2, <3>1 DEF Early, Late
    <2>8. ASSUME NEW a \in Agents, Stage(a) \/ CloseLane(a) \/ ReserveLane(a)
          PROVE  PublicationInv'
      <3>1. run.at = "running" /\ artifact' = artifact
        BY <2>8 DEF Stage, CloseLane, ReserveLane, Active, IInv, RunInv, Idle
      <3>2. run'.at = "running"
        <4>1. CASE Stage(a) \/ ReserveLane(a)
          BY <1>1, <3>1, <4>1, RunFields DEF Stage, ReserveLane
        <4>2. CASE CloseLane(a)
          BY <1>1, <3>1, <4>2, RunAppendsIs DEF CloseLane
        <4>. QED BY <2>8, <4>1, <4>2
      <3>3. (\E e : RunWrites(e)) \/ UNCHANGED <<journal, intact, artifact, sealer>>
        BY <2>8, RunWriters DEF files
      <3>. QED BY <1>2, <1>3, <3>1, <3>2, <3>3
    <2>9. ASSUME NEW a \in Agents, Call(a) \/ Settle(a)
          PROVE  PublicationInv'
      BY <1>2, <2>9 DEF Call, Settle, files
    <2>. QED BY <1>4, <2>1, <2>2, <2>3, <2>4, <2>5, <2>6, <2>7, <2>8, <2>9 DEF RunActs
  <1>5. ASSUME NEW s \in Sealers, NEW e, SealWrites(s, e) PROVE PublicationInv'
    <2>1. PICK outcome \in Outcomes :
            /\ Append(sealer[s].mem, e, outcome)
            /\ sealer'[s].at = IF outcome # "ok" THEN "over"
                               ELSE IF e.op = "publishing" THEN "linking"
                               ELSE IF e.op = "published" THEN "validating"
                               ELSE "sealing"
      BY <1>5 DEF SealWrites
    <2>2. /\ intact' => intact
          /\ journal.publishing => journal'.publishing
          /\ intact' /\ outcome = "ok" /\ e.op = "publishing" => journal'.publishing
      BY <1>1, <1>5, <2>1, JournalPublishes DEF SealWrites
    <2>3. run' = run /\ artifact' = artifact /\ \A t \in Sealers \ {s} : sealer'[t] = sealer[t]
      BY <1>5 DEF SealWrites
    <2>4. e.op = "published" => sealer[s].at \in Late
      BY <1>5 DEF SealWrites, Late
    <2>5. intact' /\ sealer'[s].at \in Late => journal'.publishing
      BY <2>1, <2>2, <2>4 DEF PublicationInv, Late
    <2>. QED BY <2>2, <2>3, <2>5 DEF PublicationInv
  <1>6. ASSUME NEW s \in Sealers, Quiet(s) PROVE PublicationInv'
    <2>1. /\ UNCHANGED <<journal, intact, run>>
          /\ \A t \in Sealers \ {s} : sealer'[t] = sealer[t]
      BY <1>1, <1>6, QuietMeans
    <2>2. sealer'[s].at \in Late => sealer[s].at \in Late
      BY <1>1, <1>6, QuietMoves DEF Late, Looking
    <2>3. artifact' = artifact \/ sealer[s].at \in Late
      BY <1>6 DEF Quiet, Look, Decide, CreateClaim, WriteClaim, ReadClaim, RenameClaim, Reread,
           AssertOwned, Unlink, Fence, SealLinks, SealValidates, SealerCrashes, files, Late
    <2>4. sealer[s].at \in Late => run.at \notin Early
      BY DEF IInv, EvidenceInv, Acting, Early, Late
    <2>. QED BY <2>1, <2>2, <2>3, <2>4 DEF PublicationInv
  <1>7. ASSUME NEW s \in Sealers, Seal(s) PROVE PublicationInv'
    <2>1. CASE Recover(s) \/ SealConfirms(s)
      BY <1>5, <2>1, SealWriters
    <2>. QED BY <1>6, <1>7, <2>1 DEF Seal, Quiet
  <1>. QED BY <1>4, <1>7 DEF Next, RunActs

\* What went wrong is never forgotten.
LEMMA SlipsStay ==
  ASSUME IInv, Next
  PROVE  slips \subseteq slips'
  <1>1. CASE RunActs
    <2>1. ASSUME NEW e, RunWrites(e) PROVE slips \subseteq slips'
      BY <2>1 DEF RunWrites, Append
    <2>2. ASSUME NEW a \in Agents, Stage(a) \/ CloseLane(a) \/ ReserveLane(a)
          PROVE  slips \subseteq slips'
      <3>1. (\E e : RunWrites(e)) \/ slips' = slips
        BY <2>2, RunWriters
      <3>. QED BY <2>1, <3>1
    <2>3. CASE Guard \/ EndRun \/ StartPublication \/ Confirm \/ ClosePair \/ SkipLane
      BY <2>1, <2>3, RunWriters
    <2>4. CASE CreateMarker \/ WriteMarker \/ CreateJournal \/ LinkArtifact \/ ValidateRun
               \/ Stop \/ Crash \/ \E a \in Agents : Call(a) \/ Settle(a)
      BY <2>4 DEF CreateMarker, WriteMarker, CreateJournal, LinkArtifact, ValidateRun, Stop,
           Crash, Call, Settle
    <2>. QED BY <1>1, <2>2, <2>3, <2>4 DEF RunActs
  <1>2. ASSUME NEW s \in Sealers, Quiet(s) PROVE slips \subseteq slips'
    BY <1>2, QuietMeans DEF IInv
  <1>3. ASSUME NEW s \in Sealers, Recover(s) \/ SealConfirms(s) PROVE slips \subseteq slips'
    <2>1. PICK e : SealWrites(s, e)
      BY <1>3, SealWriters
    <2>. QED BY <2>1 DEF SealWrites, Append
  <1>. QED BY <1>1, <1>2, <1>3 DEF Next, RunActs, Seal, Quiet

\* Whoever is still at work on a sealed attempt only looks, contends or gives up.
LEMMA SealedStep ==
  ASSUME IInv, SealedInv, Next
  PROVE  SealedInv'
  <1>1. TypeOK /\ sealer \in [Sealers -> SealCommands] /\ (journal.published => journal.publishing)
    BY DEF IInv, TypeOK
  <1> SUFFICES ASSUME sealed', "takeover" \notin slips'
               PROVE  /\ run'.at = "over" /\ marker' = "whole" /\ intact' /\ journal'.published
                      /\ artifact' = [mode |-> journal'.mode, claimer |-> journal'.claimer]
                      /\ \A s \in Sealers : sealer'[s].at \notin Recovering
                      /\ journal'.claimer # Nobody => claim'.whole
    BY DEF SealedInv, OwnArtifact
  <1>2. CASE ValidateRun
    <2>1. run.at = "validating" /\ run'.at = "over" /\ UNCHANGED <<files, sealer, slips>>
      BY <1>2 DEF ValidateRun, Over
    <2>2. \A s \in Sealers : sealer[s].at \notin Recovering
      BY <2>1 DEF IInv, EvidenceInv, Acting, Recovering
    <2>3. Valid
      BY <1>2, <2>1 DEF ValidateRun, SealedInv
    <2>. QED BY <2>1, <2>2, <2>3 DEF Valid, files
  <1>3. ASSUME NEW s \in Sealers, SealValidates(s), ~sealed
        PROVE  /\ run'.at = "over" /\ marker' = "whole" /\ intact' /\ journal'.published
               /\ artifact' = [mode |-> journal'.mode, claimer |-> journal'.claimer]
               /\ \A t \in Sealers : sealer'[t].at \notin Recovering
               /\ journal'.claimer # Nobody => claim'.whole
    <2>1. /\ sealer[s].at = "validating" /\ UNCHANGED <<files, run, slips>> /\ Leave(s) /\ Valid
      BY <1>3 DEF SealValidates
    <2>2. run.at = "over"
      BY <2>1 DEF IInv, EvidenceInv, Acting
    <2>3. claim.by = s /\ \A t \in Sealers \ {s} : sealer[t].at \notin Recovering
      BY <2>1 DEF IInv, ClaimInv, Owning, Recovering, files
    <2>4. \A t \in Sealers : sealer'[t].at \notin Recovering
      BY <1>1, <2>1, <2>3, SealerFields DEF Recovering
    <2>. QED BY <2>1, <2>2, <2>4 DEF Valid, files
  <1>4. CASE sealed /\ "takeover" \notin slips
    <2>1. /\ run.at = "over" /\ marker = "whole" /\ intact /\ journal.published
          /\ artifact = [mode |-> journal.mode, claimer |-> journal.claimer]
          /\ \A s \in Sealers : sealer[s].at \notin Recovering
          /\ journal.claimer # Nobody => claim.whole
      BY <1>4 DEF SealedInv, OwnArtifact
    <2>2. CASE RunActs
      BY <2>1, <2>2, OverStays DEF files
    <2>3. ASSUME NEW s \in Sealers, Quiet(s)
          PROVE  /\ run'.at = "over" /\ marker' = "whole" /\ intact' /\ journal'.published
                 /\ artifact' = [mode |-> journal'.mode, claimer |-> journal'.claimer]
                 /\ \A t \in Sealers : sealer'[t].at \notin Recovering
                 /\ journal'.claimer # Nobody => claim'.whole
      <3>1. /\ UNCHANGED <<marker, journal, intact, run>>
            /\ \A t \in Sealers \ {s} : sealer'[t] = sealer[t]
        BY <1>1, <2>3, QuietMeans
      <3>2. artifact' = artifact
        BY <2>1, <2>3 DEF Quiet, Look, Decide, CreateClaim, WriteClaim, ReadClaim, RenameClaim,
             Reread, AssertOwned, Unlink, Fence, SealLinks, SealValidates, SealerCrashes, files,
             Recovering
      <3>3. sealer'[s].at \notin Recovering
        <4>1. sealer[s].at = "claimed" /\ sealer[s].mem.n = journal.n => FALSE
          BY <1>1, <2>1 DEF IInv, SealerInv, Looking
        <4>. QED BY <1>1, <2>1, <2>3, <4>1, QuietMoves DEF Recovering, Looking
      <3>4. journal.claimer # Nobody => claim'.whole
        <4> SUFFICES ASSUME journal.claimer # Nobody PROVE claim'.whole
          OBVIOUS
        <4>1. claim.by = journal.claimer /\ claim.whole /\ claim # NoClaim
          BY <1>4, <2>1 DEF IInv, ClaimInv, NoClaim
        <4>2. ~RenameClaim(s)
          BY <4>1 DEF RenameClaim
        <4>3. ~Unlink(s)
          BY <1>4, <4>1 DEF Unlink, IInv, SealerInv, ClaimInv, Owning
        <4>. QED BY <1>1, <2>3, <4>1, <4>2, <4>3
             DEF Quiet, Look, Decide, CreateClaim, WriteClaim, ReadClaim, Reread, AssertOwned,
                 Fence, SealLinks, SealValidates, SealerCrashes, files, TypeOK
      <3>. QED BY <2>1, <3>1, <3>2, <3>3, <3>4
    <2>4. ASSUME NEW s \in Sealers, Recover(s) \/ SealConfirms(s) PROVE FALSE
      BY <2>1, <2>4 DEF Recover, SealConfirms, Recovering
    <2>. QED BY <2>2, <2>3, <2>4 DEF Next, RunActs, Seal, Quiet
  <1>5. "takeover" \notin slips
    BY SlipsStay
  <1>6. sealed \/ ValidateRun \/ \E s \in Sealers : SealValidates(s)
    BY DEF Next, CreateMarker, WriteMarker, CreateJournal, Guard, SkipLane, ReserveLane, Stage,
       Call, Settle, CloseLane, ClosePair, EndRun, StartPublication, LinkArtifact, Confirm, Stop,
       Crash, Seal, Look, Decide, CreateClaim, WriteClaim, ReadClaim, RenameClaim, Reread,
       AssertOwned, Unlink, Fence, Recover, SealLinks, SealConfirms, SealerCrashes
  <1>. QED BY <1>2, <1>3, <1>4, <1>5, <1>6

\* Before there is a claim, whoever goes on looks, decides to seal, or creates it.
LEMMA OpeningStep ==
  ASSUME IInv, run.at = "over", marker = "whole", intact, NEW s \in Sealers, Opening(s),
         NEW u \in Sealers, Seal(u), faults' = faults
  PROVE  UNCHANGED <<marker, intact, run>> /\ (Opening(s)' \/ Winning(u)')
  <1>1. TypeOK /\ sealer \in [Sealers -> SealCommands] /\ SealerInv(u) /\ u # Nobody
    BY AttemptAssumption DEF IInv, TypeOK
  <1>2. /\ claim = NoClaim /\ artifact = NoArtifact /\ ~journal.publishing
        /\ sealer[s].at \in {"looked", "claiming"}
        /\ \A v \in Sealers :
             \/ sealer[v].at \in {"idle", "over"}
             \/ sealer[v].at \in {"looked", "claiming"} /\ sealer[v].mem.n = journal.n
    BY DEF Opening
  <1>3. CASE Look(u)
    <2>1. /\ UNCHANGED <<marker, journal, intact, claim, artifact, run>> /\ u # s
          /\ \A v \in Sealers \ {u} : sealer'[v] = sealer[v]
          /\ \/ sealer'[u].at = "looked" /\ sealer'[u].mem.n = journal.n
             \/ sealer'[u].at = "over"
      BY <1>1, <1>2, <1>3, LookMeans DEF files
    <2>2. \A v \in Sealers :
             \/ sealer'[v].at \in {"idle", "over"}
             \/ sealer'[v].at \in {"looked", "claiming"} /\ sealer'[v].mem.n = journal.n
      BY <1>2, <2>1
    <2>. QED BY <1>2, <2>1, <2>2 DEF Opening
  <1>4. CASE Decide(u)
    <2>1. UNCHANGED <<marker, journal, intact, claim, artifact, run>> /\ sealer[u].at = "looked"
      BY <1>4 DEF Decide, files
    <2>2. sealer[u].mem.n = journal.n /\ ~sealer[u].mem.publishing
      BY <1>1, <1>2, <2>1 DEF SealerInv, Looking
    <2>3. Goto(u, "claiming")
      BY <1>4, <2>2 DEF Decide, RunAlive
    <2>4. /\ sealer'[u].at = "claiming" /\ sealer'[u].mem = sealer[u].mem
          /\ \A v \in Sealers \ {u} : sealer'[v] = sealer[v]
      BY <1>1, <2>3, SealerFields
    <2>5. \A v \in Sealers :
             \/ sealer'[v].at \in {"idle", "over"}
             \/ sealer'[v].at \in {"looked", "claiming"} /\ sealer'[v].mem.n = journal.n
      BY <1>2, <2>2, <2>4
    <2>. QED BY <1>2, <2>1, <2>4, <2>5 DEF Opening
  <1>5. CASE CreateClaim(u)
    <2>1. /\ UNCHANGED <<marker, journal, intact, artifact, run>> /\ sealer[u].at = "claiming"
          /\ claim' = [by |-> u, whole |-> FALSE] /\ Goto(u, "writing")
      BY <1>2, <1>5 DEF CreateClaim
    <2>2. /\ sealer'[u].at = "writing" /\ sealer'[u].mem = sealer[u].mem
          /\ \A v \in Sealers \ {u} : sealer'[v] = sealer[v]
      BY <1>1, <2>1, SealerFields
    <2>3. sealer[u].mem.n = journal.n
      BY <1>2, <2>1
    <2>4. \A v \in Sealers \ {u} : Waits(v, u)'
      BY <1>2, <2>2 DEF Waits
    <2>. QED BY <1>2, <2>1, <2>2, <2>3, <2>4 DEF Winning, Late
  <1>6. ~SealerCrashes(u)
    BY <1>1 DEF SealerCrashes, Fault, TypeOK
  <1>7. Look(u) \/ Decide(u) \/ CreateClaim(u)
    BY <1>2, <1>6 DEF Seal, WriteClaim, ReadClaim, RenameClaim, Reread, AssertOwned, Unlink,
       Fence, Recover, SealLinks, SealConfirms, SealValidates
  <1>. QED BY <1>3, <1>4, <1>5, <1>7

\* The others find the claim of a seal command that lives, or that finished.
LEMMA WaitingStep ==
  ASSUME IInv, run.at = "over", intact, NEW t \in Sealers, Winning(t),
         NEW u \in Sealers \ {t}, Seal(u), faults' = faults, "takeover" \notin slips'
  PROVE  UNCHANGED <<marker, intact, run>> /\ Winning(t)'
  <1>1. TypeOK /\ sealer \in [Sealers -> SealCommands] /\ t # Nobody
    BY AttemptAssumption DEF IInv, TypeOK
  <1>2. claim.by = t /\ claim # NoClaim /\ Waits(u, t)
    BY <1>1 DEF Winning, NoClaim
  <1>3. ~SealerCrashes(u)
    BY <1>1 DEF SealerCrashes, Fault, TypeOK
  <1>4. ASSUME UNCHANGED files, run' = run,
               \A v \in Sealers \ {u} : sealer'[v] = sealer[v],
               \/ sealer'[u].at \in {"idle", "looked", "claiming", "contending", "over"}
               \/ sealer'[u].at = "replacing" /\ sealer[t].at = "over"
        PROVE  UNCHANGED <<marker, intact, run>> /\ Winning(t)'
    <2>1. sealer'[t] = sealer[t] /\ UNCHANGED <<marker, journal, intact, claim, artifact>>
      BY <1>4 DEF files
    <2>2. \A v \in Sealers \ {t} : Waits(v, t)'
      <3>1. ASSUME NEW v \in Sealers \ {t}, v # u PROVE Waits(v, t)'
        BY <1>4, <2>1, <3>1 DEF Winning, Waits
      <3>2. Waits(u, t)'
        BY <1>4, <2>1 DEF Waits
      <3>. QED BY <3>1, <3>2
    <2>. QED BY <1>4, <2>1, <2>2 DEF Winning, OwnArtifact
  <1>5. CASE Look(u)
    BY <1>1, <1>4, <1>5, LookMeans
  <1>6. CASE Decide(u)
    BY <1>1, <1>4, <1>6, SealerFields DEF Decide
  <1>7. CASE CreateClaim(u)
    <2>1. sealer[u].at = "claiming"
      BY <1>2, <1>7 DEF CreateClaim, Waits
    <2>2. Goto(u, "contending") /\ UNCHANGED files /\ run' = run
      BY <1>2, <1>7, <2>1 DEF CreateClaim, files
    <2>. QED BY <1>1, <1>4, <2>2, SealerFields
  <1>8. CASE ReadClaim(u)
    <2>1. Leave(u) \/ (Goto(u, "replacing") /\ ~SealerAlive(t))
      BY <1>2, <1>8 DEF ReadClaim
    <2>2. ~SealerAlive(t) => sealer[t].at = "over"
      BY DEF SealerAlive, Winning, Recovering
    <2>3. UNCHANGED files /\ run' = run
      BY <1>8 DEF ReadClaim
    <2>. QED BY <1>1, <1>4, <2>1, <2>2, <2>3, SealerFields
  <1>9. ~RenameClaim(u)
    <2>1. RenameClaim(u) => sealer[t].at = "over"
      BY <1>2 DEF RenameClaim, Waits
    <2>2. RenameClaim(u) => claim.by = journal.claimer
      BY <2>1 DEF Winning
    <2>. QED BY <1>1, <1>2, <2>2 DEF RenameClaim
  <1>10. Look(u) \/ Decide(u) \/ CreateClaim(u) \/ ReadClaim(u)
    BY <1>2, <1>3, <1>9 DEF Waits, Seal, WriteClaim, Reread, AssertOwned, Unlink,
       Fence, Recover, SealLinks, SealConfirms, SealValidates
  <1>. QED BY <1>5, <1>6, <1>7, <1>8, <1>10

\* Nothing stops the seal command that has the claim: what it appends is what comes next,
\* since its memory is the journal.
LEMMA WinnerAppends ==
  ASSUME IInv, intact, NEW t \in Sealers, Winning(t), Recover(t) \/ SealConfirms(t),
         faults' = faults, "takeover" \notin slips
  PROVE  UNCHANGED <<marker, intact, run>> /\ Winning(t)'
  <1>1. TypeOK /\ sealer \in [Sealers -> SealCommands] /\ faults \in Nat
    BY AttemptAssumption DEF IInv, TypeOK
  <1>2. PICK e : SealWrites(t, e)
    BY SealWriters
  <1>3. PICK outcome \in Outcomes :
          /\ Append(sealer[t].mem, e, outcome)
          /\ sealer'[t].at = IF outcome # "ok" THEN "over"
                             ELSE IF e.op = "publishing" THEN "linking"
                             ELSE IF e.op = "published" THEN "validating"
                             ELSE "sealing"
    BY <1>2 DEF SealWrites
  <1>4. outcome = "ok"
    BY <1>1, <1>3 DEF Append, Fault
  <1>5. /\ sealer[t].mem = journal /\ journal \in Replayed /\ e \in Records
        /\ Replays(journal, e)
    BY <1>2, OwnerWrites DEF SealWrites
  <1>6. intact'
    BY <1>1, <1>3, <1>4, <1>5, AppendMeans
  <1>7. journal' = After(journal, e) /\ intact' = intact
    BY <1>1, <1>3, <1>4, <1>6, AppendMeans DEF TypeOK
  <1>8. /\ UNCHANGED <<marker, claim, artifact, run>>
        /\ \A v \in Sealers \ {t} : sealer'[v] = sealer[v]
    BY <1>2 DEF SealWrites
  <1>9. /\ journal'.claimer = (IF e.op = "recovery" THEN e.by ELSE journal.claimer)
        /\ journal'.mode = (IF e.op = "end" THEN e.mode ELSE journal.mode)
        /\ (journal'.published <=> (journal.published \/ e.op = "published"))
    BY <1>5, <1>7, AfterRest
  <1>10. sealer[t].at = IF e.op = "published" THEN "confirming" ELSE "appending"
    BY <1>2 DEF SealWrites
  <1>11. e.op = "publishing" => journal.claimer = t
    BY <1>2, <1>5 DEF SealWrites
  <1>12. \A v \in Sealers \ {t} : Waits(v, t)'
    BY <1>8, <1>10 DEF Winning, Waits
  <1>13. claim.by = t /\ claim.whole
    BY <1>10 DEF Winning
  <1>14. CASE e.op = "published"
    <2>1. /\ journal.claimer = t /\ artifact = [mode |-> journal.mode, claimer |-> journal.claimer]
          /\ sealer'[t].at = "validating"
      BY <1>3, <1>4, <1>10, <1>14 DEF Winning, Late, OwnArtifact
    <2>. QED BY <1>7, <1>8, <1>9, <1>12, <1>13, <1>14, <2>1
             DEF Winning, Late, Recovering, OwnArtifact
  <1>15. CASE e.op # "published"
    <2>1. artifact = NoArtifact /\ sealer'[t].at = IF e.op = "publishing" THEN "linking" ELSE "sealing"
      BY <1>3, <1>4, <1>10, <1>15 DEF Winning
    <2>2. sealer'[t].at = "linking" => journal'.claimer = t
      BY <1>9, <1>11, <2>1
    <2>. QED BY <1>7, <1>8, <1>12, <1>13, <2>1, <2>2 DEF Winning, Late, Recovering
  <1>. QED BY <1>14, <1>15

\* So with all its steps.
LEMMA WinnerStep ==
  ASSUME IInv, run.at = "over", intact, NEW t \in Sealers, Winning(t), Seal(t),
         faults' = faults, "takeover" \notin slips
  PROVE  UNCHANGED <<marker, intact, run>> /\ Winning(t)'
  <1>1. TypeOK /\ sealer \in [Sealers -> SealCommands] /\ faults \in Nat
    BY AttemptAssumption DEF IInv, TypeOK
  <1>2. claim.by = t /\ (claim.whole <=> sealer[t].at # "writing")
    BY DEF Winning
  <1>3. sealer[t].at \in Recovering => sealer[t].mem = journal
    BY DEF IInv, ClaimInv
  <1>4. ASSUME UNCHANGED <<marker, journal, intact, run>>,
               \A v \in Sealers \ {t} : sealer'[v] = sealer[v], sealer[t].at # "over"
        PROVE  \A v \in Sealers \ {t} : Waits(v, t)'
    BY <1>4 DEF Winning, Waits
  <1>5. CASE WriteClaim(t)
    <2>1. /\ UNCHANGED <<marker, journal, intact, artifact, run>> /\ sealer[t].at = "writing"
          /\ claim' = [claim EXCEPT !.whole = TRUE] /\ Goto(t, "claimed")
      BY <1>1, <1>2, <1>5 DEF WriteClaim, Fault
    <2>2. /\ sealer'[t].at = "claimed" /\ sealer'[t].mem = sealer[t].mem
          /\ \A v \in Sealers \ {t} : sealer'[v] = sealer[v]
      BY <1>1, <2>1, SealerFields
    <2>3. claim'.by = t /\ claim'.whole
      BY <1>1, <1>2, <2>1 DEF TypeOK
    <2>. QED BY <1>4, <2>1, <2>2, <2>3 DEF Winning, Late
  <1>6. CASE Reread(t)
    <2>1. UNCHANGED <<marker, journal, intact, claim, artifact, run>> /\ sealer[t].at = "claimed"
      BY <1>6 DEF Reread, files
    <2>2. Keep(t, journal, "owning")
      BY <1>6, <2>1 DEF Reread, Winning
    <2>3. sealer'[t].at = "owning" /\ \A v \in Sealers \ {t} : sealer'[v] = sealer[v]
      BY <1>1, <2>2, SealerFields
    <2>. QED BY <1>4, <2>1, <2>3 DEF Winning, Late, Recovering
  <1>7. CASE AssertOwned(t) \/ Fence(t)
    <2>1. UNCHANGED <<marker, journal, intact, claim, artifact, run>>
      BY <1>7 DEF AssertOwned, Fence, files
    <2>2. sealer[t].at \in {"owning", "sealing"}
      BY <1>7 DEF AssertOwned, Fence, Winning, Recovering
    <2>3. Fence(t) => FenceHolds(t)
      <3>1. claim = [by |-> t, whole |-> TRUE]
        BY <1>1, <1>2, <2>2 DEF TypeOK
      <3>. QED BY <1>3, <2>2, <3>1 DEF FenceHolds, Recovering
    <2>4. Goto(t, "sealing") \/ Goto(t, "appending")
      BY <1>2, <1>7, <2>2, <2>3 DEF AssertOwned, Fence, Winning, Recovering
    <2>5. /\ sealer'[t].at \in {"sealing", "appending"}
          /\ \A v \in Sealers \ {t} : sealer'[v] = sealer[v]
      BY <1>1, <2>4, SealerFields
    <2>. QED BY <1>4, <2>1, <2>2, <2>5 DEF Winning, Late, Recovering
  <1>8. CASE Recover(t) \/ SealConfirms(t)
    BY <1>8, WinnerAppends
  <1>9. CASE SealLinks(t)
    <2>1. /\ UNCHANGED <<marker, journal, intact, claim, run>> /\ sealer[t].at = "linking"
          /\ Link(sealer[t].mem) /\ Goto(t, "confirming")
      BY <1>1, <1>9 DEF SealLinks, Fault
    <2>2. artifact' = [mode |-> journal.mode, claimer |-> journal.claimer]
      BY <1>3, <2>1 DEF Link, Recovering
    <2>3. sealer'[t].at = "confirming" /\ \A v \in Sealers \ {t} : sealer'[v] = sealer[v]
      BY <1>1, <2>1, SealerFields
    <2>. QED BY <1>4, <2>1, <2>2, <2>3 DEF Winning, Late, Recovering, OwnArtifact
  <1>10. CASE SealValidates(t)
    <2>1. /\ UNCHANGED <<marker, journal, intact, claim, artifact, run>>
          /\ sealer[t].at = "validating" /\ Leave(t)
      BY <1>10 DEF SealValidates, files
    <2>2. sealer'[t].at = "over" /\ \A v \in Sealers \ {t} : sealer'[v] = sealer[v]
      BY <1>1, <2>1, SealerFields
    <2>. QED BY <1>4, <2>1, <2>2 DEF Winning, Late, Recovering, OwnArtifact
  <1>11. ~SealerCrashes(t)
    BY <1>1 DEF SealerCrashes, Fault
  <1>12. sealer[t].at \in {"writing", "claimed", "over"} \cup Recovering
    BY DEF Winning
  <1>13. \/ WriteClaim(t) \/ Reread(t) \/ AssertOwned(t) \/ Fence(t) \/ Recover(t)
         \/ SealConfirms(t) \/ SealLinks(t) \/ SealValidates(t)
    BY <1>11, <1>12 DEF Seal, Recovering, Look, Decide, CreateClaim, ReadClaim, RenameClaim, Unlink
  <1>. QED BY <1>5, <1>6, <1>7, <1>8, <1>9, <1>10, <1>13

\* The first look opens, a creation wins, and from then on the winner goes on.
LEMMA WinsStep ==
  ASSUME IInv, SealInv, Next
  PROVE  WinsInv'
  <1>1. TypeOK /\ faults \in Nat /\ MaxFaults \in Nat /\ faults <= MaxFaults
    BY AttemptAssumption DEF IInv, TypeOK
  <1> SUFFICES ASSUME NEW s \in Sealers, sealer'[s].since = faults', "takeover" \notin slips'
               PROVE  Undisturbed(s)'
    BY DEF WinsInv
  <1>2. "takeover" \notin slips
    BY SlipsStay
  <1>3. CASE Look(s) /\ sealer'[s].at = "looked"
    <2>1. /\ UNCHANGED <<marker, journal, intact, claim, artifact, run, faults>>
          /\ marker = "whole" /\ intact /\ sealer'[s].mem.n = journal.n
          /\ \A t \in Sealers \ {s} : sealer'[t] = sealer[t]
          /\ Alone(s)
      BY <1>1, <1>3, LookMeans DEF files
    <2>2. artifact = NoArtifact
      BY <2>1 DEF Alone, SealInv, PublicationInv
    <2>3. \A u \in Sealers :
             \/ sealer'[u].at \in {"idle", "over"}
             \/ sealer'[u].at \in {"looked", "claiming"} /\ sealer'[u].mem.n = journal.n
      BY <1>3, <2>1 DEF Alone, OthersRest, SealerAlive
    <2>4. Opening(s)'
      BY <1>3, <2>1, <2>2, <2>3 DEF Opening, Alone
    <2>. QED BY <2>1, <2>4 DEF Undisturbed, Alone
  <1>4. CASE sealer'[s].since = sealer[s].since
    <2>1. faults' = faults
      BY <1>1, <1>4, SinceMoves DEF SealInv, SinceInv
    <2>2. Undisturbed(s)
      BY <1>2, <1>4, <2>1 DEF SealInv, WinsInv
    <2>3. run.at = "over" /\ marker = "whole" /\ intact
      BY <2>2 DEF Undisturbed
    <2>4. CASE RunActs
      <3>1. run'.at = "over" /\ UNCHANGED <<marker, journal, intact, claim, artifact, sealer>>
        BY <2>3, <2>4, OverStays DEF files
      <3>. QED BY <2>2, <3>1 DEF Undisturbed, Opening, Winning, Waits, OwnArtifact
    <2>5. ASSUME NEW u \in Sealers, Seal(u) PROVE Undisturbed(s)'
      <3>1. CASE Opening(s)
        BY <2>1, <2>3, <2>5, <3>1, OpeningStep DEF Undisturbed
      <3>2. ASSUME NEW t \in Sealers, Winning(t) PROVE Undisturbed(s)'
        <4>1. UNCHANGED <<marker, intact, run>> /\ Winning(t)'
          BY <1>2, <2>1, <2>3, <2>5, <3>2, WaitingStep, WinnerStep
        <4>. QED BY <2>3, <4>1 DEF Undisturbed
      <3>. QED BY <2>2, <3>1, <3>2 DEF Undisturbed
    <2>. QED BY <2>4, <2>5 DEF Next, RunActs
  <1>. QED BY <1>3, <1>4, SinceMoves

LEMMA InitSealInv == Init => SealInv
  <1> SUFFICES ASSUME Init PROVE SealInv
    OBVIOUS
  <1>1. MaxFaults + 1 # 0
    BY AttemptAssumption
  <1>. QED BY <1>1 DEF Init, SealInv, PublicationInv, SealedInv, SinceInv, WinsInv, Early, Late

LEMMA NextSealInv == IInv /\ SealInv /\ [Next]_vars => SealInv'
  <1> SUFFICES ASSUME IInv, SealInv, [Next]_vars PROVE SealInv'
    OBVIOUS
  <1>1. CASE Next
    BY <1>1, PublicationStep, SealedStep, SinceStep, WinsStep DEF SealInv
  <1>2. CASE UNCHANGED vars
    <2>1. PublicationInv' /\ SealedInv' /\ SinceInv'
      BY <1>2 DEF vars, SealInv, PublicationInv, SealedInv, OwnArtifact, SinceInv
    <2>2. WinsInv'
      BY <1>2 DEF vars, SealInv, WinsInv, Undisturbed, Opening, Winning, Waits, OwnArtifact
    <2>. QED BY <2>1, <2>2 DEF SealInv
  <1>. QED BY <1>1, <1>2

LEMMA SealInvMeans ==
  IInv /\ SealInv => SealingIsSound
  <1> SUFFICES ASSUME IInv, SealInv PROVE SealingIsSound
    OBVIOUS
  <1>1. TypeOK
    BY DEF IInv
  <1>2. SealingWins
    <2> SUFFICES ASSUME AtRest, NEW s \in Sealers, sealer[s].at = "over",
                        sealer[s].since = faults, "takeover" \notin slips
                 PROVE  Valid
      BY DEF SealingWins
    <2>1. Undisturbed(s)
      BY DEF SealInv, WinsInv
    <2>2. PICK t \in Sealers : Winning(t)
      BY <2>1 DEF Undisturbed, Opening
    <2>3. sealer[t].at = "over"
      BY <2>2 DEF AtRest, SealerAlive, Winning, Recovering
    <2>4. /\ journal.claimer = t /\ artifact = OwnArtifact /\ journal.published
          /\ claim.by = t /\ claim.whole
      BY <2>2, <2>3 DEF Winning
    <2>5. claim = [by |-> t, whole |-> TRUE] /\ t # Nobody
      BY <1>1, <2>4, AttemptAssumption DEF TypeOK
    <2>. QED BY <2>1, <2>4, <2>5 DEF Undisturbed, Valid, OwnArtifact
  <1>3. SealedStands
    <2> SUFFICES ASSUME sealed, "takeover" \notin slips, journal.claimer # Nobody \/ claim = NoClaim
                 PROVE  Valid
      BY DEF SealedStands
    <2>1. /\ marker = "whole" /\ intact /\ journal.published /\ artifact = OwnArtifact
          /\ journal.claimer # Nobody => claim.whole /\ claim.by = journal.claimer
      BY DEF SealInv, SealedInv, IInv, ClaimInv
    <2>2. claim = [by |-> journal.claimer, whole |-> journal.claimer # Nobody]
      <3>1. CASE journal.claimer # Nobody
        BY <1>1, <2>1, <3>1 DEF TypeOK
      <3>2. CASE journal.claimer = Nobody
        BY <3>2 DEF NoClaim
      <3>. QED BY <3>1, <3>2
    <2>. QED BY <2>1, <2>2 DEF Valid, OwnArtifact
  <1>. QED BY <1>2, <1>3 DEF SealingIsSound

-----------------------------------------------------------------------------
(* The theorems *)

\* Whatever the numbers of seal commands, guards and pairs, and whatever fails: the state
\* keeps its type.
THEOREM TypeCorrect == Spec => []TypeOK
  <1>1. Init => IInv BY InitIInv
  <1>2. IInv /\ [Next]_vars => IInv' BY NextIInv
  <1>3. IInv => TypeOK BY IInvMeans
  <1>. QED BY <1>1, <1>2, <1>3, PTL DEF Spec

\* Every call of the provider stands in the journal before it is made, no lane is called
\* twice or after a pair that failed, what the journal says succeeded was called, nothing
\* is called once it is being sealed; and it can be read as long as no append failed and
\* no claim was taken from its owner.
THEOREM JournalIsTrueAlways == Spec => []JournalIsTrue
  <1>1. Init => IInv BY InitIInv
  <1>2. IInv /\ [Next]_vars => IInv' BY NextIInv
  <1>3. IInv => JournalIsTrue BY IInvMeans
  <1>. QED BY <1>1, <1>2, <1>3, PTL DEF Spec

\* One seal command that nothing fails, run when the attempt is at rest, leaves a valid
\* bundle, however many others try meanwhile; and a bundle found valid stays valid, unless
\* a claim was renamed away from its owner or one came too late.
THEOREM SealingAlwaysSound == Spec => []SealingIsSound
  <1>1. Init => IInv /\ SealInv
    BY InitIInv, InitSealInv
  <1>2. IInv /\ SealInv /\ [Next]_vars => (IInv /\ SealInv)'
    BY NextIInv, NextSealInv
  <1>3. IInv /\ SealInv => SealingIsSound
    BY SealInvMeans
  <1>. QED BY <1>1, <1>2, <1>3, PTL DEF Spec

=============================================================================
