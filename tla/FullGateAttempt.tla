---------------------------- MODULE FullGateAttempt ----------------------------
(***************************************************************************)
(* One paid evaluation attempt and its evidence: the full gate of the      *)
(* tutor and organizer agents (phase 6.9.7).  A marker created exclusively *)
(* admits one run; the run writes a hash-chained journal in which every    *)
(* call of the provider is announced before it is made, then a report and  *)
(* an artifact.  When the run's process dies, seal commands complete the   *)
(* journal without calling anybody: they elect one of them with a claim    *)
(* file, which a later one may take over when its owner is dead.           *)
(*                                                                         *)
(* The journal is represented by the state its replay reaches; a journal   *)
(* that no longer parses is not `intact'.  The hash of its last line is    *)
(* represented by its length, which determines it while it only grows.     *)
(***************************************************************************)
EXTENDS Naturals, FiniteSets

CONSTANTS
  Sealers,      \* seal commands, each a process of its own
  Nobody,       \* no sealer
  Guards,       \* cases that must not call the provider
  Pairs,        \* pairs of lanes, run one after the other
  MaxFaults     \* bound: crashes and file operations that fail

ASSUME AttemptAssumption ==
  /\ Nobody \notin Sealers
  /\ Guards \in Nat \ {0} /\ Pairs \in Nat \ {0} /\ MaxFaults \in Nat

Agents == {"tutor", "organizer"}
Lanes == (1 .. Pairs) \X Agents

\* PHASE_6_9_7_V7_WIRE_STAGES: executor_entered, provider_dispatch_started and
\* usage_validated stand for the eight.
DispatchStage == 2
LastStage == 3

VARIABLES
  marker,    \* the marker file: "absent", "empty" or "whole"
  journal,   \* what replayRecords makes of the journal
  intact,    \* the journal parses: whole lines, an unbroken chain, a legal sequence
  claim,     \* the recovery claim file: whose it is, and whether it was written out
  artifact,  \* the published file: the completion mode and the claim it names
  run,       \* the process of the run: where it is, what it remembers
  lane,      \* its two lanes of the current pair
  sealer,    \* the seal commands
  calls,     \* calls of the provider made for each lane
  sealed,    \* somebody found the whole bundle valid
  slips,     \* history: appends that failed, claims taken from a living or winning owner
  faults
vars == <<marker, journal, intact, claim, artifact, run, lane, sealer, calls, sealed, slips, faults>>
files == <<marker, journal, intact, claim, artifact>>

Fault == faults < MaxFaults /\ faults' = faults + 1

-----------------------------------------------------------------------------
(* The journal *)

Untouched == [reserved |-> FALSE, stages |-> 0, result |-> "none"]
Blank ==
  [n |-> 0, guards |-> 0, clean |-> TRUE, pairs |-> 0, lane |-> [l \in Lanes |-> Untouched],
   claimer |-> Nobody, mode |-> "none", publishing |-> FALSE, published |-> FALSE]

NextPair(m) == m.pairs + 1

\* expectedReservationAgent: the tutor comes first.
ExpectedAgent(m) ==
  IF m.lane[<<NextPair(m), "tutor">>] = Untouched THEN "tutor" ELSE "organizer"

Opens(m, l) ==
  l[1] = NextPair(m) /\ l[2] = ExpectedAgent(m) /\ m.lane[l] = Untouched

LaneOps == {"reserve", "stage", "terminal", "notStarted"}

\* What each append of the lifecycle requires of its writer's memory.
Fits(m, e) ==
  CASE e.op = "guard" -> m.mode = "none" /\ m.guards < Guards
    [] e.op = "reserve" -> m.mode = "none" /\ m.guards = Guards /\ Opens(m, e.lane)
    [] e.op = "stage" -> m.lane[e.lane].reserved /\ m.lane[e.lane].result = "none"
                         /\ m.lane[e.lane].stages < LastStage
    [] e.op = "terminal" -> m.lane[e.lane].reserved /\ m.lane[e.lane].result = "none"
    [] e.op = "notStarted" -> Opens(m, e.lane)
    [] e.op = "pair" ->
         m.pairs < Pairs /\ \A a \in Agents : m.lane[<<NextPair(m), a>>].result # "none"
    [] e.op = "recovery" -> TRUE
    [] e.op = "end" -> m.mode = "none" /\ m.guards = Guards /\ m.pairs = Pairs
    [] e.op = "publishing" -> m.mode # "none" /\ ~m.publishing /\ ~m.published
    [] e.op = "published" -> m.publishing

\* What the replay requires of a record besides: it is a state machine of its own.
Replays(m, e) ==
  /\ Fits(m, e) /\ ~m.published
  /\ e.op \in {"stage", "terminal"} => e.lane[1] = NextPair(m)
  /\ e.op = "recovery" => ~m.publishing /\ m.claimer = Nobody
  /\ e.op = "end" => e.mode = IF m.claimer = Nobody THEN "runtime" ELSE "recovery"

\* The effect of a record, on a lane and on the rest.
LaneAfter(r, here, e) ==
  [reserved |-> r.reserved \/ (here /\ e.op = "reserve"),
   stages |-> r.stages + (IF here /\ e.op = "stage" THEN 1 ELSE 0),
   result |-> CASE here /\ e.op = "terminal" -> e.result
                [] here /\ e.op = "notStarted" -> "notStarted"
                [] OTHER -> r.result]

After(m, e) ==
  [n |-> m.n + 1,
   guards |-> m.guards + (IF e.op = "guard" THEN 1 ELSE 0),
   clean |-> m.clean /\ (e.op = "guard" => e.clean),
   pairs |-> m.pairs + (IF e.op = "pair" THEN 1 ELSE 0),
   lane |-> [l \in Lanes |-> LaneAfter(m.lane[l], e.op \in LaneOps /\ l = e.lane, e)],
   claimer |-> IF e.op = "recovery" THEN e.by ELSE m.claimer,
   mode |-> IF e.op = "end" THEN e.mode ELSE m.mode,
   publishing |-> m.publishing \/ e.op = "publishing",
   published |-> m.published \/ e.op = "published"]

\* appendRecord: the line carries the writer's next sequence and the hash of the line
\* it knows to be the last.  It may fail unwritten, though written, or half written.
Append(m, e, outcome) ==
  /\ IF outcome = "ok" THEN UNCHANGED <<faults, slips>>
     ELSE Fault /\ slips' = slips \cup {"append"}
  /\ IF outcome = "unwritten" \/ ~intact THEN UNCHANGED <<journal, intact>>
     ELSE IF outcome = "torn" \/ m.n # journal.n \/ ~Replays(journal, e)
     THEN intact' = FALSE /\ UNCHANGED journal
     ELSE journal' = After(journal, e) /\ UNCHANGED intact
Outcomes == {"ok", "unwritten", "unknown", "torn"}

-----------------------------------------------------------------------------
(* The run *)

RunAlive == run.at \notin {"absent", "over"}
Idle == [at |-> "idle", called |-> FALSE, outcome |-> "none"]
Here(a) == <<NextPair(run.mem), a>>
InPair == run.at = "running" /\ ~run.stopped /\ run.mem.guards = Guards /\ run.mem.pairs < Pairs

\* A guard that called, or a lane that did not succeed: the following pairs stay closed.
Breaker(m) == ~m.clean \/ \E l \in Lanes : m.lane[l].result \notin {"none", "succeeded"}

Over == run' = [at |-> "over", mem |-> Blank, stopped |-> FALSE] /\ lane' = [a \in Agents |-> Idle]
Remember(m, at) == run' = [run EXCEPT !.mem = m, !.at = at]
Stopped == run' = [run EXCEPT !.stopped = TRUE]

\* reservePhase697FullGateAttempt: a second run finds the marker and ends.
CreateMarker ==
  /\ run.at = "absent" /\ marker = "absent"
  /\ marker' = "empty" /\ Remember(Blank, "marking")
  /\ UNCHANGED <<journal, intact, claim, artifact, lane, sealer, calls, sealed, slips, faults>>

WriteMarker ==
  /\ run.at = "marking"
  /\ \/ marker' = "whole" /\ Remember(Blank, "reserving") /\ UNCHANGED <<lane, faults>>
     \/ Fault /\ Over /\ UNCHANGED marker
  /\ UNCHANGED <<journal, intact, claim, artifact, sealer, calls, sealed, slips>>

CreateJournal ==
  /\ run.at = "reserving"
  /\ LET first == [Blank EXCEPT !.n = 1] IN
     \E outcome \in Outcomes :
       /\ IF outcome = "ok" THEN UNCHANGED slips ELSE Fault /\ slips' = slips \cup {"append"}
       /\ journal' = IF outcome \in {"ok", "unknown"} THEN first ELSE journal
       /\ intact' = (outcome # "torn")
       /\ IF outcome = "ok" THEN Remember(first, "running") /\ UNCHANGED <<lane, faults>> ELSE Over
  /\ UNCHANGED <<marker, claim, artifact, sealer, calls, sealed>>

\* Append e for the run; a failure ends it as soon as no lane is under way.
RunAppends(e, then) ==
  \E outcome \in Outcomes :
    /\ Append(run.mem, e, outcome)
    /\ IF outcome = "ok" THEN Remember(After(run.mem, e), then) ELSE Stopped

Guard ==
  /\ run.at = "running" /\ ~run.stopped /\ run.mem.guards < Guards
  /\ \E clean \in BOOLEAN : RunAppends([op |-> "guard", clean |-> clean], "running")
  /\ UNCHANGED <<marker, claim, artifact, lane, sealer, calls, sealed>>

\* appendPairNotStarted, one lane.
SkipLane ==
  /\ InPair /\ Breaker(run.mem) /\ lane = [a \in Agents |-> Idle]
  /\ \E a \in Agents :
       LET e == [op |-> "notStarted", lane |-> Here(a)]
       IN Fits(run.mem, e) /\ RunAppends(e, "running")
  /\ UNCHANGED <<marker, claim, artifact, lane, sealer, calls, sealed>>

\* reserveLane: both lanes of a pair start at once, their appends queue behind each
\* other, so that the organizer's reservation comes before any stage of the tutor.
ReserveLane(a) ==
  /\ run.at = "running" /\ run.mem.guards = Guards /\ run.mem.pairs < Pairs
  /\ lane[a].at = "idle"
  /\ IF a = "tutor" THEN ~run.stopped /\ ~Breaker(run.mem) ELSE lane["tutor"].at # "idle"
  /\ LET e == [op |-> "reserve", lane |-> Here(a)] IN
     IF Fits(run.mem, e)
     THEN \E outcome \in Outcomes :
            /\ Append(run.mem, e, outcome)
            /\ IF outcome = "ok" THEN Remember(After(run.mem, e), "running") ELSE Stopped
            /\ lane' = [lane EXCEPT ![a].at = IF outcome = "ok" THEN "active" ELSE "ended"]
     ELSE Stopped /\ lane' = [lane EXCEPT ![a].at = "ended"]
          /\ UNCHANGED <<journal, intact, slips, faults>>
  /\ UNCHANGED <<marker, claim, artifact, sealer, calls, sealed>>

Active(a) == lane[a].at = "active" /\ \A b \in Agents : lane[b].at # "idle"
Stages(a) == run.mem.lane[Here(a)].stages

\* Mutant of Stage: a wire stage beyond the last one.
StageUnbounded(a) ==
  /\ Active(a) /\ Stages(a) <= LastStage /\ (Stages(a) = DispatchStage => lane[a].called)
  /\ LET e == [op |-> "stage", lane |-> Here(a)] IN
     \E outcome \in Outcomes :
       /\ Append(run.mem, e, outcome)
       /\ IF outcome = "ok" THEN Remember(After(run.mem, e), "running") /\ UNCHANGED lane
          ELSE lane' = [lane EXCEPT ![a].at = "settled", ![a].outcome = "failed"] /\ UNCHANGED run
  /\ UNCHANGED <<marker, claim, artifact, sealer, calls, sealed>>

\* advancePhase697V7WireStage: the stage is durable before what it announces is done.
\* A stage that cannot be written ends the wire, and the lane fails.
Stage(a) ==
  /\ Active(a) /\ Stages(a) < LastStage /\ (Stages(a) = DispatchStage => lane[a].called)
  /\ LET e == [op |-> "stage", lane |-> Here(a)] IN
     \E outcome \in Outcomes :
       /\ Append(run.mem, e, outcome)
       /\ IF outcome = "ok" THEN Remember(After(run.mem, e), "running") /\ UNCHANGED lane
          ELSE lane' = [lane EXCEPT ![a].at = "settled", ![a].outcome = "failed"] /\ UNCHANGED run
  /\ UNCHANGED <<marker, claim, artifact, sealer, calls, sealed>>

\* Mutant of Call: the provider is called before the dispatch is on disk.
CallEarly(a) ==
  /\ Active(a) /\ Stages(a) + 1 >= DispatchStage /\ ~lane[a].called
  /\ calls' = [calls EXCEPT ![Here(a)] = @ + 1]
  /\ lane' = [lane EXCEPT ![a].called = TRUE]
  /\ UNCHANGED <<files, run, sealer, sealed, slips, faults>>

\* executeDirect: the provider is called.
Call(a) ==
  /\ Active(a) /\ Stages(a) = DispatchStage /\ ~lane[a].called
  /\ calls' = [calls EXCEPT ![Here(a)] = @ + 1]
  /\ lane' = [lane EXCEPT ![a].called = TRUE]
  /\ UNCHANGED <<files, run, sealer, sealed, slips, faults>>

\* settleRuntime, normalizeRuntimeEntry: success takes all stages; the timeout, a failing
\* stage or a poor answer fail the lane at any of them.
Settle(a) ==
  /\ Active(a)
  /\ \E outcome \in {"succeeded", "failed"} :
       /\ outcome = "succeeded" => Stages(a) = LastStage
       /\ lane' = [lane EXCEPT ![a].at = "settled", ![a].outcome = outcome]
  /\ UNCHANGED <<files, run, sealer, calls, sealed, slips, faults>>

CloseLane(a) ==
  /\ lane[a].at = "settled"
  /\ RunAppends([op |-> "terminal", lane |-> Here(a), result |-> lane[a].outcome], "running")
  /\ lane' = [lane EXCEPT ![a].at = "ended"]
  /\ UNCHANGED <<marker, claim, artifact, sealer, calls, sealed>>

ClosePair ==
  /\ InPair /\ Fits(run.mem, [op |-> "pair"])
  /\ RunAppends([op |-> "pair"], "running")
  /\ lane' = [a \in Agents |-> Idle]
  /\ UNCHANGED <<marker, claim, artifact, sealer, calls, sealed>>

EndRun ==
  /\ run.at = "running" /\ ~run.stopped /\ run.mem.pairs = Pairs /\ run.mem.mode = "none"
  /\ RunAppends([op |-> "end", mode |-> "runtime"], "running")
  /\ UNCHANGED <<marker, claim, artifact, lane, sealer, calls, sealed>>

\* publishArtifact: announce, link the artifact where none may be, confirm.
StartPublication ==
  /\ run.at = "running" /\ ~run.stopped /\ run.mem.mode # "none"
  /\ RunAppends([op |-> "publishing"], "linking")
  /\ UNCHANGED <<marker, claim, artifact, lane, sealer, calls, sealed>>

NoArtifact == [mode |-> "none", claimer |-> Nobody]
Link(m) == artifact = NoArtifact /\ artifact' = [mode |-> m.mode, claimer |-> m.claimer]

LinkArtifact ==
  /\ run.at = "linking" /\ ~run.stopped
  /\ \/ Link(run.mem) /\ Remember(run.mem, "confirming") /\ UNCHANGED faults
     \/ Fault /\ Stopped /\ UNCHANGED artifact
  /\ UNCHANGED <<marker, journal, intact, claim, lane, sealer, calls, sealed, slips>>

Confirm ==
  /\ run.at = "confirming" /\ ~run.stopped
  /\ RunAppends([op |-> "published"], "validating")
  /\ UNCHANGED <<marker, claim, artifact, lane, sealer, calls, sealed>>

\* validatePhase697FullGateBundle: the claim file belongs to the bundle, or must not be.
NoClaim == [by |-> Nobody, whole |-> FALSE]
Valid ==
  /\ marker = "whole" /\ intact /\ journal.published
  /\ artifact = [mode |-> journal.mode, claimer |-> journal.claimer]
  /\ claim = [by |-> journal.claimer, whole |-> journal.claimer # Nobody]

ValidateRun ==
  /\ run.at = "validating"
  /\ sealed' = (sealed \/ Valid) /\ Over
  /\ UNCHANGED <<files, sealer, calls, slips, faults>>

\* The process ends once the lanes are through: a lane goes on while its sibling failed.
Stop ==
  /\ run.stopped /\ \A a \in Agents : lane[a].at \in {"idle", "ended"}
  /\ Over
  /\ UNCHANGED <<files, sealer, calls, sealed, slips, faults>>

Crash ==
  /\ RunAlive /\ Fault /\ Over
  /\ UNCHANGED <<files, sealer, calls, sealed, slips>>

-----------------------------------------------------------------------------
(* The seal command *)

SealerAlive(s) == sealer[s].at \notin {"idle", "over"}
Goto(s, at) == sealer' = [sealer EXCEPT ![s].at = at]
Keep(s, m, at) == sealer' = [sealer EXCEPT ![s] = [@ EXCEPT !.mem = m, !.at = at]]
Leave(s) == Keep(s, Blank, "over")
OthersRest(s) == \A t \in Sealers \ {s} : ~SealerAlive(t)

\* Nothing but an interrupted attempt, and nobody else at work.  (A note for the
\* properties, no part of the code.)
Alone(s) ==
  /\ run.at = "over" /\ OthersRest(s) /\ claim = NoClaim
  /\ journal.claimer = Nobody /\ ~journal.publishing

\* sealInterruptedAttempt, up to the parsed journal.
Look(s) ==
  /\ sealer[s].at = "idle"
  /\ IF marker = "whole" /\ intact /\ journal.n > 0
     THEN sealer' = [sealer EXCEPT ![s] =
                       [at |-> "looked",
                        mem |-> [Blank EXCEPT !.n = journal.n, !.publishing = journal.publishing],
                        since |-> IF Alone(s) THEN faults ELSE MaxFaults + 1]]
     ELSE Leave(s)
  /\ UNCHANGED <<files, run, lane, calls, sealed, slips, faults>>

\* Mutant of Decide: whether the run is at work is not asked.
DecideBlindly(s) ==
  /\ sealer[s].at = "looked"
  /\ IF sealer[s].mem.publishing THEN Leave(s) ELSE Goto(s, "claiming")
  /\ UNCHANGED <<files, run, lane, calls, sealed, slips, faults>>

\* The owner lives, the bundle is complete, publication was begun, or there is work.
Decide(s) ==
  /\ sealer[s].at = "looked"
  /\ IF RunAlive \/ sealer[s].mem.publishing THEN Leave(s) ELSE Goto(s, "claiming")
  /\ UNCHANGED <<files, run, lane, calls, sealed, slips, faults>>

\* Mutant of CreateClaim: the claim is created over one that is there.
CreateClaimOver(s) ==
  /\ sealer[s].at \in {"claiming", "reclaiming"}
  /\ claim' = [by |-> s, whole |-> FALSE] /\ Goto(s, "writing")
  /\ UNCHANGED <<marker, journal, intact, artifact, run, lane, calls, sealed, slips, faults>>

\* acquireRecoveryClaim: exclusive creation, first and again after a takeover.
CreateClaim(s) ==
  /\ sealer[s].at \in {"claiming", "reclaiming"}
  /\ IF claim = NoClaim
     THEN claim' = [by |-> s, whole |-> FALSE] /\ Goto(s, "writing")
     ELSE /\ UNCHANGED claim
          /\ IF sealer[s].at = "claiming" THEN Goto(s, "contending") ELSE Leave(s)
  /\ UNCHANGED <<marker, journal, intact, artifact, run, lane, calls, sealed, slips, faults>>

\* The file may have been renamed meanwhile: the write then notices.
WriteClaim(s) ==
  /\ sealer[s].at = "writing"
  /\ \/ /\ IF claim.by = s THEN claim' = [claim EXCEPT !.whole = TRUE] /\ Goto(s, "claimed")
           ELSE Leave(s) /\ UNCHANGED claim
        /\ UNCHANGED faults
     \/ Fault /\ Leave(s) /\ UNCHANGED claim
  /\ UNCHANGED <<marker, journal, intact, artifact, run, lane, calls, sealed, slips>>

\* Only the claim of a dead sealer is taken over, and only if it can be read.
ReadClaim(s) ==
  /\ sealer[s].at = "contending"
  /\ IF claim.whole /\ ~SealerAlive(claim.by) THEN Goto(s, "replacing") ELSE Leave(s)
  /\ UNCHANGED <<files, run, lane, calls, sealed, slips, faults>>

\* The rename takes away whatever claim is there by now.
RenameClaim(s) ==
  /\ sealer[s].at = "replacing"
  /\ claim' = NoClaim /\ Goto(s, "reclaiming")
  /\ slips' = IF claim.by # Nobody /\ (SealerAlive(claim.by) \/ claim.by = journal.claimer)
              THEN slips \cup {"takeover"} ELSE slips
  /\ UNCHANGED <<marker, journal, intact, artifact, run, lane, calls, sealed, faults>>

\* The journal must be the one it decided on, and the claim its own; else it withdraws.
\* (A journal that no longer parses leaves the claim behind.)
Reread(s) ==
  /\ sealer[s].at = "claimed"
  /\ IF ~intact THEN Leave(s)
     ELSE IF journal.n # sealer[s].mem.n THEN Goto(s, "releasing")
     ELSE Keep(s, journal, "owning")
  /\ UNCHANGED <<files, run, lane, calls, sealed, slips, faults>>

AssertOwned(s) ==
  /\ sealer[s].at \in {"owning", "releasing"}
  /\ CASE claim.by # s -> IF sealer[s].at = "owning" THEN Goto(s, "releasing") ELSE Leave(s)
       [] claim.by = s -> Goto(s, IF sealer[s].at = "owning" THEN "sealing" ELSE "unlinking")
  /\ UNCHANGED <<files, run, lane, calls, sealed, slips, faults>>

Unlink(s) ==
  /\ sealer[s].at = "unlinking"
  /\ claim' = NoClaim /\ Leave(s)
  /\ UNCHANGED <<marker, journal, intact, artifact, run, lane, calls, sealed, slips, faults>>

\* assertRecoveryFence, before every operation of the recovery.
FenceHolds(s) == intact /\ claim = [by |-> s, whole |-> TRUE] /\ journal.n = sealer[s].mem.n

Fence(s) ==
  /\ sealer[s].at = "sealing"
  /\ IF FenceHolds(s) THEN Goto(s, "appending") ELSE Leave(s)
  /\ UNCHANGED <<files, run, lane, calls, sealed, slips, faults>>

\* completeRecoveredEntries: an open pair, or the first untouched one while the breaker
\* is closed, gets its lanes reserved and aborted; the others are not started.
RecoversLane(m, a) ==
  LET p == NextPair(m)
      l == <<p, a>>
      open == \E b \in Agents : m.lane[<<p, b>>].reserved
  IN IF m.lane[l].reserved
     THEN [op |-> "terminal", lane |-> l, result |-> "aborted"]
     ELSE IF open \/ ~Breaker(m) THEN [op |-> "reserve", lane |-> l]
     ELSE [op |-> "notStarted", lane |-> l]

Missing(m) == {a \in Agents : m.lane[<<NextPair(m), a>>].result = "none"}

\* The recovery's next append, of what its own memory lacks.
NextRecord(s, m) ==
  IF m.claimer # s THEN [op |-> "recovery", by |-> s]
  ELSE IF m.mode # "none" THEN [op |-> "publishing"]
  ELSE IF m.guards < Guards THEN [op |-> "guard", clean |-> FALSE]
  ELSE IF m.pairs = Pairs THEN [op |-> "end", mode |-> "recovery"]
  ELSE IF Missing(m) = {} THEN [op |-> "pair"]
  ELSE RecoversLane(m, IF "tutor" \in Missing(m) THEN "tutor" ELSE "organizer")

SealAppends(s, e, then) ==
  \E outcome \in Outcomes :
    /\ Append(sealer[s].mem, e, outcome)
    /\ IF outcome = "ok"
       THEN Keep(s, After(sealer[s].mem, e), then)
       ELSE Leave(s)

Recover(s) ==
  /\ sealer[s].at = "appending"
  /\ LET e == NextRecord(s, sealer[s].mem) IN
     Fits(sealer[s].mem, e)
       /\ SealAppends(s, e, IF e.op = "publishing" THEN "linking" ELSE "sealing")
  /\ UNCHANGED <<marker, claim, artifact, run, lane, calls, sealed>>

SealLinks(s) ==
  /\ sealer[s].at = "linking"
  /\ \/ Link(sealer[s].mem) /\ Goto(s, "confirming") /\ UNCHANGED faults
     \/ Fault /\ Leave(s) /\ UNCHANGED artifact
  /\ UNCHANGED <<marker, journal, intact, claim, run, lane, calls, sealed, slips>>

SealConfirms(s) ==
  /\ sealer[s].at = "confirming"
  /\ SealAppends(s, [op |-> "published"], "validating")
  /\ UNCHANGED <<marker, claim, artifact, run, lane, calls, sealed>>

SealValidates(s) ==
  /\ sealer[s].at = "validating"
  /\ sealed' = (sealed \/ Valid) /\ Leave(s)
  /\ UNCHANGED <<files, run, lane, calls, slips, faults>>

SealerCrashes(s) ==
  /\ SealerAlive(s) /\ Fault /\ Leave(s)
  /\ UNCHANGED <<files, run, lane, calls, sealed, slips>>

-----------------------------------------------------------------------------
Init ==
  /\ marker = "absent" /\ journal = Blank /\ intact = TRUE
  /\ claim = NoClaim /\ artifact = NoArtifact
  /\ run = [at |-> "absent", mem |-> Blank, stopped |-> FALSE]
  /\ lane = [a \in Agents |-> Idle]
  /\ sealer = [s \in Sealers |-> [at |-> "idle", mem |-> Blank, since |-> MaxFaults + 1]]
  /\ calls = [l \in Lanes |-> 0]
  /\ sealed = FALSE /\ slips = {} /\ faults = 0

Seal(s) ==
  \/ Look(s) \/ Decide(s) \/ CreateClaim(s) \/ WriteClaim(s) \/ ReadClaim(s) \/ RenameClaim(s)
  \/ Reread(s) \/ AssertOwned(s) \/ Unlink(s) \/ Fence(s) \/ Recover(s)
  \/ SealLinks(s) \/ SealConfirms(s) \/ SealValidates(s) \/ SealerCrashes(s)

Next ==
  \/ CreateMarker \/ WriteMarker \/ CreateJournal \/ Guard \/ SkipLane
  \/ \E a \in Agents : ReserveLane(a) \/ Stage(a) \/ Call(a) \/ Settle(a) \/ CloseLane(a)
  \/ ClosePair \/ EndRun \/ StartPublication \/ LinkArtifact \/ Confirm \/ ValidateRun
  \/ Stop \/ Crash
  \/ \E s \in Sealers : Seal(s)

Spec == Init /\ [][Next]_vars

-----------------------------------------------------------------------------
Results == {"none", "succeeded", "failed", "aborted", "notStarted"}
LaneRecords == [reserved : BOOLEAN, stages : 0 .. LastStage, result : Results]
Replayed ==
  [n : Nat, guards : 0 .. Guards, clean : BOOLEAN, pairs : 0 .. Pairs,
   lane : [Lanes -> LaneRecords],
   claimer : Sealers \cup {Nobody}, mode : {"none", "runtime", "recovery"},
   publishing : BOOLEAN, published : BOOLEAN]

Runs ==
  [at : {"absent", "marking", "reserving", "running", "linking", "confirming", "validating",
         "over"},
   mem : Replayed, stopped : BOOLEAN]
LanesAtWork ==
  [Agents -> [at : {"idle", "active", "settled", "ended"}, called : BOOLEAN, outcome : Results]]
SealCommands ==
  [at : {"idle", "looked", "claiming", "contending", "replacing", "reclaiming", "writing",
         "claimed", "owning", "releasing", "unlinking", "sealing", "appending", "linking",
         "confirming", "validating", "over"},
   mem : Replayed, since : 0 .. MaxFaults + 1]

TypeOK ==
  /\ marker \in {"absent", "empty", "whole"} /\ journal \in Replayed /\ intact \in BOOLEAN
  /\ claim \in [by : Sealers \cup {Nobody}, whole : BOOLEAN]
  /\ artifact \in [mode : {"none", "runtime", "recovery"}, claimer : Sealers \cup {Nobody}]
  /\ run \in Runs /\ lane \in LanesAtWork /\ sealer \in [Sealers -> SealCommands]
  /\ calls \in [Lanes -> Nat] /\ sealed \in BOOLEAN
  /\ slips \subseteq {"append", "takeover"} /\ faults \in 0 .. MaxFaults

\* The evidence is true whenever it can be read, whoever wrote it and wherever it was
\* interrupted: every call was announced first, no lane is called twice or called once
\* the attempt is being sealed, a success called and a lane that was not started did
\* not, and nothing is called after a pair that did not succeed.
EvidenceIsTrue ==
  /\ \A l \in Lanes : calls[l] <= 1
  /\ intact =>
       /\ \A l \in Lanes :
            /\ calls[l] = 1 => journal.lane[l].stages >= DispatchStage
            /\ journal.lane[l].result = "succeeded" => calls[l] = 1
            /\ journal.lane[l].result \notin {"none", "succeeded"} =>
                 \A k \in Lanes : k[1] > l[1] => calls[k] = 0
       /\ journal.claimer # Nobody => ~RunAlive

\* What is written can be read again, unless an append failed and went on or a claim
\* was taken from a sealer at work or from the one that wrote into the journal.
JournalReadable == intact \/ slips # {}

JournalIsTrue == EvidenceIsTrue /\ JournalReadable

\* One seal command that nothing fails, run when the attempt is over and not yet being
\* published, leaves a valid bundle, whoever else tries meanwhile.
AtRest == ~RunAlive /\ \A s \in Sealers : ~SealerAlive(s)
SealingWins ==
  AtRest /\ (\E s \in Sealers : sealer[s].at = "over" /\ sealer[s].since = faults) =>
    Valid \/ "takeover" \in slips

\* A bundle found valid stays valid, but for the claim of one that came too late.
SealedStands ==
  sealed => Valid \/ "takeover" \in slips \/ (journal.claimer = Nobody /\ claim # NoClaim)

SealingIsSound == SealingWins /\ SealedStands
=============================================================================
