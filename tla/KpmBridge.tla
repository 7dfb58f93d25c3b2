------------------------------ MODULE KpmBridge ------------------------------
(***************************************************************************)
(* The E2 bridge (e2/kpm_bridge.py): KPM reports, as FlexRIC's JSON or as  *)
(* decoded E2SM-KPM indications, become telemetry events with a derived    *)
(* risk, which e2_to_pipeline feeds to the planner one by one.             *)
(*                                                                         *)
(* Measurements are in per cent of their reference; a collection time is   *)
(* two words of base WordBase, which FlexRIC sends low word first.         *)
(***************************************************************************)
EXTENDS Integers, Sequences, FiniteSets, SequencesExt

CONSTANTS KpmReported,   \* the metrics that vary
          KpmValues,     \* their values, NaN included
          HighWords,     \* high words of the collection times that occur
          WordBase,      \* 2^32
          WindowLow, WindowEnd,  \* plausible times are in WindowLow..WindowEnd-1
          CalendarEnd,   \* the first time datetime cannot represent
          MaxKpmEvents

ASSUME KpmAssumption ==
  /\ {WordBase, WindowLow, CalendarEnd, WindowEnd, MaxKpmEvents} \subseteq Nat
  /\ WindowLow < CalendarEnd /\ CalendarEnd <= WindowEnd
  /\ KpmValues \subseteq Int /\ HighWords \subseteq Nat
  /\ \A hi \in HighWords :
       WindowLow <= hi * WordBase /\ (hi + 1) * WordBase <= CalendarEnd

NaN == 9999
Absent == -1
RiskFloor == 5

\* The mapped metrics, in the order the contributions are made.
KpmMetrics == <<"RRU.PrbTotDl", "DRB.RlcSduDelayDl", "DRB.UEThpDl",
                "DRB.PdcpSduVolumeDL", "DRB.RlcSduTransmittedVolumeDL">>

ASSUME KpmReportedAssumption == KpmReported \subseteq ToSet(KpmMetrics)

-----------------------------------------------------------------------------
(* Risk.                                                                   *)

\* _clamp01: a NaN stays one.
Clamp01(v) == IF v = NaN THEN NaN ELSE IF v < 0 THEN 0 ELSE IF v > 100 THEN 100 ELSE v

\* _risk_contributions: throughput counts by what is missing, the rest by use.
Contribution(metric, v) ==
  IF metric = "DRB.UEThpDl" /\ v # NaN THEN Clamp01(100 - v) ELSE Clamp01(v)

\* The contributions of a report, in order.
RiskContributions(report) ==
  FoldLeft(LAMBDA out, metric :
             IF report[metric] = Absent THEN out
             ELSE Append(out, Contribution(metric, report[metric])),
           <<>>, KpmMetrics)

\* max() compares with what it has, and no comparison with a NaN holds.
Worse(best, c) == IF best # NaN /\ c # NaN /\ c > best THEN c ELSE best

\* derive_sla_risk: the largest contribution, the first one standing until a
\* greater one comes.
DeriveSlaRisk(contributions) ==
  IF contributions = <<>> THEN RiskFloor
  ELSE FoldLeft(Worse, Head(contributions), Tail(contributions))

\* What the planner makes of it: a risk that is not finite is the floor.
PlannedRisk(risk) == IF risk = NaN THEN RiskFloor ELSE risk

-----------------------------------------------------------------------------
(* Times.                                                                  *)

NoTime == -1

Plausible(us) == us \in WindowLow..(WindowEnd - 1)

\* _decode_timestamp: big-endian first, then low word first; the first reading
\* within the window is taken, if the calendar has it.
DecodeTimestamp(first, second) ==
  LET straight == first * WordBase + second
      swapped == second * WordBase + first
      us == IF Plausible(straight) THEN straight ELSE swapped
  IN  IF Plausible(us) /\ us < CalendarEnd THEN us ELSE NoTime

\* A header: its words as sent, and the time they stand for.
Headers ==
  {[first |-> IF flex THEN lo ELSE hi, second |-> IF flex THEN hi ELSE lo,
    time |-> hi * WordBase + lo, flex |-> flex] :
     hi \in HighWords, lo \in 0..(WordBase - 1), flex \in BOOLEAN}

\* The straight reading of a header in FlexRIC's layout is plausible too.
Ambiguous(h) == h.flex /\ Plausible(h.first * WordBase + h.second)

-----------------------------------------------------------------------------
VARIABLES kpSeq,      \* _sequence
          kpEvents,   \* events, with the report and header they come from
          kpFed,      \* events handed to the pipeline
          kpFailed    \* the pipeline raised

kpVars == <<kpSeq, kpEvents, kpFed, kpFailed>>

KpInit == kpSeq = 0 /\ kpEvents = <<>> /\ kpFed = 0 /\ kpFailed = FALSE

\* One report: per metric a value or none.
Reports == {[metric \in ToSet(KpmMetrics) |->
               IF metric \in KpmReported THEN f[metric] ELSE Absent] :
              f \in [KpmReported -> KpmValues \cup {Absent}]}

NoHeader == [first |-> 0, second |-> 0, time |-> NoTime, flex |-> FALSE]

\* _build_event
BuildEvent(seq, report, header) ==
  [sequence |-> seq, report |-> report, header |-> header,
   risk |-> DeriveSlaRisk(RiskContributions(report)),
   ts |-> IF header = NoHeader THEN NoTime
          ELSE DecodeTimestamp(header.first, header.second)]

\* from_flexric_kpm_json: a record without measurements, or with one that is no
\* number, is refused and leaves no trace; JSON carries NaN.
FromFlexricJson(report) ==
  /\ Len(kpEvents) < MaxKpmEvents
  /\ \E metric \in KpmReported : report[metric] # Absent
  /\ kpSeq' = kpSeq + 1
  /\ kpEvents' = Append(kpEvents, BuildEvent(kpSeq', report, NoHeader))
  /\ UNCHANGED <<kpFed, kpFailed>>

\* _format1_measurements: the last row counts, values missing in it are skipped;
\* a format 2 message names no metric, so nothing in it is mapped.
LatestRow(rows, format) ==
  IF format = 2 \/ rows = <<>>
  THEN [metric \in ToSet(KpmMetrics) |-> Absent] ELSE Last(rows)

\* from_e2sm_kpm_indication: formats 1 and 2 make one event, format 3 one per UE;
\* a message or header that does not decode is refused.
FromIndication(reports, header, format) ==
  /\ Len(kpEvents) + Len(reports) <= MaxKpmEvents
  /\ kpSeq' = kpSeq + Len(reports)
  /\ kpEvents' = kpEvents \o
       [i \in DOMAIN reports |->
          BuildEvent(kpSeq + i, LatestRow(reports[i], format), header)]
  /\ UNCHANGED <<kpFed, kpFailed>>

\* e2_to_pipeline: one event after the other; what the pipeline raises ends it.
FeedPipeline(raises) ==
  /\ ~kpFailed /\ kpFed < Len(kpEvents)
  /\ kpFed' = kpFed + 1
  /\ kpFailed' = raises
  /\ UNCHANGED <<kpSeq, kpEvents>>

\* Reports of the messages enumerated: one metric busy, and one quiet row before.
Busy == [metric \in ToSet(KpmMetrics) |-> IF metric = "RRU.PrbTotDl" THEN 90 ELSE Absent]
Quiet == [Busy EXCEPT !["RRU.PrbTotDl"] = 1]

KpNext ==
  \/ \E report \in Reports : FromFlexricJson(report)
  \/ \E header \in Headers \cup {NoHeader} : FromIndication(<<<<Quiet, Busy>>>>, header, 1)
  \/ FromIndication(<<<<Busy>>>>, NoHeader, 2)
  \/ FromIndication(<<<<Busy>>, <<Quiet>>>>, NoHeader, 3)
  \/ \E raises \in BOOLEAN : FeedPipeline(raises)

KpSpec == KpInit /\ [][KpNext]_kpVars

KpTypeOK ==
  /\ kpSeq \in Nat /\ Len(kpEvents) <= MaxKpmEvents /\ kpFed <= Len(kpEvents)
  /\ kpFailed \in BOOLEAN

-----------------------------------------------------------------------------
\* The planner sees the worst signal of a report, whatever the order and the
\* values of its metrics, unless the first of them is not a number (which hides
\* the others).  An event whose report came with a collection time carries that
\* time; except that FlexRIC's word order is misread when the straight reading
\* happens to be plausible.  And events are numbered without gaps,
\* through refused reports and messages with several UEs.
EventsFaithful ==
  \A i \in DOMAIN kpEvents :
    LET e == kpEvents[i]
        cs == RiskContributions(e.report)
    IN  /\ e.sequence = i /\ kpSeq = Len(kpEvents)
        /\ cs # <<>> /\ Head(cs) # NaN =>
             /\ e.risk \in ToSet(cs)
             /\ \A j \in DOMAIN cs : cs[j] # NaN => PlannedRisk(e.risk) >= cs[j]
        /\ e.header # NoHeader /\ ~Ambiguous(e.header) =>
             e.ts = e.header.time
=============================================================================
