----------------------------- MODULE Indication ------------------------------
(***************************************************************************)
(* IndicationService: one request per source, of which poll() shows the    *)
(* one of the highest source.  A request with a duration ends at a time of *)
(* a millisecond clock that wraps; how long each is still to be shown is   *)
(* counted besides, without the clock.  The indicator is external, and its *)
(* apply() may fail.                                                       *)
(***************************************************************************)
EXTENDS Integers, FiniteSetsExt

CONSTANTS
  SourceCount,        \* kIndicationSourceCount
  Frames,             \* the frames that are requested
  Off,                \* IndicationFrame{}
  Durations,          \* the durations of requests; 0 is for ever
  WrapTicks,          \* 2^32, in ticks
  MaxDelay,           \* longest time between two polls
  FailedApplyShows    \* an apply() that failed may have changed what is shown

ASSUME IndicationAssumption ==
  /\ SourceCount \in Nat /\ MaxDelay \in Nat \ {0} /\ WrapTicks \in Nat \ {0}
  /\ Durations \subseteq Nat
  /\ \A d \in Durations : 2 * (d + MaxDelay) < WrapTicks
  /\ "nothing" \notin Frames \cup {Off}
  /\ FailedApplyShows \in BOOLEAN

VARIABLES
  ticks,        \* the clock
  requests,     \* requests_
  applied,      \* applied_, or "nothing" before has_applied_
  shown,        \* what the indicator shows
  pollOk,       \* history: the last call was a poll() that returned ok
  left          \* history: ticks each source has to be shown, or Forever

indicationVars == <<ticks, requests, applied, shown, pollOk, left>>

IndicationSources == 0 .. SourceCount - 1
Forever == WrapTicks    \* longer than any duration

IndicationInit ==
  /\ ticks = 0
  /\ requests = [s \in IndicationSources |-> [active |-> FALSE, frame |-> Off, expiresAt |-> 0]]
  /\ applied = "nothing" /\ shown = Off
  /\ pollOk = FALSE /\ left = [s \in IndicationSources |-> 0]

\* request(); a source out of range is refused and changes nothing.
Request(s, frame, duration) ==
  LET deadline == IF duration = 0 THEN 0 ELSE (ticks + duration) % WrapTicks
  IN  /\ requests' = [requests EXCEPT ![s] =
                        [active |-> TRUE, frame |-> frame, expiresAt |-> deadline]]
      /\ left' = [left EXCEPT ![s] = IF deadline = 0 THEN Forever ELSE duration]
      /\ pollOk' = FALSE
      /\ UNCHANGED <<ticks, applied, shown>>

\* clear()
Clear(s) ==
  /\ requests' = [requests EXCEPT ![s].active = FALSE]
  /\ left' = [left EXCEPT ![s] = 0]
  /\ pollOk' = FALSE
  /\ UNCHANGED <<ticks, applied, shown>>

\* Mutant: the deadline is compared without its sign, so a request whose
\* deadline is still ahead is over.
ExpiredUnsigned(r) == r.active /\ r.expiresAt # 0 /\ ticks >= r.expiresAt

\* poll() finds that the time of a request is over.
Expired(r) ==
  r.active /\ r.expiresAt # 0 /\ 2 * ((ticks - r.expiresAt) % WrapTicks) < WrapTicks

\* The frame of the last source whose request is active.
Selected(rs) ==
  LET on == {s \in IndicationSources : rs[s].active}
  IN  IF on = {} THEN Off ELSE rs[Max(on)].frame

\* poll(): requests that are over are dropped, and a frame that differs from
\* the one applied last is applied.
PollIndication ==
  LET kept == [s \in IndicationSources |->
                 [requests[s] EXCEPT !.active = @ /\ ~Expired(requests[s])]]
      frame == Selected(kept)
  IN  /\ requests' = kept
      /\ \/ applied = frame /\ pollOk' = TRUE /\ UNCHANGED <<applied, shown>>
         \/ applied # frame /\ pollOk' = TRUE /\ applied' = frame /\ shown' = frame
         \/ /\ applied # frame /\ pollOk' = FALSE
            /\ shown' \in IF FailedApplyShows THEN {shown, frame} ELSE {shown}
            /\ UNCHANGED applied
      /\ UNCHANGED <<ticks, left>>

\* Time passes, and the loop polls within MaxDelay.
Pass ==
  /\ \A s \in IndicationSources :
       requests[s].active /\ requests[s].expiresAt # 0 => left[s] + MaxDelay > 0
  /\ ticks' = (ticks + 1) % WrapTicks
  /\ left' = [s \in IndicationSources |->
                IF left[s] = Forever \/ ~requests[s].active THEN left[s] ELSE left[s] - 1]
  /\ pollOk' = FALSE
  /\ UNCHANGED <<requests, applied, shown>>

IndicationNext ==
  \/ \E s \in IndicationSources :
       Clear(s) \/ \E f \in Frames, d \in Durations : Request(s, f, d)
  \/ PollIndication \/ Pass

IndicationSpec == IndicationInit /\ [][IndicationNext]_indicationVars

-----------------------------------------------------------------------------
\* Properties.

\* After a poll() that returned ok the indicator shows the request of the
\* highest source that is still to be shown, and nothing when there is none: a
\* request is neither cut short nor shown too long when the clock wraps or an
\* apply() failed in between.  A deadline that falls on 0 of the clock is taken
\* for "for ever" by the code, and is counted as such here.
ShowsHighest ==
  pollOk =>
    LET live == {s \in IndicationSources : left[s] > 0}
    IN  shown = IF live = {} THEN Off ELSE requests[Max(live)].frame
==============================================================================
