--------------------------- MODULE RunEventStream ---------------------------
(***************************************************************************)
(* The replayable event stream of one persisted run, GET                   *)
(* /workflow-runs/{run_id}/events of routes/resource_management.py: a      *)
(* polling reader in any worker, beside everything of WorkflowRuns.        *)
(***************************************************************************)
EXTENDS WorkflowRuns

CONSTANT Watched   \* the run the client follows

ASSUME WatchedAssumption == Watched \in Runs

VARIABLES
    cursor,   \* sequence of the last event sent
    reader    \* where the generator is: "off", "events", "status", "ended" or "gone"

readerVars == <<cursor, reader>>
streamVars == <<vars, readerVars>>

StreamInit ==
    /\ Init
    /\ cursor = 0
    /\ reader = "off"

(* What ?after= may ask for: nothing in particular, or events already seen. *)
Afters == -1 .. Len(log[Watched])

(* The request finds the run and clamps the parameter. *)
Open ==
    /\ reader = "off"
    /\ status[Watched] # "absent"
    /\ \E after \in Afters : cursor' = IF after < 0 THEN 0 ELSE after
    /\ reader' = "events"

(* events_after: every event past the cursor is sent. *)
ReadEvents ==
    /\ reader = "events"
    /\ cursor' = IF Len(log[Watched]) > cursor THEN Len(log[Watched]) ELSE cursor
    /\ reader' = "status"

(* A slip: a terminal status ends the stream, whatever has been sent. *)
ReadStatusOnly ==
    /\ reader = "status"
    /\ reader' = CASE status[Watched] = "absent"    -> "gone"
                   [] status[Watched] \in Terminal  -> "ended"
                   [] OTHER                         -> "events"
    /\ UNCHANGED cursor

(* A slip: the stream waits for an event past the last one. *)
ReadStatusPastEnd ==
    /\ reader = "status"
    /\ reader' = CASE status[Watched] = "absent" -> "gone"
                   [] /\ status[Watched] \in Terminal
                      /\ cursor > Len(log[Watched]) -> "ended"
                   [] OTHER -> "events"
    /\ UNCHANGED cursor

(* The row is read after the events: the stream ends when the status is     *)
(* terminal and the cursor has reached last_sequence.                       *)
ReadStatus ==
    /\ reader = "status"
    /\ reader' = CASE status[Watched] = "absent" -> "gone"
                   [] /\ status[Watched] \in Terminal
                      /\ cursor >= Len(log[Watched]) -> "ended"
                   [] OTHER -> "events"
    /\ UNCHANGED cursor

ReaderStep == ReadEvents \/ ReadStatus

StreamNext ==
    \/ Next /\ UNCHANGED readerVars
    \/ (Open \/ ReaderStep) /\ UNCHANGED vars

StreamSpec == StreamInit /\ [][StreamNext]_streamVars

(* The generator runs while its client listens. *)
StreamFairSpec ==
    /\ StreamInit /\ [][StreamNext]_streamVars
    /\ Fairness
    /\ WF_streamVars(ReaderStep /\ UNCHANGED vars)

-----------------------------------------------------------------------------
(* Properties *)

(* From the last touch of a row by a body that fails to the event that says *)
(* so three pauses may go by, and a fourth before it is logged.             *)
StreamPace == Pace /\ 4 * MaxPause <= RunStale

(* A stream that ended on a terminal status has sent every event the run    *)
(* will ever have (unless the run was purged since).  It relates two reads  *)
(* of the reader to the order in which the driver logs and writes, and to   *)
(* fail_stale, which may write a status no event precedes; it needs prompt  *)
(* workers and a database that answers (StreamPace).                        *)
EndedStreamIsComplete ==
    reader = "ended" => cursor >= Len(log[Watched])

(* Every stream ends, whatever becomes of the worker that drives the run.   *)
StreamEnds == reader = "events" ~> reader \in {"ended", "gone"}
=============================================================================
