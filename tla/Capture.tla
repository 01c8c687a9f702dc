------------------------------- MODULE Capture -------------------------------
(***************************************************************************)
(* Recording and instant replay on the session page (capture/capture.mjs,  *)
(* player/player.mjs).  The page makes one recording controller and uses   *)
(* it for every recording, and a replay controller for every stream.  A    *)
(* controller's buffer is filled by whichever of its recorders has data.   *)
(***************************************************************************)
EXTENDS Integers, Sequences, SequencesExt, FiniteSets

CONSTANTS MaxChunks,     \* of the replay: its length in seconds, and one
          MaxStreams,    \* bound: streams of the session
          MaxRecorders   \* bound: media recorders

ASSUME CaptureAssumption == MaxChunks \in Nat

VARIABLES stream,     \* the page's stream, 0 before the first
          recorders,  \* [stream, use, live] of each media recorder
          rec,        \* the recording controller: state, its stream, its recorder, its chunks
          replay,     \* the replay controller the page has, if any
          saving,     \* recordings between the end of stop() and that of saving
          shown,      \* the record button says that a recording is on
          saved,      \* the recordings that were saved, each [recorder, chunks]
          ended,      \* the session was ended
          overlapped  \* the button was pressed before the recording before was saved, or a
                      \* stream ended under a recording
captureVars == <<stream, recorders, rec, replay, saving, shown, saved, ended, overlapped>>

NoReplay == [state |-> "none", recorder |-> 0, count |-> 0, made |-> 0]

CaptureInit ==
  /\ stream = 0 /\ recorders = <<>> /\ saving = {} /\ saved = {}
  /\ rec = [state |-> "idle", stream |-> 0, recorder |-> 0, chunks |-> <<>>]
  /\ replay = NoReplay
  /\ shown = FALSE /\ ended = FALSE /\ overlapped = FALSE

Live(use) == {r \in DOMAIN recorders : recorders[r].use = use /\ recorders[r].live}
Dead(rs, r) == IF r = 0 THEN rs ELSE [rs EXCEPT ![r].live = FALSE]
-----------------------------------------------------------------------------
\* Mutant: the replay of the stream before goes on.
Stopped_Forgets(rs) == rs

\* instantReplay?.stop()
Stopped(rs) == Dead(rs, IF replay.state = "recording" THEN replay.recorder ELSE 0)

\* The runtime has a stream; the preferences ask for a replay of it, or they do not, or the
\* browser cannot record it.
StreamArrives ==
  /\ ~ended /\ stream < MaxStreams /\ stream' = stream + 1 /\ Len(recorders) < MaxRecorders
  /\ \/ recorders' = Stopped(recorders) /\ replay' = NoReplay
     \/ /\ recorders' = Append(Stopped(recorders), [use |-> "replay", stream |-> stream', live |-> TRUE])
        /\ replay' = [state |-> "recording", recorder |-> Len(recorders) + 1, count |-> 0, made |-> 0]
  /\ UNCHANGED <<rec, saving, shown, saved, ended, overlapped>>

\* Mutant: the oldest second is dropped one second too late.
Kept_Late(n) == IF n > MaxChunks + 1 THEN MaxChunks + 1 ELSE n

Kept(n) == IF n > MaxChunks THEN MaxChunks ELSE n

\* A second of the replay; `made' is left alone when it no longer matters.
ReplayData ==
  /\ replay.state = "recording" /\ recorders[replay.recorder].live
  /\ replay' = [replay EXCEPT !.count = Kept(@ + 1), !.made = IF @ > MaxChunks THEN @ ELSE @ + 1]
  /\ UNCHANGED <<stream, recorders, rec, saving, shown, saved, ended, overlapped>>

ReplayFails ==
  /\ replay.state = "recording"
  /\ recorders' = Dead(recorders, replay.recorder)
  /\ replay' = [replay EXCEPT !.state = "error"]
  /\ UNCHANGED <<stream, rec, saving, shown, saved, ended, overlapped>>

\* Mutant: what the recording before left is kept.
Cleared_Keeps(chunks) == chunks

Cleared(chunks) == <<>>

\* toggleRecording() when nothing is being recorded.  The controller keeps the stream it was made
\* with; when that one has ended, the start throws and the controller believes that it records.
StartRecording(fails) ==
  /\ stream # 0 /\ rec.state # "recording" /\ Len(recorders) < MaxRecorders
  /\ fails => rec.stream \notin {0, stream}
  /\ LET of == IF rec.stream = 0 THEN stream ELSE rec.stream
     IN  /\ recorders' = Append(recorders, [use |-> "recording", stream |-> of, live |-> ~fails])
         /\ rec' = [state |-> "recording", stream |-> of, recorder |-> Len(recorders) + 1,
                    chunks |-> Cleared(rec.chunks)]
  /\ shown' = (shown \/ ~fails)
  /\ overlapped' = (overlapped \/ rec.state = "stopping" \/ saving # {})
  /\ UNCHANGED <<stream, replay, saving, saved, ended>>

\* toggleRecording() when something is: stop() waits for the recorder's stop event.
StopRecording ==
  /\ rec.state = "recording"
  /\ rec' = [rec EXCEPT !.state = "stopping"]
  /\ UNCHANGED <<stream, recorders, replay, saving, shown, saved, ended, overlapped>>

\* The data of a recorder that ends go to the controller's buffer, and its stop event, or the
\* error, finds the handlers of the stop() that waits.
RecorderEnds(failed) ==
  /\ rec.state = "stopping" /\ recorders[rec.recorder].live
  /\ recorders' = Dead(recorders, rec.recorder)
  /\ IF failed THEN rec' = [rec EXCEPT !.state = "error"] /\ UNCHANGED saving
     ELSE LET all == Append(rec.chunks, rec.recorder)
          IN  /\ rec' = [rec EXCEPT !.state = "stopped", !.chunks = all]
              /\ saving' = saving \union {[recorder |-> rec.recorder, chunks |-> all]}
  /\ UNCHANGED <<stream, replay, shown, saved, ended, overlapped>>

\* The recorder of a recording that was stopped when another was begun already.
OldRecorderEnds(r) ==
  /\ r \in Live("recording") /\ r # rec.recorder
  /\ recorders' = Dead(recorders, r)
  /\ LET all == Append(rec.chunks, r)
     IN  /\ rec' = [rec EXCEPT !.state = "stopped", !.chunks = all]
         /\ saving' = saving \union {[recorder |-> r, chunks |-> all]}
  /\ UNCHANGED <<stream, replay, shown, saved, ended, overlapped>>

\* A recording fails, or its stream ends, before the button is pressed: the data come, and
\* nobody has asked for the stop event.
RecorderLost(failed) ==
  /\ rec.state = "recording" /\ recorders[rec.recorder].live
  /\ recorders' = Dead(recorders, rec.recorder)
  /\ rec' = IF failed THEN [rec EXCEPT !.state = "error"]
            ELSE [rec EXCEPT !.chunks = Append(@, rec.recorder)]
  /\ overlapped' = (overlapped \/ ~failed)
  /\ UNCHANGED <<stream, replay, saving, shown, saved, ended>>

\* saveCaptureBlob(): the file is written, or the user refuses.
Save(clip, refused) ==
  /\ clip \in saving /\ saving' = saving \ {clip}
  /\ IF refused THEN UNCHANGED <<saved, shown>>
     ELSE saved' = saved \union {clip} /\ shown' = FALSE
  /\ UNCHANGED <<stream, recorders, rec, replay, ended, overlapped>>

\* The end button: the replay is stopped, a recording is not.
EndSession ==
  /\ ~ended /\ ended' = TRUE
  /\ recorders' = Stopped(recorders) /\ replay' = NoReplay
  /\ UNCHANGED <<stream, rec, saving, shown, saved, overlapped>>

CaptureNext ==
  \/ StreamArrives \/ ReplayData \/ ReplayFails \/ StopRecording
  \/ EndSession
  \/ \E b \in BOOLEAN :
       StartRecording(b) \/ RecorderEnds(b) \/ RecorderLost(b) \/ \E clip \in saving : Save(clip, b)
  \/ \E r \in DOMAIN recorders : OldRecorderEnds(r)

CaptureSpec == CaptureInit /\ [][CaptureNext]_captureVars
-----------------------------------------------------------------------------
\* The replay is of the present stream and of its last seconds, no recorder of another stream is
\* left on, and none is when the session was ended.
ReplayIsOfStream ==
  /\ \A r \in Live("replay") : ~ended /\ r = replay.recorder /\ recorders[r].stream = stream
  /\ replay.count <= MaxChunks
  /\ replay.made <= MaxChunks => replay.count = replay.made

\* Recordings that follow one another are saved whole and apart, and while one goes on the
\* button says so.
RecordingsAreWhole ==
  ~overlapped =>
    /\ \A clip \in saved : clip.chunks = <<clip.recorder>>
    /\ Live("recording") # {} => shown
=============================================================================
