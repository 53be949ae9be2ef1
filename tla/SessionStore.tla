---------------------------- MODULE SessionStore ----------------------------
(***************************************************************************)
(* Where sessions live on disk (runtime/src/session.rs), what the REPL     *)
(* does to them (rusty-claude-cli/src/main.rs) and the recovery record     *)
(* beside them (runtime/src/recovery.rs), with the process dying at any    *)
(* step.  A turn appends each of its messages to the session's file as it  *)
(* goes; a turn that completes, /exit and most commands rewrite the file.  *)
(*                                                                         *)
(* A message is a number.  An I/O error inside a save or an append reaches *)
(* run_repl as an error other than a cancellation and ends the program, so *)
(* it leaves the disk as a crash at that step does: Crash and BrokenAppend *)
(* stand for both.                                                         *)
(***************************************************************************)
EXTENDS Naturals, Sequences, SequencesExt

CONSTANTS Sessions,       \* session ids, each the name of a file
          Nobody,         \* no session
          RotateAt,       \* ROTATE_AFTER_BYTES, in messages
          MaxRotated,     \* MAX_ROTATED_FILES
          PreserveRecent, \* CompactionConfig::preserve_recent_messages
          MaxMessages,    \* bound: messages ever pushed
          MaxRuns         \* bound: times the program is started

ASSUME SessionsAssumption == Nobody \notin Sessions
ASSUME SizesAssumption ==
    /\ RotateAt \in Nat \ {0} /\ MaxRotated \in Nat \ {0}
    /\ PreserveRecent \in Nat \ {0} /\ MaxMessages \in Nat /\ MaxRuns \in Nat

VARIABLES file,      \* the sessions' files
          logs,      \* their rotated logs, oldest first
          record,    \* exit-state.json
          pc,        \* where the program is; "down" when it does not run
          after,     \* what a save is followed by
          cur,       \* LiveCli's session handle
          base,      \* the transcript of finished turns
          session,   \* the running turn's transcript
          next,      \* next message
          runs,      \* times the program was started
          saved,     \* what was last saved of each session (history)
          ended,     \* the transcript at the last graceful end (history)
          missed     \* a start since then could not be recorded (history)

vars == <<file, logs, record, pc, after, cur, base, session, next, runs, saved,
          ended, missed>>
disk == <<file, logs, saved>>
exit == <<record, ended, missed>>
mem  == <<cur, base, session, next, runs>>

Summary    == 0
Transcript == Seq(Nat)

\* The last record of a file may lack its newline, or be incomplete.
Absent == [msgs |-> <<>>, end |-> "absent"]
Saved(s) == [msgs |-> s, end |-> "line"]
Files  == [msgs : Transcript, end : {"absent", "line", "open", "torn"}]

\* load_from_path refuses a file that is missing or has a record it cannot parse.
Loadable(f) == f.end \in {"line", "open"}

Records == [session : Sessions \cup {Nobody},
            state : {"none", "active", "graceful", "unreadable"}]

TypeOK ==
    /\ file \in [Sessions -> Files]
    /\ logs \in [Sessions -> Seq(Transcript)]
    /\ record \in Records
    /\ pc \in {"down", "idle", "turn", "offline",
              "rotate", "write", "cleanup", "record"}
    /\ after \in {"idle", "repl", "offline", "graceful"}
    /\ cur \in Sessions \cup {Nobody}
    /\ pc = "down" <=> cur = Nobody
    /\ base \in Transcript /\ session \in Transcript
    /\ next \in Nat \ {0} /\ runs \in Nat
    /\ saved \in [Sessions -> Transcript]
    /\ ended \in Transcript /\ missed \in BOOLEAN

Init ==
    /\ file = [s \in Sessions |-> Absent] /\ logs = [s \in Sessions |-> <<>>]
    /\ record = [session |-> Nobody, state |-> "none"]
    /\ pc = "down" /\ after = "idle" /\ cur = Nobody
    /\ base = <<>> /\ session = <<>> /\ next = 1 /\ runs = 0
    /\ saved = [s \in Sessions |-> <<>>] /\ ended = <<>> /\ missed = FALSE

-----------------------------------------------------------------------------
(* save_to_path, in three steps; base is what it saves.                    *)

\* The save of a transcript t begins, as session s.
Save(s, t, then) ==
    /\ cur' = s /\ base' = t /\ session' = t
    /\ pc' = "rotate" /\ after' = then

\* Mutant: a file that has grown too large is removed, not renamed.
RotateDiscards ==
    /\ pc = "rotate"
    /\ IF Len(file[cur].msgs) >= RotateAt
       THEN file' = [file EXCEPT ![cur] = Absent]
       ELSE UNCHANGED file
    /\ pc' = "write"
    /\ UNCHANGED <<logs, saved, exit, after, mem>>

Rotate ==
    /\ pc = "rotate"
    /\ IF Len(file[cur].msgs) >= RotateAt
       THEN /\ logs' = [logs EXCEPT ![cur] = Append(@, file[cur].msgs)]
            /\ file' = [file EXCEPT ![cur] = Absent]
       ELSE UNCHANGED <<file, logs>>
    /\ pc' = "write"
    /\ UNCHANGED <<saved, exit, after, mem>>

\* write_atomic: the snapshot appears under the file's name at once.
Write ==
    /\ pc = "write"
    /\ file' = [file EXCEPT ![cur] = Saved(base)]
    /\ saved' = [saved EXCEPT ![cur] = base]
    /\ pc' = "cleanup"
    /\ UNCHANGED <<logs, exit, after, mem>>

\* cleanup_rotated_logs removes the oldest.
Cleanup ==
    /\ pc = "cleanup"
    /\ logs' = [logs EXCEPT ![cur] =
                  IF Len(@) <= MaxRotated THEN @
                  ELSE SubSeq(@, Len(@) - MaxRotated + 1, Len(@))]
    /\ pc' = IF after \in {"idle", "offline"} THEN after ELSE "record"
    /\ after' = IF after = "offline" THEN "idle" ELSE after
    /\ UNCHANGED <<file, saved, exit, mem>>

-----------------------------------------------------------------------------
(* persist_recovery_state: a failure is reported and ignored; the record   *)
(* is left as it was, or truncated.                                        *)

Unreadable == [session |-> Nobody, state |-> "unreadable"]

Recorded(state) ==
    record' \in {[session |-> cur, state |-> state], Unreadable, record}

RecordActive ==
    /\ pc = "record" /\ after \in {"repl", "offline"}
    /\ Recorded("active")
    /\ missed' = (record.state = "graceful" /\ record' = record)
    /\ pc' = (IF after = "repl" THEN "idle" ELSE "offline") /\ after' = "idle"
    /\ UNCHANGED <<disk, ended, mem>>

\* The program ends, and its memory with it.
Down ==
    /\ pc' = "down" /\ after' = "idle"
    /\ cur' = Nobody /\ base' = <<>> /\ session' = <<>>
    /\ UNCHANGED <<next, runs>>

RecordGraceful ==
    /\ pc = "record" /\ after = "graceful"
    /\ Recorded("graceful")
    /\ ended' = IF record' = record THEN ended ELSE base
    /\ Down
    /\ UNCHANGED <<disk, missed>>

-----------------------------------------------------------------------------
(* Turns.                                                                  *)

\* append_persisted_message: the new record follows what the file holds, and
\* runs into its last record if that one has no newline.
Appended(f, m) ==
    [msgs |-> Append(f.msgs, m), end |-> IF f.end = "line" THEN "line" ELSE "torn"]

\* Session::push_message, for the user's input or a later message of the turn.
Push ==
    /\ pc \in {"idle", "turn"}
    /\ next <= MaxMessages
    /\ session' = Append(session, next)
    /\ file' = [file EXCEPT ![cur] = Appended(@, next)]
    /\ next' = next + 1
    /\ pc' = "turn"
    /\ UNCHANGED <<logs, saved, exit, after, cur, base, runs>>

\* The append stops half way: nothing, part of the record, or all of it but
\* the newline is in the file.
BrokenAppend ==
    /\ pc \in {"idle", "turn"}
    /\ next <= MaxMessages
    /\ \E f \in {[file[cur] EXCEPT !.end = "torn"],
                 [Appended(file[cur], next) EXCEPT !.end = "open"]} :
         file' = [file EXCEPT ![cur] = f]
    /\ Down
    /\ UNCHANGED <<logs, saved, exit>>

Compact(s) ==
    IF Len(s) <= PreserveRecent THEN s
    ELSE <<Summary>> \o SubSeq(s, Len(s) - PreserveRecent + 1, Len(s))

\* The compaction before the first request of a turn.
CompactFirst ==
    /\ pc = "turn" /\ Len(session) = Len(base) + 1
    /\ Compact(session) # session
    /\ session' = Compact(session)
    /\ UNCHANGED <<file, logs, saved, exit, pc, after, cur, base, next, runs>>

\* Mutant: what the turn appended is taken for saved.
TurnCompletesUnsaved ==
    /\ pc = "turn"
    /\ \/ base' = session
       \/ base' = Compact(session)
    /\ session' = base' /\ pc' = "idle"
    /\ UNCHANGED <<disk, exit, after, cur, next, runs>>

TurnCompletes ==
    /\ pc = "turn"
    /\ \/ Save(cur, session, "idle")
       \/ Save(cur, Compact(session), "idle")
    /\ UNCHANGED <<disk, exit, next, runs>>

\* A cancelled turn is dropped from memory only.
TurnCancelled ==
    /\ pc = "turn"
    /\ session' = base /\ pc' = "idle"
    /\ UNCHANGED <<disk, exit, after, cur, base, next, runs>>

-----------------------------------------------------------------------------
(* The program and its commands.                                           *)

Fresh(s) == file[s] = Absent /\ logs[s] = <<>> /\ s # cur

\* LiveCli::new.
Start ==
    /\ pc = "down" /\ runs < MaxRuns
    /\ \E s \in Sessions : Fresh(s) /\ Save(s, <<>>, "repl")
    /\ runs' = runs + 1
    /\ UNCHANGED <<disk, exit, next>>

\* sego --resume s: commands run on the session outside a REPL.
ResumeOffline ==
    /\ pc = "down" /\ runs < MaxRuns
    /\ \E s \in Sessions :
         /\ Loadable(file[s])
         /\ cur' = s /\ base' = file[s].msgs /\ session' = base'
    /\ pc' = "record" /\ after' = "offline"
    /\ runs' = runs + 1
    /\ UNCHANGED <<disk, exit, next>>

\* Its /compact and /clear --confirm; the other commands save nothing.
OfflineCommand ==
    /\ pc = "offline"
    /\ \E t \in {Compact(base), <<>>} : Save(cur, t, "offline")
    /\ UNCHANGED <<disk, exit, next, runs>>

\* All its commands succeeded, or it had none.
OfflineEnds ==
    /\ pc = "offline"
    /\ pc' = "record" /\ after' = "graceful"
    /\ UNCHANGED <<disk, exit, mem>>

\* /resume s and /session switch s.
Resume ==
    /\ pc = "idle"
    /\ \E s \in Sessions :
         Loadable(file[s]) /\ Save(s, file[s].msgs, "idle")
    /\ UNCHANGED <<disk, exit, next, runs>>

\* /clear and /session fork: a new file, with nothing or a copy in it.
Branch ==
    /\ pc = "idle"
    /\ \E s \in Sessions, t \in {<<>>, base} : Fresh(s) /\ Save(s, t, "idle")
    /\ UNCHANGED <<disk, exit, next, runs>>

\* /compact, which saves also a transcript that is too short in tokens to be compacted.
CompactCommand ==
    /\ pc = "idle"
    /\ \E t \in {base, Compact(base)} : Save(cur, t, "idle")
    /\ UNCHANGED <<disk, exit, next, runs>>

\* Mutant: leaving the REPL does not save.
ExitUnsaved ==
    /\ pc = "idle"
    /\ pc' = "record" /\ after' = "graceful"
    /\ UNCHANGED <<disk, exit, mem>>

Exit ==
    /\ pc = "idle"
    /\ Save(cur, base, "graceful")
    /\ UNCHANGED <<disk, exit, next, runs>>

\* The program dies; if it was writing the record, that may be truncated.
Crash ==
    /\ pc # "down"
    /\ Down
    /\ \/ UNCHANGED record
       \/ pc = "record" /\ record' = Unreadable
    /\ UNCHANGED <<disk, ended, missed>>

Next ==
    \/ Rotate \/ Write \/ Cleanup
    \/ RecordActive \/ RecordGraceful
    \/ Push \/ BrokenAppend \/ CompactFirst \/ TurnCompletes \/ TurnCancelled
    \/ Start \/ Resume \/ Branch \/ CompactCommand \/ Exit
    \/ ResumeOffline \/ OfflineCommand \/ OfflineEnds
    \/ Crash

Spec == Init /\ [][Next]_vars

-----------------------------------------------------------------------------
(* Properties.                                                             *)

\* Between saves the file of the running session can be loaded and holds, in
\* order, every finished turn, whatever cancelled turns left behind it, and
\* the running turn's newest message last.
CompletedTurnsOnDisk ==
    pc \in {"idle", "turn"} =>
      /\ file[cur].end = "line"
      /\ IsPrefix(base, file[cur].msgs)
      /\ pc = "turn" => Last(session) = Last(file[cur].msgs)

\* At every moment, and wherever the program dies, what was last saved of a
\* session is in its file or in its newest rotated log.
NothingSavedIsLost ==
    \A s \in Sessions :
      \/ saved[s] = <<>>
      \/ IsPrefix(saved[s], file[s].msgs)
      \/ logs[s] # <<>> /\ IsPrefix(saved[s], Last(logs[s]))

\* A recovery record that says the last run ended well names a file that can
\* be loaded and holds exactly the transcript that run ended with, nothing of
\* a turn it cancelled; only a later start that could not be recorded, its
\* error ignored, makes such a record stale.
GracefulExitIsClean ==
    record.state = "graceful" /\ ~missed =>
      /\ Loadable(file[record.session])
      /\ file[record.session].msgs = ended

\* Between saves a session has no more rotated logs than the code declares,
\* also after crashes that left some behind.
RotatedLogsBounded ==
    pc \in {"idle", "turn"} => Len(logs[cur]) <= MaxRotated

-----------------------------------------------------------------------------
(* Statements of the documentation.                                        *)

\* README.md: session state "survives crashes": when the program is gone
\* without a graceful exit, the session the recovery record names loads.
SessionSurvivesCrash ==
    pc = "down" /\ record.state = "active" => Loadable(file[record.session])
=============================================================================
