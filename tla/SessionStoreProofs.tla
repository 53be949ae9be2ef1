------------------------- MODULE SessionStoreProofs -------------------------
(***************************************************************************)
(* Proofs about SessionStore, for any number of sessions, messages, starts *)
(* and crashes: what was saved is not lost, finished turns are on disk     *)
(* between saves, and a record of a graceful exit tells the truth.         *)
(***************************************************************************)
EXTENDS SessionStore, SequenceTheorems, TLAPS

\* Where a save ends, or the record of a start is due, the file holds what
\* memory has; between saves it holds what follows the finished turns, too.
FileInv ==
    /\ pc = "cleanup" => file[cur] = Saved(base)
    /\ pc = "record" /\ after = "repl" => file[cur] = Saved(base)
    /\ pc = "offline" \/ (pc = "record" /\ after \in {"offline", "graceful"})
         => Loadable(file[cur]) /\ file[cur].msgs = base
    /\ pc \in {"idle", "turn"} => file[cur].end = "line" /\ IsPrefix(base, file[cur].msgs)
    /\ pc = "turn" => /\ session # <<>> /\ file[cur].msgs # <<>>
                      /\ Last(session) = Last(file[cur].msgs)

\* What was saved of a session is in its file, unless that was renamed away
\* and never came back; then nothing touches the log it has become.
SavedInv ==
    \A s \in Sessions :
      \/ IsPrefix(saved[s], file[s].msgs)
      \/ file[s] = Absent /\ logs[s] # <<>> /\ IsPrefix(saved[s], Last(logs[s]))

\* The program has told, or tried to tell, the record that it runs.
Announced ==
    \/ pc \in {"idle", "turn", "offline"}
    \/ pc \in {"rotate", "write", "cleanup"} /\ after # "repl"
    \/ pc = "record" /\ after = "graceful"

RecordInv ==
    /\ record.state \in {"active", "graceful"} => record.session \in Sessions
    /\ Announced /\ record.state = "graceful" => missed
    /\ pc \in {"rotate", "write", "cleanup", "record"} /\ after = "repl"
         => (record.state = "graceful" /\ ~missed => record.session # cur)

LogsInv ==
    pc \in {"idle", "turn"} \/ (pc = "record" /\ after = "repl")
        => Len(logs[cur]) <= MaxRotated

IInv ==
    /\ TypeOK /\ FileInv /\ SavedInv /\ RecordInv /\ LogsInv
    /\ GracefulExitIsClean

-----------------------------------------------------------------------------
(* Transcripts.                                                            *)

LEMMA PrefixPointwise ==
    ASSUME NEW s \in Transcript, NEW t \in Transcript
    PROVE  IsPrefix(s, t) <=> Len(s) <= Len(t) /\ \A i \in 1..Len(s) : s[i] = t[i]
BY DEF IsPrefix, Transcript

LEMMA PrefixReflexive ==
    ASSUME NEW s \in Transcript
    PROVE  IsPrefix(s, s)
BY DEF IsPrefix, Transcript

LEMMA EmptyPrefix ==
    ASSUME NEW s \in Transcript
    PROVE  IsPrefix(<<>>, s)
<1>1. <<>> \in Transcript /\ Len(<<>>) = 0
  BY DEF Transcript
<1>2. Len(s) \in Nat /\ 1..0 = {}
  BY DEF Transcript
<1>3. IsPrefix(<<>>, s) <=>
        Len(<<>>) <= Len(s) /\ \A i \in 1..Len(<<>>) : <<>>[i] = s[i]
  BY <1>1, PrefixPointwise
<1> QED
  BY <1>1, <1>2, <1>3

\* A message appended to a transcript leaves what it begins with.
LEMMA PrefixAppend ==
    ASSUME NEW s \in Transcript, NEW t \in Transcript, NEW m \in Nat, IsPrefix(s, t)
    PROVE  IsPrefix(s, Append(t, m))
<1>1. Append(t, m) \in Transcript /\ Len(Append(t, m)) = Len(t) + 1
  BY DEF Transcript
<1>2. \A i \in 1..Len(t) : Append(t, m)[i] = t[i]
  BY DEF Transcript
<1>3. Len(s) \in Nat /\ Len(t) \in Nat
  BY DEF Transcript
<1>4. Len(s) <= Len(t) /\ \A i \in 1..Len(s) : s[i] = t[i]
  BY PrefixPointwise
<1>5. \A i \in 1..Len(s) : s[i] = Append(t, m)[i]
  BY <1>2, <1>3, <1>4
<1>6. IsPrefix(s, Append(t, m)) <=>
        Len(s) <= Len(Append(t, m)) /\ \A i \in 1..Len(s) : s[i] = Append(t, m)[i]
  BY <1>1, PrefixPointwise
<1> QED
  BY <1>1, <1>3, <1>4, <1>5, <1>6

LEMMA AppendLast ==
    ASSUME NEW t \in Transcript, NEW m \in Nat
    PROVE  Append(t, m) \in Transcript /\ Append(t, m) # <<>> /\ Last(Append(t, m)) = m
BY DEF Transcript, Last

\* Compaction keeps the newest message.
LEMMA CompactKeepsLast ==
    ASSUME NEW s \in Transcript
    PROVE  /\ Compact(s) \in Transcript
           /\ s # <<>> => Compact(s) # <<>> /\ Last(Compact(s)) = Last(s)
<1>1. CASE Len(s) <= PreserveRecent
  BY <1>1 DEF Compact
<1>2. CASE Len(s) > PreserveRecent
  <2> DEFINE n == Len(s)
             r == SubSeq(s, n - PreserveRecent + 1, n)
  <2>1. n \in Nat /\ PreserveRecent \in Nat \ {0} /\ n > PreserveRecent
    BY <1>2, SizesAssumption DEF Transcript
  <2>2. \A i \in (n - PreserveRecent + 1)..n : s[i] \in Nat
    BY <2>1 DEF Transcript
  <2>3. /\ r \in Seq(Nat) /\ Len(r) = PreserveRecent
        /\ \A i \in 1..PreserveRecent : r[i] = s[n - PreserveRecent + i]
    BY <2>1, <2>2, SubSeqProperties
  <2>4. r[PreserveRecent] = s[n]
    BY <2>1, <2>3
  <2> DEFINE h == <<Summary>>
  <2>5. h \in Seq(Nat) /\ Len(h) = 1
    BY DEF Summary
  <2> HIDE DEF r, h
  <2>6. /\ h \o r \in Seq(Nat) /\ Len(h \o r) = 1 + PreserveRecent
        /\ (h \o r)[1 + PreserveRecent] = r[PreserveRecent]
    <3>1. /\ h \o r \in Seq(Nat) /\ Len(h \o r) = Len(h) + Len(r)
          /\ \A i \in 1..(Len(h) + Len(r)) :
                (h \o r)[i] = IF i <= Len(h) THEN h[i] ELSE r[i - Len(h)]
      BY <2>3, <2>5, ConcatProperties
    <3>2. 1 + PreserveRecent \in 1..(Len(h) + Len(r))
      BY <2>1, <2>3, <2>5
    <3>3. ~(1 + PreserveRecent <= Len(h)) /\ (1 + PreserveRecent) - Len(h) = PreserveRecent
      BY <2>1, <2>5
    <3> QED
      BY <2>3, <2>5, <3>1, <3>2, <3>3
  <2>7. h \o r # <<>>
    BY <2>6, <2>1
  <2>8. Compact(s) = h \o r
    BY <1>2, <2>1 DEF Compact, h, r
  <2>9. Last(h \o r) = (h \o r)[1 + PreserveRecent]
    BY <2>6 DEF Last
  <2>10. Last(s) = s[n]
    BY DEF Last
  <2> QED
    BY <2>4, <2>6, <2>7, <2>8, <2>9, <2>10 DEF Transcript
<1> QED
  BY <1>1, <1>2, SizesAssumption DEF Transcript

-----------------------------------------------------------------------------
(* Steps.                                                                  *)

USE DEF Absent, Saved, Loadable

LEMMA EmptyTranscript == <<>> \in Transcript
BY DEF Transcript

LEMMA InitInv == Init => IInv
<1> SUFFICES ASSUME Init PROVE IInv
  OBVIOUS
<1>1. TypeOK
  <2>1. Absent \in Files /\ <<>> \in Seq(Transcript)
    BY EmptyTranscript DEF Files
  <2>2. record \in Records
    BY DEF Init, Records
  <2>3. /\ file \in [Sessions -> Files] /\ logs \in [Sessions -> Seq(Transcript)]
        /\ saved \in [Sessions -> Transcript]
    BY <2>1, EmptyTranscript DEF Init
  <2>4. pc = "down" <=> cur = Nobody
    BY DEF Init
  <2>5. /\ pc \in {"down", "idle", "turn", "offline", "rotate", "write", "cleanup", "record"}
        /\ after \in {"idle", "repl", "offline", "graceful"}
        /\ cur \in Sessions \cup {Nobody}
    BY DEF Init
  <2>6. next \in Nat \ {0} /\ runs \in Nat
    BY DEF Init
  <2>7. missed \in BOOLEAN
    BY DEF Init
  <2>8. base \in Transcript /\ session \in Transcript /\ ended \in Transcript
    BY EmptyTranscript DEF Init
  <2> QED
    BY <2>2, <2>3, <2>4, <2>5, <2>6, <2>7, <2>8 DEF TypeOK
<1>2. SavedInv
  BY EmptyTranscript, PrefixReflexive DEF Init, SavedInv
<1>3. FileInv /\ RecordInv /\ LogsInv /\ GracefulExitIsClean
  BY DEF Init, FileInv, RecordInv, Announced, LogsInv, GracefulExitIsClean
<1> QED
  BY <1>1, <1>2, <1>3 DEF IInv

\* The disk and the record are as they were.
LEMMA DiskKept ==
    ASSUME IInv, UNCHANGED <<disk, exit>>
    PROVE  SavedInv' /\ GracefulExitIsClean'
BY DEF IInv, SavedInv, GracefulExitIsClean, disk, exit

\* What memory is once the program is down.
LEMMA DownInv ==
    ASSUME IInv, Down, file' \in [Sessions -> Files], UNCHANGED <<logs, saved>>,
           record' \in Records, ended' \in Transcript, missed' \in BOOLEAN,
           record'.state \in {"active", "graceful"} => record'.session \in Sessions
    PROVE  TypeOK' /\ FileInv' /\ RecordInv' /\ LogsInv'
BY EmptyTranscript DEF IInv, TypeOK, Down, FileInv, RecordInv, Announced, LogsInv

\* A save begins, after the start was announced.
LEMMA SaveBegins ==
    ASSUME IInv, Announced, NEW s \in Sessions, NEW t \in Transcript,
           NEW then \in {"idle", "offline", "graceful"},
           Save(s, t, then), UNCHANGED <<disk, exit>>,
           next' = next, runs' = runs
    PROVE  IInv'
<1>1. TypeOK'
  BY SessionsAssumption DEF IInv, TypeOK, Save, disk, exit
<1>2. FileInv' /\ LogsInv'
  BY DEF Save, FileInv, LogsInv
<1>3. RecordInv'
  BY DEF IInv, RecordInv, Announced, Save, exit
<1> QED
  BY <1>1, <1>2, <1>3, DiskKept DEF IInv

LEMMA RotateInv == IInv /\ Rotate => IInv'
<1> SUFFICES ASSUME IInv, Rotate PROVE IInv'
  OBVIOUS
<1>0. cur \in Sessions /\ file[cur] \in Files /\ file[cur].msgs \in Transcript
  BY SessionsAssumption DEF IInv, TypeOK, Rotate, Files
<1>1. TypeOK'
  <2>1. CASE Len(file[cur].msgs) >= RotateAt
    <3>1. Append(logs[cur], file[cur].msgs) \in Seq(Transcript)
      BY <1>0 DEF IInv, TypeOK
    <3>2. Absent \in Files
      BY EmptyTranscript DEF Files
    <3> QED
      BY <2>1, <3>1, <3>2 DEF IInv, TypeOK, Rotate, mem, exit
  <2>2. CASE ~(Len(file[cur].msgs) >= RotateAt)
    BY <2>2 DEF IInv, TypeOK, Rotate, mem, exit
  <2> QED
    BY <2>1, <2>2
<1>2. FileInv' /\ LogsInv'
  BY DEF Rotate, FileInv, LogsInv
<1>3. SavedInv'
  <2>1. CASE Len(file[cur].msgs) >= RotateAt
    <3>1. file[cur] # Absent
      <4>1. Len(<<>>) = 0
        OBVIOUS
      <4> QED
        BY <2>1, <4>1, SizesAssumption
    <3>2. IsPrefix(saved[cur], file[cur].msgs)
      BY <1>0, <3>1 DEF IInv, SavedInv
    <3>3. /\ logs'[cur] = Append(logs[cur], file[cur].msgs)
          /\ logs[cur] \in Seq(Transcript) /\ file'[cur] = Absent /\ saved' = saved
      BY <1>0, <2>1 DEF IInv, TypeOK, Rotate
    <3>4. logs'[cur] # <<>> /\ Last(logs'[cur]) = file[cur].msgs
      BY <1>0, <3>3 DEF Last
    <3>5. \A s \in Sessions \ {cur} : file'[s] = file[s] /\ logs'[s] = logs[s]
      BY <2>1 DEF IInv, TypeOK, Rotate
    <3> QED
      BY <3>2, <3>3, <3>4, <3>5 DEF IInv, SavedInv
  <2>2. CASE ~(Len(file[cur].msgs) >= RotateAt)
    BY <2>2 DEF IInv, SavedInv, Rotate
  <2> QED
    BY <2>1, <2>2
<1>4. RecordInv'
  BY DEF IInv, RecordInv, Announced, Rotate, mem, exit
<1>5. GracefulExitIsClean'
  <2> SUFFICES ASSUME record'.state = "graceful", ~missed'
               PROVE  Loadable(file[record.session])' /\ (file[record.session].msgs = ended)'
    BY DEF GracefulExitIsClean
  <2>1. record.state = "graceful" /\ ~missed
    BY DEF Rotate, exit
  <2>2. record.session \in Sessions /\ record.session # cur
    BY <2>1 DEF IInv, RecordInv, Announced, Rotate
  <2>3. file'[record.session] = file[record.session]
    BY <2>2 DEF IInv, TypeOK, Rotate
  <2> QED
    BY <2>1, <2>3 DEF IInv, GracefulExitIsClean, Rotate, exit
<1> QED
  BY <1>1, <1>2, <1>3, <1>4, <1>5 DEF IInv

LEMMA WriteInv == IInv /\ Write => IInv'
<1> SUFFICES ASSUME IInv, Write PROVE IInv'
  OBVIOUS
<1>0. cur \in Sessions /\ base \in Transcript /\ Saved(base) \in Files
  BY SessionsAssumption DEF IInv, TypeOK, Write, Files
<1>1. TypeOK'
  BY <1>0 DEF IInv, TypeOK, Write, mem, exit
<1>2. FileInv' /\ LogsInv'
  BY <1>0 DEF IInv, TypeOK, Write, FileInv, LogsInv, mem
<1>3. SavedInv'
  <2>1. file'[cur].msgs = base /\ saved'[cur] = base /\ logs' = logs
    BY <1>0 DEF IInv, TypeOK, Write
  <2>2. \A s \in Sessions \ {cur} : file'[s] = file[s] /\ saved'[s] = saved[s]
    BY DEF IInv, TypeOK, Write
  <2> QED
    BY <1>0, <2>1, <2>2, PrefixReflexive DEF IInv, SavedInv
<1>4. RecordInv'
  BY DEF IInv, RecordInv, Announced, Write, mem, exit
<1>5. GracefulExitIsClean'
  <2> SUFFICES ASSUME record'.state = "graceful", ~missed'
               PROVE  Loadable(file[record.session])' /\ (file[record.session].msgs = ended)'
    BY DEF GracefulExitIsClean
  <2>1. record.state = "graceful" /\ ~missed
    BY DEF Write, exit
  <2>2. record.session \in Sessions /\ record.session # cur
    BY <2>1 DEF IInv, RecordInv, Announced, Write
  <2>3. file'[record.session] = file[record.session]
    BY <2>2 DEF IInv, TypeOK, Write
  <2> QED
    BY <2>1, <2>3 DEF IInv, GracefulExitIsClean, Write, exit
<1> QED
  BY <1>1, <1>2, <1>3, <1>4, <1>5 DEF IInv

LEMMA CleanupInv == IInv /\ Cleanup => IInv'
<1> SUFFICES ASSUME IInv, Cleanup PROVE IInv'
  OBVIOUS
<1> DEFINE l == logs[cur]
           kept == IF Len(l) <= MaxRotated THEN l
                   ELSE SubSeq(l, Len(l) - MaxRotated + 1, Len(l))
<1>0. cur \in Sessions /\ l \in Seq(Transcript)
  BY SessionsAssumption DEF IInv, TypeOK, Cleanup
<1>1. kept \in Seq(Transcript) /\ Len(kept) <= MaxRotated
  <2>1. CASE Len(l) <= MaxRotated
    BY <1>0, <2>1
  <2>2. CASE ~(Len(l) <= MaxRotated)
    <3>1. /\ Len(l) \in Nat /\ MaxRotated \in Nat \ {0} /\ Len(l) > MaxRotated
          /\ \A i \in (Len(l) - MaxRotated + 1)..Len(l) : l[i] \in Transcript
      BY <1>0, <2>2, SizesAssumption
    <3>2. /\ SubSeq(l, Len(l) - MaxRotated + 1, Len(l)) \in Seq(Transcript)
          /\ Len(SubSeq(l, Len(l) - MaxRotated + 1, Len(l))) = MaxRotated
      <4> HIDE DEF l
      <4> QED
        BY <3>1, SubSeqProperties
    <3> QED
      BY <2>2, <3>1, <3>2
  <2> QED
    BY <2>1, <2>2
<1>2. logs' = [logs EXCEPT ![cur] = kept] /\ pc = "cleanup"
  BY DEF Cleanup
<1> HIDE DEF kept, l
<1>3. logs'[cur] = kept /\ \A s \in Sessions \ {cur} : logs'[s] = logs[s]
  BY <1>0, <1>2 DEF IInv, TypeOK
<1>4. TypeOK'
  BY <1>0, <1>1, <1>2 DEF IInv, TypeOK, Cleanup, mem, exit
<1>5. FileInv'
  <2>1. file' = file /\ cur' = cur /\ base' = base /\ file[cur] = Saved(base)
    BY <1>2 DEF IInv, FileInv, Cleanup, mem
  <2>2. pc' # "turn" /\ pc' # "cleanup"
    BY DEF Cleanup
  <2> QED
    BY <2>1, <2>2, PrefixReflexive DEF FileInv, IInv, TypeOK
<1>6. LogsInv'
  BY <1>1, <1>3 DEF LogsInv, Cleanup, mem
<1>7. SavedInv'
  <2>1. file' = file /\ saved' = saved /\ file[cur] = Saved(base)
    BY <1>2 DEF IInv, FileInv, Cleanup, mem
  <2> QED
    BY <1>3, <2>1 DEF IInv, SavedInv
<1>8. RecordInv'
  BY DEF IInv, TypeOK, RecordInv, Announced, Cleanup, mem, exit
<1>9. GracefulExitIsClean'
  BY DEF IInv, GracefulExitIsClean, Cleanup, exit
<1> QED
  BY <1>4, <1>5, <1>6, <1>7, <1>8, <1>9 DEF IInv

-----------------------------------------------------------------------------
(* The record.                                                             *)

LEMMA RecordedType ==
    ASSUME IInv, NEW state \in {"active", "graceful"}, cur \in Sessions, Recorded(state)
    PROVE  /\ record' \in Records
           /\ record'.state \in {"active", "graceful"} => record'.session \in Sessions
BY DEF IInv, TypeOK, RecordInv, Recorded, Unreadable, Records

LEMMA RecordActiveInv == IInv /\ RecordActive => IInv'
<1> SUFFICES ASSUME IInv, RecordActive PROVE IInv'
  OBVIOUS
<1>0. cur \in Sessions
  BY SessionsAssumption DEF IInv, TypeOK, RecordActive
<1>1. /\ record' \in Records
      /\ record'.state \in {"active", "graceful"} => record'.session \in Sessions
  BY <1>0, RecordedType DEF RecordActive
<1>2. TypeOK'
  BY <1>1 DEF IInv, TypeOK, RecordActive, disk, mem
<1>3. FileInv'
  BY PrefixReflexive DEF IInv, TypeOK, FileInv, RecordActive, disk, mem
<1>4. SavedInv'
  BY DEF IInv, SavedInv, RecordActive, disk
<1>5. record'.state = "graceful" => record' = record /\ missed'
  <2>1. record'.state = "graceful" => record' = record
    BY DEF RecordActive, Recorded, Unreadable
  <2>2. missed' = (record.state = "graceful" /\ record' = record)
    BY DEF RecordActive
  <2> QED
    BY <2>1, <2>2
<1>6. RecordInv' /\ GracefulExitIsClean'
  BY <1>1, <1>5 DEF RecordInv, GracefulExitIsClean, RecordActive
<1>7. LogsInv'
  BY DEF IInv, LogsInv, RecordActive, disk, mem
<1> QED
  BY <1>2, <1>3, <1>4, <1>6, <1>7 DEF IInv

LEMMA RecordGracefulInv == IInv /\ RecordGraceful => IInv'
<1> SUFFICES ASSUME IInv, RecordGraceful PROVE IInv'
  OBVIOUS
<1>0. cur \in Sessions
  BY SessionsAssumption DEF IInv, TypeOK, RecordGraceful
<1>1. /\ record' \in Records
      /\ record'.state \in {"active", "graceful"} => record'.session \in Sessions
  BY <1>0, RecordedType DEF RecordGraceful
<1>2. TypeOK' /\ FileInv' /\ RecordInv' /\ LogsInv'
  BY <1>1, DownInv DEF IInv, TypeOK, RecordGraceful, disk
<1>3. SavedInv'
  BY DEF IInv, SavedInv, RecordGraceful, disk
<1>4. GracefulExitIsClean'
  <2>1. Loadable(file[cur]) /\ file[cur].msgs = base
    BY DEF IInv, FileInv, RecordGraceful
  <2>2. record.state = "graceful" => missed
    BY DEF IInv, RecordInv, Announced, RecordGraceful
  <2>3. CASE record' = record
    BY <2>2, <2>3 DEF GracefulExitIsClean, RecordGraceful
  <2>4. CASE record' # record
    BY <2>1, <2>4 DEF GracefulExitIsClean, RecordGraceful, Recorded, Unreadable, disk
  <2> QED
    BY <2>3, <2>4
<1> QED
  BY <1>2, <1>3, <1>4 DEF IInv

LEMMA CrashInv == IInv /\ Crash => IInv'
<1> SUFFICES ASSUME IInv, Crash PROVE IInv'
  OBVIOUS
<1>1. /\ record' \in Records
      /\ record'.state \in {"active", "graceful"} => record'.session \in Sessions
  BY DEF IInv, TypeOK, RecordInv, Crash, Unreadable, Records
<1>2. TypeOK' /\ FileInv' /\ RecordInv' /\ LogsInv'
  BY <1>1, DownInv DEF IInv, TypeOK, Crash, disk
<1>3. SavedInv'
  BY DEF IInv, SavedInv, Crash, disk
<1>4. GracefulExitIsClean'
  BY DEF IInv, GracefulExitIsClean, Crash, Unreadable, disk
<1> QED
  BY <1>2, <1>3, <1>4 DEF IInv

-----------------------------------------------------------------------------
(* Turns.                                                                  *)

\* While the program runs turns, what is recorded of an earlier end counts
\* for nothing, and the file of the running session is there.
LEMMA InTurns ==
    ASSUME IInv, pc \in {"idle", "turn"}
    PROVE  /\ cur \in Sessions /\ file[cur] \in Files /\ file[cur].end = "line"
           /\ file[cur].msgs \in Transcript /\ saved[cur] \in Transcript
           /\ IsPrefix(saved[cur], file[cur].msgs)
           /\ IsPrefix(base, file[cur].msgs)
           /\ Announced /\ (record.state = "graceful" => missed)
           /\ Len(logs[cur]) <= MaxRotated
<1>1. cur \in Sessions /\ file[cur] \in Files /\ saved[cur] \in Transcript
  BY SessionsAssumption DEF IInv, TypeOK
<1>2. file[cur].end = "line" /\ IsPrefix(base, file[cur].msgs)
  BY DEF IInv, FileInv
<1>3. file[cur] # Absent
  BY <1>2
<1>4. IsPrefix(saved[cur], file[cur].msgs)
  BY <1>1, <1>3 DEF IInv, SavedInv
<1>5. Announced /\ (record.state = "graceful" => missed) /\ Len(logs[cur]) <= MaxRotated
  BY DEF IInv, RecordInv, Announced, LogsInv
<1>6. file[cur].msgs \in Transcript
  BY <1>1 DEF Files
<1> QED
  BY <1>1, <1>2, <1>4, <1>5, <1>6

LEMMA PushInv == IInv /\ Push => IInv'
<1> SUFFICES ASSUME IInv, Push PROVE IInv'
  OBVIOUS
<1> DEFINE t == Append(file[cur].msgs, next)
<1>0. /\ cur \in Sessions /\ file[cur].end = "line" /\ file[cur].msgs \in Transcript
      /\ next \in Nat /\ session \in Transcript /\ base \in Transcript
      /\ saved[cur] \in Transcript
  BY InTurns DEF Push, IInv, TypeOK
<1>1. t \in Transcript /\ t # <<>> /\ Last(t) = next
  BY <1>0, AppendLast
<1>2. session' \in Transcript /\ session' # <<>> /\ Last(session') = next
  BY <1>0, AppendLast DEF Push
<1>3. IsPrefix(base, t) /\ IsPrefix(saved[cur], t)
  BY <1>0, InTurns, PrefixAppend DEF Push
<1>4. file' = [file EXCEPT ![cur] = [msgs |-> t, end |-> "line"]]
  BY <1>0 DEF Push, Appended
<1> HIDE DEF t
<1>5. TypeOK'
  <2>1. [msgs |-> t, end |-> "line"] \in Files
    BY <1>1 DEF Files
  <2> QED
    BY <1>0, <1>2, <1>4, <2>1, SessionsAssumption DEF IInv, TypeOK, Push, exit
<1>6. /\ file'[cur] = [msgs |-> t, end |-> "line"]
      /\ \A s \in Sessions \ {cur} : file'[s] = file[s]
  BY <1>0, <1>4 DEF IInv, TypeOK
<1>7. FileInv'
  BY <1>1, <1>2, <1>3, <1>6 DEF FileInv, Push
<1>8. SavedInv'
  BY <1>3, <1>6 DEF IInv, SavedInv, Push
<1>9. RecordInv' /\ GracefulExitIsClean'
  BY InTurns DEF IInv, RecordInv, GracefulExitIsClean, Push, exit
<1>10. LogsInv'
  BY InTurns DEF LogsInv, Push
<1> QED
  BY <1>5, <1>7, <1>8, <1>9, <1>10 DEF IInv

LEMMA BrokenAppendInv == IInv /\ BrokenAppend => IInv'
<1> SUFFICES ASSUME IInv, BrokenAppend PROVE IInv'
  OBVIOUS
<1>0. /\ cur \in Sessions /\ file[cur] \in Files /\ file[cur].msgs \in Transcript
      /\ next \in Nat /\ saved[cur] \in Transcript
      /\ IsPrefix(saved[cur], file[cur].msgs)
  BY InTurns DEF BrokenAppend, IInv, TypeOK
<1>1. PICK f \in {[file[cur] EXCEPT !.end = "torn"],
                  [Appended(file[cur], next) EXCEPT !.end = "open"]} :
             file' = [file EXCEPT ![cur] = f]
  BY DEF BrokenAppend
<1>2. f \in Files /\ IsPrefix(saved[cur], f.msgs)
  <2>1. CASE f = [file[cur] EXCEPT !.end = "torn"]
    BY <1>0, <2>1 DEF Files
  <2>2. CASE f = [Appended(file[cur], next) EXCEPT !.end = "open"]
    <3>1. f = [msgs |-> Append(file[cur].msgs, next), end |-> "open"]
      BY <2>2 DEF Appended
    <3> QED
      BY <1>0, <3>1, AppendLast, PrefixAppend DEF Files
  <2> QED
    BY <1>1, <2>1, <2>2
<1>3. file' \in [Sessions -> Files] /\ file'[cur] = f
      /\ \A s \in Sessions \ {cur} : file'[s] = file[s]
  BY <1>0, <1>1, <1>2 DEF IInv, TypeOK
<1>4. TypeOK' /\ FileInv' /\ RecordInv' /\ LogsInv'
  BY <1>3, DownInv DEF IInv, TypeOK, RecordInv, BrokenAppend, exit
<1>5. SavedInv'
  BY <1>2, <1>3 DEF IInv, SavedInv, BrokenAppend
<1>6. GracefulExitIsClean'
  BY InTurns DEF GracefulExitIsClean, BrokenAppend, exit
<1> QED
  BY <1>4, <1>5, <1>6 DEF IInv

LEMMA CompactFirstInv == IInv /\ CompactFirst => IInv'
<1> SUFFICES ASSUME IInv, CompactFirst PROVE IInv'
  OBVIOUS
<1>1. session \in Transcript /\ session # <<>>
  BY DEF IInv, TypeOK, FileInv, CompactFirst
<1>2. session' \in Transcript /\ session' # <<>> /\ Last(session') = Last(session)
  BY <1>1, CompactKeepsLast DEF CompactFirst
<1>3. TypeOK'
  BY <1>2 DEF IInv, TypeOK, CompactFirst, exit
<1>4. FileInv'
  BY <1>2 DEF IInv, FileInv, CompactFirst
<1>5. SavedInv' /\ GracefulExitIsClean'
  BY DEF IInv, SavedInv, GracefulExitIsClean, CompactFirst, exit
<1>6. RecordInv' /\ LogsInv'
  BY DEF IInv, RecordInv, Announced, LogsInv, CompactFirst, exit
<1> QED
  BY <1>3, <1>4, <1>5, <1>6 DEF IInv

LEMMA TurnCancelledInv == IInv /\ TurnCancelled => IInv'
<1> SUFFICES ASSUME IInv, TurnCancelled PROVE IInv'
  OBVIOUS
<1>1. TypeOK'
  BY DEF IInv, TypeOK, TurnCancelled, disk, exit
<1>2. FileInv' /\ LogsInv'
  BY InTurns DEF FileInv, LogsInv, TurnCancelled, disk
<1>3. SavedInv' /\ GracefulExitIsClean'
  BY DiskKept DEF TurnCancelled
<1>4. RecordInv'
  BY DEF IInv, RecordInv, Announced, TurnCancelled, exit
<1> QED
  BY <1>1, <1>2, <1>3, <1>4 DEF IInv

-----------------------------------------------------------------------------
(* The program and its commands.                                           *)

LEMMA TranscriptTypes ==
    ASSUME IInv
    PROVE  /\ base \in Transcript /\ session \in Transcript
           /\ Compact(base) \in Transcript /\ Compact(session) \in Transcript
           /\ \A s \in Sessions : file[s].msgs \in Transcript
           /\ pc # "down" => cur \in Sessions
BY CompactKeepsLast DEF IInv, TypeOK, Files

LEMMA TurnCompletesInv == IInv /\ TurnCompletes => IInv'
BY TranscriptTypes, SaveBegins DEF TurnCompletes, Announced

LEMMA ResumeInv == IInv /\ Resume => IInv'
BY TranscriptTypes, SaveBegins DEF Resume, Announced

LEMMA BranchInv == IInv /\ Branch => IInv'
BY TranscriptTypes, EmptyTranscript, SaveBegins DEF Branch, Announced

LEMMA CompactCommandInv == IInv /\ CompactCommand => IInv'
BY TranscriptTypes, SaveBegins DEF CompactCommand, Announced

LEMMA ExitInv == IInv /\ Exit => IInv'
BY TranscriptTypes, SaveBegins DEF Exit, Announced

LEMMA OfflineCommandInv == IInv /\ OfflineCommand => IInv'
BY TranscriptTypes, EmptyTranscript, SaveBegins DEF OfflineCommand, Announced

LEMMA StartInv == IInv /\ Start => IInv'
<1> SUFFICES ASSUME IInv, Start PROVE IInv'
  OBVIOUS
<1>1. PICK s \in Sessions : Fresh(s) /\ Save(s, <<>>, "repl")
  BY DEF Start
<1>2. TypeOK'
  BY <1>1, EmptyTranscript, SessionsAssumption DEF IInv, TypeOK, Start, Save, disk, exit
<1>3. FileInv' /\ LogsInv'
  BY <1>1 DEF Save, FileInv, LogsInv
<1>4. SavedInv' /\ GracefulExitIsClean'
  BY DiskKept DEF Start
<1>5. record.state = "graceful" /\ ~missed => record.session # s
  BY <1>1 DEF IInv, GracefulExitIsClean, Fresh
<1>6. RecordInv'
  BY <1>1, <1>5 DEF IInv, RecordInv, Announced, Start, Save, exit
<1> QED
  BY <1>2, <1>3, <1>4, <1>6 DEF IInv

LEMMA ResumeOfflineInv == IInv /\ ResumeOffline => IInv'
<1> SUFFICES ASSUME IInv, ResumeOffline PROVE IInv'
  OBVIOUS
<1>1. PICK s \in Sessions :
         /\ Loadable(file[s])
         /\ cur' = s /\ base' = file[s].msgs /\ session' = base'
  BY DEF ResumeOffline
<1>2. TypeOK'
  BY <1>1, TranscriptTypes, SessionsAssumption
     DEF IInv, TypeOK, ResumeOffline, disk, exit
<1>3. FileInv' /\ LogsInv'
  BY <1>1 DEF FileInv, LogsInv, ResumeOffline, disk
<1>4. SavedInv' /\ GracefulExitIsClean'
  BY DiskKept DEF ResumeOffline
<1>5. RecordInv'
  BY DEF IInv, RecordInv, Announced, ResumeOffline, exit
<1> QED
  BY <1>2, <1>3, <1>4, <1>5 DEF IInv

LEMMA OfflineEndsInv == IInv /\ OfflineEnds => IInv'
<1> SUFFICES ASSUME IInv, OfflineEnds PROVE IInv'
  OBVIOUS
<1>1. TypeOK'
  BY DEF IInv, TypeOK, OfflineEnds, disk, exit, mem
<1>2. FileInv' /\ LogsInv'
  BY DEF IInv, FileInv, LogsInv, OfflineEnds, disk, mem
<1>3. SavedInv' /\ GracefulExitIsClean'
  BY DiskKept DEF OfflineEnds
<1>4. RecordInv'
  BY DEF IInv, RecordInv, Announced, OfflineEnds, exit
<1> QED
  BY <1>1, <1>2, <1>3, <1>4 DEF IInv

LEMMA StutterInv == IInv /\ UNCHANGED vars => IInv'
<1> SUFFICES ASSUME IInv, UNCHANGED vars PROVE IInv'
  OBVIOUS
<1>1. TypeOK'
  BY DEF IInv, TypeOK, vars
<1>2. FileInv' /\ SavedInv' /\ RecordInv' /\ LogsInv' /\ GracefulExitIsClean'
  BY DEF IInv, FileInv, SavedInv, RecordInv, Announced, LogsInv, GracefulExitIsClean, vars
<1> QED
  BY <1>1, <1>2 DEF IInv

THEOREM Invariance == Spec => []IInv
<1>1. IInv /\ [Next]_vars => IInv'
  BY RotateInv, WriteInv, CleanupInv, RecordActiveInv, RecordGracefulInv, PushInv,
     BrokenAppendInv, CompactFirstInv, TurnCompletesInv, TurnCancelledInv, StartInv,
     ResumeInv, BranchInv, CompactCommandInv, ExitInv, ResumeOfflineInv,
     OfflineCommandInv, OfflineEndsInv, CrashInv, StutterInv DEF Next
<1> QED
  BY InitInv, <1>1, PTL DEF Spec

-----------------------------------------------------------------------------

\* Every variable keeps its type, whatever the sizes of files and logs.
THEOREM TypeCorrect == Spec => []TypeOK
<1>1. IInv => TypeOK
  BY DEF IInv
<1> QED
  BY <1>1, Invariance, PTL

\* Between saves the file of the running session holds every finished turn.
THEOREM FinishedTurnsOnDisk == Spec => []CompletedTurnsOnDisk
<1>1. IInv => CompletedTurnsOnDisk
  BY DEF IInv, FileInv, CompletedTurnsOnDisk
<1> QED
  BY <1>1, Invariance, PTL

\* What was last saved of a session is in its file or its newest rotated log.
THEOREM SavedIsKept == Spec => []NothingSavedIsLost
<1>1. IInv => NothingSavedIsLost
  BY DEF IInv, SavedInv, NothingSavedIsLost
<1> QED
  BY <1>1, Invariance, PTL

\* A record of a graceful exit names a file with what that run ended with.
THEOREM GracefulExits == Spec => []GracefulExitIsClean
<1>1. IInv => GracefulExitIsClean
  BY DEF IInv
<1> QED
  BY <1>1, Invariance, PTL

\* Between saves no more rotated logs are kept than the code declares.
THEOREM LogsStayBounded == Spec => []RotatedLogsBounded
<1>1. IInv => RotatedLogsBounded
  BY DEF IInv, LogsInv, RotatedLogsBounded
<1> QED
  BY <1>1, Invariance, PTL
=============================================================================
