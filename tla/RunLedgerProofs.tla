-------------------------- MODULE RunLedgerProofs --------------------------
(***************************************************************************)
(* Proofs about RunLedger, for any number of programs, processes and runs: *)
(* whatever overtakes whatever, and wherever a program dies, the ledger    *)
(* never calls a running process stopped.                                  *)
(***************************************************************************)
EXTENDS RunLedger, TLAPS

LedgerCalls ==
    [what : {"none", "start", "goal", "complete", "track", "untrack"},
     child : Children \cup {Nobody},
     at : {"load", "truncate", "write", "prompt"},
     copy : Entries \cup {Absent},
     stale : BOOLEAN]
Processes ==
    [state : {"unused", "alive", "refused", "gone"}, by : Actors \cup {Nobody},
     under : 0 .. MaxRuns, server : BOOLEAN]

ExitStates == [run : 0 .. MaxRuns, state : {"none", "active", "graceful", "unreadable"}]

TypeInv ==
    /\ task \in Entries \cup {Absent, Unreadable}
    /\ exit \in ExitStates
    /\ pc \in [Programs -> {"off", "setup", "running", "completing", "closing"}]
    /\ kind \in [Programs -> Kinds \cup {"talk", "none"}]
    /\ current \in [Programs -> 0 .. MaxRuns]
    /\ agents \subseteq Programs
    /\ runs \in 0 .. MaxRuns
    /\ missed \subseteq {"record", "prompt"}
    /\ call \in [Actors -> LedgerCalls]
    /\ awaited \in [Actors -> Children \cup {Nobody}]
    /\ child \in [Children -> Processes]

\* A program that is up is one of the runs started.
RunInv == \A p \in Programs : Up(p) => current[p] \in 1 .. MaxRuns

\* A process that has been seen to exit, or that could not be killed.
Over(c, ch) == ch[c].state \in {"gone", "refused"}

\* What an entry calls stopped is over.
Truthful(entry, ch) ==
    \A c \in Children : c \in DOMAIN entry.listed /\ entry.listed[c] = "stopped" => Over(c, ch)

\* So is what a call is about to call stopped; its copy may be old.
Sound(k, ch) ==
    /\ k.what \in {"track", "untrack"} => k.child \in Children
    /\ k.what = "untrack" => Over(k.child, ch)
    /\ k.what = "start" => k.at # "load"
    /\ k.at # "load" => k.copy \in Entries
    /\ Truthful(k.copy, ch)

TruthInv == Truthful(task, child) /\ \A a \in Actors : Sound(call[a], child)

IInv == TypeInv /\ RunInv /\ TruthInv

-----------------------------------------------------------------------------
(* Entries and calls.                                                      *)

LEMMA NothingListed ==
    /\ \A ch : Truthful(Absent, ch) /\ Truthful(Unreadable, ch)
    /\ \A run, ch : Truthful(Entry(run), ch)
    /\ Absent \notin Entries /\ Unreadable \notin Entries
BY DEF Truthful, Absent, Unreadable, NoEntry, Entry, NoProcesses, Entries

LEMMA NewEntry == ASSUME NEW run \in 1 .. MaxRuns PROVE Entry(run) \in Entries
<1>1. NoProcesses \in [{} -> {"running", "stopped"}] /\ {} \in SUBSET Children
  BY DEF NoProcesses
<1>2. NoProcesses \in UNION {[cs -> {"running", "stopped"}] : cs \in SUBSET Children}
  BY <1>1
<1> QED BY <1>2 DEF Entry, Entries

LEMMA ListedType ==
    ASSUME NEW e \in Entries
    PROVE  DOMAIN e.listed \subseteq Children /\ e.listed \in [DOMAIN e.listed -> {"running", "stopped"}]
<1>1. e.listed \in UNION {[cs -> {"running", "stopped"}] : cs \in SUBSET Children}
  BY DEF Entries
<1>2. PICK cs \in SUBSET Children : e.listed \in [cs -> {"running", "stopped"}]
  BY <1>1
<1> QED BY <1>2

LEMMA IdleSound == Idle \in LedgerCalls /\ \A ch : Sound(Idle, ch)
BY NothingListed DEF Idle, NewCall, LedgerCalls, Sound

\* An update keeps an entry an entry, and true when what it calls stopped is over.
LEMMA UpdateKeeps ==
    ASSUME NEW e \in Entries, NEW ch, Truthful(e, ch),
           NEW what \in {"goal", "complete", "track", "untrack"},
           NEW c \in Children \cup {Nobody},
           what \in {"track", "untrack"} => c \in Children,
           what = "untrack" => Over(c, ch)
    PROVE  Updated(e, what, c) \in Entries /\ Truthful(Updated(e, what, c), ch)
<1> DEFINE new == Updated(e, what, c)
           L == e.listed
<1>0. DOMAIN L \subseteq Children /\ L \in [DOMAIN L -> {"running", "stopped"}]
  BY ListedType
<1>1. CASE what = "track"
  <2> DEFINE l == [d \in DOMAIN L \cup {c} |-> IF d = c THEN "running" ELSE L[d]]
  <2>1. new = [e EXCEPT !.listed = l]
    BY <1>1 DEF Updated
  <2>2. l \in [DOMAIN L \cup {c} -> {"running", "stopped"}] /\ DOMAIN L \cup {c} \in SUBSET Children
    BY <1>0, <1>1
  <2>3. l \in UNION {[cs -> {"running", "stopped"}] : cs \in SUBSET Children}
    BY <2>2
  <2>4. new \in Entries /\ new.listed = l
    <3> HIDE DEF l
    <3> QED BY <2>1, <2>3 DEF Entries
  <2>5. \A d \in DOMAIN l : l[d] = "stopped" => d \in DOMAIN L /\ L[d] = "stopped"
    OBVIOUS
  <2>6. Truthful(new, ch)
    BY <2>4, <2>5 DEF Truthful
  <2> QED BY <2>4, <2>6
<1>2. CASE what = "untrack"
  <2> DEFINE l == [d \in DOMAIN L |-> IF d = c THEN "stopped" ELSE L[d]]
  <2>1. new = [e EXCEPT !.listed = l]
    BY <1>2 DEF Updated
  <2>2. l \in [DOMAIN L -> {"running", "stopped"}] /\ DOMAIN L \in SUBSET Children
    BY <1>0
  <2>3. l \in UNION {[cs -> {"running", "stopped"}] : cs \in SUBSET Children}
    BY <2>2
  <2>4. new \in Entries /\ new.listed = l
    <3> HIDE DEF l
    <3> QED BY <2>1, <2>3 DEF Entries
  <2>5. \A d \in DOMAIN l : l[d] = "stopped" => d = c \/ (d \in DOMAIN L /\ L[d] = "stopped")
    OBVIOUS
  <2>6. Truthful(new, ch)
    BY <1>2, <2>4, <2>5 DEF Truthful
  <2> QED BY <2>4, <2>6
<1>3. CASE what = "goal"
  <2>1. new = [e EXCEPT !.goal = "words"]
    BY <1>3 DEF Updated
  <2>2. new \in Entries /\ new.listed = L
    BY <2>1 DEF Entries
  <2> QED BY <2>2 DEF Truthful
<1>4. CASE what = "complete"
  <2>1. new = [e EXCEPT !.status = "completed"]
    BY <1>4 DEF Updated
  <2>2. new \in Entries /\ new.listed = L
    BY <2>1 DEF Entries
  <2> QED BY <2>2 DEF Truthful
<1> QED BY <1>1, <1>2, <1>3, <1>4

-----------------------------------------------------------------------------
(* What the steps have in common.                                          *)

\* What is over stays over, and so what was true stays true.
Monotone == \A c \in Children : Over(c, child) => Over(c, child')

LEMMA TruthStays ==
    ASSUME Monotone
    PROVE  /\ \A e : Truthful(e, child) => Truthful(e, child')
           /\ \A k : Sound(k, child) => Sound(k, child')
<1>1. \A e : Truthful(e, child) => Truthful(e, child')
  BY DEF Truthful, Monotone
<1> QED BY <1>1 DEF Sound, Monotone

\* One thread's call changes.
LEMMA OneCall ==
    ASSUME TypeInv, TruthInv, Monotone, NEW a \in Actors,
           NEW k \in LedgerCalls, Sound(k, child'), call' = [call EXCEPT ![a] = k]
    PROVE  call' \in [Actors -> LedgerCalls] /\ \A b \in Actors : Sound(call'[b], child')
<1>1. call' \in [Actors -> LedgerCalls]
  BY DEF TypeInv
<1>2. ASSUME NEW b \in Actors PROVE Sound(call'[b], child')
  <2>1. CASE b = a
    BY <2>1 DEF TypeInv
  <2>2. CASE b # a
    <3>1. call'[b] = call[b]
      BY <2>2 DEF TypeInv
    <3> QED BY <3>1, TruthStays DEF TruthInv
  <2> QED BY <2>1, <2>2
<1> QED BY <1>1, <1>2

\* One thread's call goes on by a write.
LEMMA WritingCall ==
    ASSUME TypeInv, TruthInv, Monotone, NEW a \in Actors,
           NEW k \in LedgerCalls, Sound(k, child'), call' = Overtaking(a, k)
    PROVE  call' \in [Actors -> LedgerCalls] /\ \A b \in Actors : Sound(call'[b], child')
<1>1. ASSUME NEW b \in Actors PROVE call'[b] \in LedgerCalls /\ Sound(call'[b], child')
  <2>1. CASE b = a
    BY <2>1 DEF Overtaking
  <2>2. CASE b # a
    <3> DEFINE late == call[b].at # "load"
    <3>1. call'[b] = [call[b] EXCEPT !.stale = late]
      BY <2>2 DEF Overtaking
    <3>2. call[b] \in LedgerCalls /\ late \in BOOLEAN
      BY DEF TypeInv
    <3>3. Sound(call[b], child')
      BY TruthStays DEF TruthInv
    <3> HIDE DEF late
    <3>4. call'[b] \in LedgerCalls
      BY <3>1, <3>2 DEF LedgerCalls
    <3>5. /\ call'[b].what = call[b].what /\ call'[b].child = call[b].child
          /\ call'[b].at = call[b].at /\ call'[b].copy = call[b].copy
      BY <3>1, <3>2 DEF LedgerCalls
    <3> QED BY <3>3, <3>4, <3>5 DEF Sound
  <2> QED BY <2>1, <2>2
<1>2. call' \in [Actors -> LedgerCalls]
  <2>1. call' = [b \in Actors |-> call'[b]]
    BY DEF Overtaking
  <2> QED BY <2>1, <1>1
<1> QED BY <1>1, <1>2

\* A call begins.
LEMMA CallBegins ==
    ASSUME TypeInv, TruthInv, Monotone, NEW a \in Actors, NEW what \in {"goal", "complete", "track", "untrack"},
           NEW c \in Children \cup {Nobody}, Calling(a, what, c),
           what \in {"track", "untrack"} => c \in Children,
           what = "untrack" => Over(c, child')
    PROVE  call' \in [Actors -> LedgerCalls] /\ \A b \in Actors : Sound(call'[b], child')
<1> DEFINE k == NewCall(what, c)
<1>1. k = [what |-> what, child |-> c, at |-> "load", copy |-> Absent, stale |-> FALSE]
  BY DEF NewCall
<1>2. k \in LedgerCalls
  BY <1>1 DEF LedgerCalls
<1>3. Sound(k, child')
  BY <1>1, NothingListed DEF Sound
<1>4. call' = [call EXCEPT ![a] = k]
  BY DEF Calling
<1> HIDE DEF k
<1> QED BY <1>2, <1>3, <1>4, OneCall

-----------------------------------------------------------------------------
(* The calls of the store.                                                 *)

LEMMA LoadKeeps == ASSUME IInv, NEW a \in Actors, Load(a) PROVE IInv'
<1>0. call[a] \in LedgerCalls /\ Sound(call[a], child) /\ child' = child /\ Monotone
  BY DEF IInv, TypeInv, TruthInv, Load, Monotone
<1>1. CASE task \in {Absent, Unreadable}
  <2>1. call' = [call EXCEPT ![a] = Idle]
    BY <1>1 DEF Load
  <2>2. call' \in [Actors -> LedgerCalls] /\ \A b \in Actors : Sound(call'[b], child')
    BY <1>0, <2>1, IdleSound, OneCall DEF IInv
  <2> QED
    BY <1>0, <2>2 DEF IInv, TypeInv, RunInv, TruthInv, Load, files, programs, history, Up
<1>2. CASE task \notin {Absent, Unreadable}
  <2> DEFINE c0 == call[a]
             e == Updated(task, c0.what, c0.child)
             k == [what |-> c0.what, child |-> c0.child, at |-> "truncate", copy |-> e, stale |-> c0.stale]
  <2>1. c0.what \in {"goal", "complete", "track", "untrack"} /\ c0.child \in Children \cup {Nobody}
    BY <1>0 DEF Load, LedgerCalls, Sound
  <2>2. task \in Entries /\ Truthful(task, child)
    BY <1>2 DEF IInv, TypeInv, TruthInv
  <2>3. e \in Entries /\ Truthful(e, child)
    BY <1>0, <2>1, <2>2, UpdateKeeps DEF Sound
  <2>4. call' = [call EXCEPT ![a] = k]
    <3> DEFINE mid == [call EXCEPT ![a].at = "truncate"]
    <3>1. call' = [mid EXCEPT ![a].copy = e]
      BY <1>2 DEF Load
    <3>2. mid \in [Actors -> LedgerCalls] /\ mid[a] = [c0 EXCEPT !.at = "truncate"]
          /\ \A b \in Actors \ {a} : mid[b] = call[b]
      BY <1>0 DEF IInv, TypeInv, LedgerCalls
    <3> HIDE DEF mid, e
    <3>3. [mid[a] EXCEPT !.copy = e] = k
      <4>1. mid[a] = [what |-> c0.what, child |-> c0.child, at |-> "truncate", copy |-> c0.copy,
                      stale |-> c0.stale]
        BY <1>0, <3>2 DEF LedgerCalls
      <4> QED BY <4>1
    <3>4. call' = [mid EXCEPT ![a] = [mid[a] EXCEPT !.copy = e]]
      BY <3>1, <3>2
    <3> HIDE DEF k
    <3> QED BY <3>2, <3>3, <3>4 DEF IInv, TypeInv
  <2>5. k \in LedgerCalls /\ Sound(k, child')
    <3> HIDE DEF e
    <3> QED BY <1>0, <2>1, <2>3 DEF LedgerCalls, Sound
  <2> HIDE DEF k
  <2>6. call' \in [Actors -> LedgerCalls] /\ \A b \in Actors : Sound(call'[b], child')
    BY <1>0, <2>4, <2>5, OneCall DEF IInv
  <2> QED
    BY <1>0, <2>6 DEF IInv, TypeInv, RunInv, TruthInv, Load, files, programs, history, Up
<1> QED BY <1>1, <1>2

LEMMA TruncateKeeps == ASSUME IInv, NEW a \in Actors, Truncate(a) PROVE IInv'
<1> DEFINE k == [call[a] EXCEPT !.at = "write"]
<1>0. call[a] \in LedgerCalls /\ Sound(call[a], child) /\ child' = child /\ Monotone
  BY DEF IInv, TypeInv, TruthInv, Truncate, Monotone
<1>1. /\ k \in LedgerCalls /\ k.at = "write"
      /\ k.what = call[a].what /\ k.child = call[a].child /\ k.copy = call[a].copy
  BY <1>0 DEF LedgerCalls
<1>2. Sound(k, child')
  BY <1>0, <1>1 DEF Sound, Truncate
<1>3. call' = Overtaking(a, k)
  BY DEF Truncate
<1> HIDE DEF k
<1>4. call' \in [Actors -> LedgerCalls] /\ \A b \in Actors : Sound(call'[b], child')
  BY <1>0, <1>1, <1>2, <1>3, WritingCall DEF IInv
<1>5. task' = Unreadable /\ Truthful(task', child')
  BY NothingListed DEF Truncate
<1> QED
  BY <1>0, <1>4, <1>5 DEF IInv, TypeInv, RunInv, TruthInv, Truncate, programs, history, Up

LEMMA WriteFailsKeeps == ASSUME IInv, NEW a \in Actors, WriteFails(a) PROVE IInv'
<1>0. child' = child /\ Monotone /\ call' = [call EXCEPT ![a] = Idle]
  BY DEF WriteFails, Monotone
<1>1. call' \in [Actors -> LedgerCalls] /\ \A b \in Actors : Sound(call'[b], child')
  BY <1>0, IdleSound, OneCall DEF IInv
<1> QED
  BY <1>0, <1>1 DEF IInv, TypeInv, RunInv, TruthInv, WriteFails, files, programs, history, Up

LEMMA WriteKeeps == ASSUME IInv, NEW a \in Actors, Write(a) PROVE IInv'
<1> DEFINE half == [call[a] EXCEPT !.at = "prompt"]
           k == [half EXCEPT !.stale = FALSE]
<1>0. call[a] \in LedgerCalls /\ Sound(call[a], child) /\ call[a].at = "write" /\ call[a].copy \in Entries
  BY DEF IInv, TypeInv, TruthInv, Write, Sound
<1>1. child' \in [Children -> Processes] /\ Monotone
  <2>1. CASE call[a].what # "track"
    BY <2>1 DEF Write, IInv, TypeInv, Monotone
  <2>2. CASE call[a].what = "track"
    <3> DEFINE c == call[a].child
               r == call[a].copy.run
    <3>1. c \in Children /\ r \in 0 .. MaxRuns
      BY <1>0, <2>2, BoundsAssumption DEF Sound, Entries
    <3>2. child' = [child EXCEPT ![c].under = r]
      BY <2>2 DEF Write
    <3> HIDE DEF c, r
    <3>3. child \in [Children -> Processes]
      BY DEF IInv, TypeInv
    <3>4. child' \in [Children -> Processes]
      BY <3>1, <3>2, <3>3 DEF Processes
    <3>5. \A d \in Children : child'[d].state = child[d].state
      BY <3>1, <3>2, <3>3 DEF Processes
    <3> QED BY <3>4, <3>5 DEF Monotone, Over
  <2> QED BY <2>1, <2>2
<1>2. call' = Overtaking(a, k)
  BY DEF Write
<1>3. /\ half \in LedgerCalls /\ half.at = "prompt"
      /\ half.what = call[a].what /\ half.child = call[a].child /\ half.copy = call[a].copy
  BY <1>0 DEF LedgerCalls
<1>4. k \in LedgerCalls /\ Sound(k, child)
  <2> HIDE DEF half
  <2>1. /\ k \in LedgerCalls /\ k.at = "prompt"
        /\ k.what = half.what /\ k.child = half.child /\ k.copy = half.copy
    BY <1>3 DEF LedgerCalls
  <2> HIDE DEF k
  <2> QED BY <1>0, <1>3, <2>1 DEF Sound
<1> HIDE DEF k
<1>5. Sound(k, child')
  BY <1>1, <1>4, TruthStays
<1>6. call' \in [Actors -> LedgerCalls] /\ \A b \in Actors : Sound(call'[b], child')
  BY <1>1, <1>2, <1>4, <1>5, WritingCall DEF IInv
<1>7. task' = call[a].copy /\ task' \in Entries /\ Truthful(task', child')
  BY <1>0, <1>1, TruthStays DEF Write, Sound
<1> QED
  BY <1>1, <1>6, <1>7 DEF IInv, TypeInv, RunInv, TruthInv, Write, programs, history, Up

LEMMA WritePromptKeeps == ASSUME IInv, NEW a \in Actors, WritePrompt(a) PROVE IInv'
<1>0. child' = child /\ Monotone /\ call' = [call EXCEPT ![a] = Idle]
  BY DEF WritePrompt, Monotone
<1>1. call' \in [Actors -> LedgerCalls] /\ \A b \in Actors : Sound(call'[b], child')
  BY <1>0, IdleSound, OneCall DEF IInv
<1>2. missed' \subseteq {"record", "prompt"}
  BY DEF IInv, TypeInv, WritePrompt, Attempted
<1> QED
  BY <1>0, <1>1, <1>2 DEF IInv, TypeInv, RunInv, TruthInv, WritePrompt, programs, Up

-----------------------------------------------------------------------------
(* The processes.                                                          *)

\* A process that was not over changes, or one that is over stays so.
LEMMA OneChild ==
    ASSUME TypeInv, NEW c \in Children, NEW new \in Processes,
           child' = [child EXCEPT ![c] = new],
           Over(c, child) => new.state \in {"gone", "refused"}
    PROVE  child' \in [Children -> Processes] /\ Monotone /\ child'[c] = new
BY DEF TypeInv, Monotone, Over

LEMMA ProcessTypes ==
    /\ Gone \in Processes /\ Gone.state = "gone"
    /\ \A a \in Actors, server \in BOOLEAN : Spawned(a, server) \in Processes
<1>1. 0 \in 0 .. MaxRuns
  BY BoundsAssumption
<1>3. Gone \in Processes /\ Gone.state = "gone"
  BY <1>1 DEF Gone, Process, Processes
<1>4. ASSUME NEW a \in Actors, NEW server \in BOOLEAN PROVE Spawned(a, server) \in Processes
  BY <1>1 DEF Spawned, Process, Processes
<1> QED BY <1>3, <1>4

LEMMA RunCommandKeeps ==
    ASSUME IInv, NEW a \in Actors, NEW c \in Children, RunCommand(a, c) PROVE IInv'
<1>1. child' \in [Children -> Processes] /\ Monotone
  BY ProcessTypes, OneChild DEF IInv, RunCommand, Over
<1>2. call' \in [Actors -> LedgerCalls] /\ \A b \in Actors : Sound(call'[b], child')
  BY <1>1, CallBegins DEF IInv, RunCommand
<1>3. awaited' \in [Actors -> Children \cup {Nobody}]
  BY DEF IInv, TypeInv, RunCommand
<1>4. Truthful(task, child')
  BY <1>1, TruthStays DEF IInv, TruthInv
<1> QED
  BY <1>1, <1>2, <1>3, <1>4 DEF IInv, TypeInv, RunInv, TruthInv, RunCommand, files, programs, history, Up

LEMMA ChildExitsKeeps == ASSUME IInv, NEW c \in Children, ChildExits(c) PROVE IInv'
<1>1. child' \in [Children -> Processes] /\ Monotone
  BY ProcessTypes, OneChild DEF IInv, ChildExits
<1>2. Truthful(task, child') /\ \A b \in Actors : Sound(call[b], child')
  BY <1>1, TruthStays DEF IInv, TruthInv
<1> QED
  BY <1>1, <1>2 DEF IInv, TypeInv, RunInv, TruthInv, ChildExits, files, programs, threads, history, Up

LEMMA CommandOverKeeps == ASSUME IInv, NEW a \in Actors, CommandOver(a) PROVE IInv'
<1> DEFINE c == awaited[a]
<1>0. c \in Children
  BY DEF IInv, TypeInv, CommandOver
<1>1. child' = [child EXCEPT ![c] = Gone] /\ Calling(a, "untrack", c)
  BY DEF CommandOver
<1>2. awaited' \in [Actors -> Children \cup {Nobody}]
  BY DEF IInv, TypeInv, CommandOver
<1> HIDE DEF c
<1>3. child' \in [Children -> Processes] /\ Monotone /\ Over(c, child')
  BY <1>0, <1>1, ProcessTypes, OneChild DEF IInv, Over
<1>4. call' \in [Actors -> LedgerCalls] /\ \A b \in Actors : Sound(call'[b], child')
  BY <1>0, <1>1, <1>3, CallBegins DEF IInv
<1>5. Truthful(task, child')
  BY <1>3, TruthStays DEF IInv, TruthInv
<1> QED
  BY <1>2, <1>3, <1>4, <1>5 DEF IInv, TypeInv, RunInv, TruthInv, CommandOver, files, programs, history, Up

LEMMA MainActor == \A p \in Programs : Main(p) \in Actors
BY DEF Main, Actors

LEMMA SpawnServerKeeps ==
    ASSUME IInv, NEW p \in Programs, NEW c \in Children, SpawnServer(p, c) PROVE IInv'
<1>1. child' \in [Children -> Processes] /\ Monotone
  BY MainActor, ProcessTypes, OneChild DEF IInv, SpawnServer, Over
<1>2. call' \in [Actors -> LedgerCalls] /\ \A b \in Actors : Sound(call'[b], child')
  BY <1>1, MainActor, CallBegins DEF IInv, SpawnServer
<1>3. Truthful(task, child')
  BY <1>1, TruthStays DEF IInv, TruthInv
<1> QED
  BY <1>1, <1>2, <1>3 DEF IInv, TypeInv, RunInv, TruthInv, SpawnServer, files, programs, history, Up

LEMMA ReclaimServerKeeps ==
    ASSUME IInv, NEW p \in Programs, NEW c \in Children, ReclaimServer(p, c) PROVE IInv'
<1>0. child \in [Children -> Processes]
  BY DEF IInv, TypeInv
<1>1. child' \in [Children -> Processes] /\ Monotone /\ Over(c, child')
  <2>1. CASE child' = [child EXCEPT ![c] = Gone]
    BY <2>1, ProcessTypes, OneChild DEF IInv, Over
  <2>2. CASE child' = [child EXCEPT ![c].state = "refused"]
    <3> DEFINE new == [child[c] EXCEPT !.state = "refused"]
    <3>1. new \in Processes /\ new.state = "refused"
      BY <1>0 DEF Processes
    <3>2. child' = [child EXCEPT ![c] = new]
      BY <1>0, <2>2
    <3> HIDE DEF new
    <3> QED BY <3>1, <3>2, OneChild DEF IInv, Over
  <2> QED BY <2>1, <2>2 DEF ReclaimServer
<1>2. call' \in [Actors -> LedgerCalls] /\ \A b \in Actors : Sound(call'[b], child')
  BY <1>1, MainActor, CallBegins DEF IInv, ReclaimServer
<1>3. Truthful(task, child')
  BY <1>1, TruthStays DEF IInv, TruthInv
<1> QED
  BY <1>1, <1>2, <1>3 DEF IInv, TypeInv, RunInv, TruthInv, ReclaimServer, files, programs, history, Up

LEMMA KillServerKeeps ==
    ASSUME IInv, NEW p \in Programs, NEW c \in Children, KillServer(p, c) PROVE IInv'
<1>1. child' \in [Children -> Processes] /\ Monotone
  BY ProcessTypes, OneChild DEF IInv, KillServer
<1>2. Truthful(task, child') /\ \A b \in Actors : Sound(call[b], child')
  BY <1>1, TruthStays DEF IInv, TruthInv
<1> QED
  BY <1>1, <1>2 DEF IInv, TypeInv, RunInv, TruthInv, KillServer, files, programs, threads, history, Up

-----------------------------------------------------------------------------
(* The runs.                                                               *)

LEMMA SameChildren == child' = child => Monotone
BY DEF Monotone

LEMMA LaunchKeeps == ASSUME IInv, NEW p \in Programs, Launch(p) PROVE IInv'
<1>1. runs' \in 1 .. MaxRuns /\ runs' = runs + 1
  BY BoundsAssumption DEF IInv, TypeInv, Launch
<1>2. /\ pc' \in [Programs -> {"off", "setup", "running", "completing", "closing"}]
      /\ current' \in [Programs -> 0 .. MaxRuns]
  BY <1>1 DEF IInv, TypeInv, Launch
<1>3. kind' \in [Programs -> Kinds \cup {"talk", "none"}]
  BY DEF IInv, TypeInv, Launch
<1>4. RunInv'
  BY <1>1 DEF IInv, TypeInv, RunInv, Launch, Up
<1> QED
  BY <1>1, <1>2, <1>3, <1>4 DEF IInv, TypeInv, TruthInv, Launch, files, threads

LEMMA StartAgentKeeps == ASSUME IInv, NEW p \in Programs, StartAgent(p) PROVE IInv'
BY DEF IInv, TypeInv, RunInv, TruthInv, StartAgent, files, threads, history, Up

\* A record, written, refused or cut short.
LEMMA RecordsKeep ==
    ASSUME IInv, NEW p \in Programs, NEW state \in {"active", "graceful"}, Records(p, state)
    PROVE  exit' \in ExitStates /\ missed' \subseteq {"record", "prompt"}
<1>1. Record(current[p], state) \in ExitStates
  BY DEF IInv, TypeInv, Record, ExitStates
<1>2. CutRecord \in ExitStates
  BY BoundsAssumption DEF CutRecord, Record, ExitStates
<1>3. missed' \subseteq {"record", "prompt"}
  BY DEF IInv, TypeInv, Records, Attempted
<1>4. exit \in ExitStates
  BY DEF IInv, TypeInv
<1> QED BY <1>1, <1>2, <1>3, <1>4 DEF Records

LEMMA OpenKeeps == ASSUME IInv, NEW p \in Programs, Open(p) PROVE IInv'
<1> DEFINE k == Opening(current[p])
<1>0. current[p] \in 1 .. MaxRuns
  BY DEF IInv, RunInv, Open, Up
<1>1. Entry(current[p]) \in Entries
  BY <1>0, NewEntry
<1>2. k \in LedgerCalls /\ Sound(k, child)
  BY <1>1, NothingListed DEF LedgerCalls, Sound, Opening
<1>3. child' = child /\ Monotone /\ call' = [call EXCEPT ![Main(p)] = k]
  BY SameChildren DEF Open
<1> HIDE DEF k
<1>4. call' \in [Actors -> LedgerCalls] /\ \A b \in Actors : Sound(call'[b], child')
  BY <1>2, <1>3, MainActor, OneCall DEF IInv
<1>5. exit' \in ExitStates /\ missed' \subseteq {"record", "prompt"}
  BY RecordsKeep DEF Open
<1>6. pc' \in [Programs -> {"off", "setup", "running", "completing", "closing"}]
  BY DEF IInv, TypeInv, Open
<1>7. RunInv'
  BY DEF IInv, TypeInv, RunInv, Open, Up
<1> QED
  BY <1>3, <1>4, <1>5, <1>6, <1>7 DEF IInv, TypeInv, TruthInv, Open

LEMMA NoteGoalKeeps == ASSUME IInv, NEW p \in Programs, NoteGoal(p) PROVE IInv'
<1>1. call' \in [Actors -> LedgerCalls] /\ \A b \in Actors : Sound(call'[b], child')
  BY MainActor, SameChildren, CallBegins DEF IInv, NoteGoal
<1>2. kind' \in [Programs -> Kinds \cup {"talk", "none"}]
  BY DEF IInv, TypeInv, NoteGoal
<1> QED
  BY <1>1, <1>2 DEF IInv, TypeInv, RunInv, TruthInv, NoteGoal, files, history, Up

LEMMA LeaveKeeps == ASSUME IInv, NEW p \in Programs, Leave(p) PROVE IInv'
<1>1. pc' \in [Programs -> {"off", "setup", "running", "completing", "closing"}]
  BY DEF IInv, TypeInv, Leave
<1>2. exit' \in ExitStates /\ missed' \subseteq {"record", "prompt"}
  BY RecordsKeep DEF IInv, TypeInv, Leave
<1>3. call' \in [Actors -> LedgerCalls] /\ \A b \in Actors : Sound(call'[b], child')
  <2>1. CASE pc[p] = "running"
    BY <2>1 DEF IInv, TypeInv, TruthInv, Leave
  <2>2. CASE pc[p] = "completing"
    BY <2>2, MainActor, SameChildren, CallBegins DEF IInv, Leave
  <2> QED BY <2>1, <2>2 DEF Leave
<1>4. RunInv'
  BY DEF IInv, TypeInv, RunInv, Leave, Up
<1> QED
  BY <1>1, <1>2, <1>3, <1>4 DEF IInv, TypeInv, TruthInv, Leave

LEMMA LeaveByRequestKeeps == ASSUME IInv, NEW p \in Programs, LeaveByRequest(p) PROVE IInv'
<1>1. pc' \in [Programs -> {"off", "setup", "running", "completing", "closing"}]
  BY DEF IInv, TypeInv, LeaveByRequest
<1>2. exit' \in ExitStates /\ missed' \subseteq {"record", "prompt"}
  BY RecordsKeep DEF LeaveByRequest
<1>3. RunInv'
  BY DEF IInv, TypeInv, RunInv, LeaveByRequest, Up
<1> QED
  BY <1>1, <1>2, <1>3 DEF IInv, TypeInv, TruthInv, LeaveByRequest, threads

LEMMA FailKeeps == ASSUME IInv, NEW p \in Programs, Fail(p) PROVE IInv'
<1>1. pc' \in [Programs -> {"off", "setup", "running", "completing", "closing"}]
  BY DEF IInv, TypeInv, Fail
<1>2. RunInv'
  BY DEF IInv, TypeInv, RunInv, Fail, Up
<1> QED
  BY <1>1, <1>2 DEF IInv, TypeInv, TruthInv, Fail, threads, files

\* The processes a program leaves behind go on, and count where they counted.
LEMMA StoppedLeaves ==
    ASSUME IInv, NEW p \in Programs, Stopped(p)
    PROVE  /\ child' \in [Children -> Processes]
           /\ \A c \in Children : /\ child'[c].state = child[c].state
                                 /\ child'[c].under = child[c].under
<1>1. \A r \in Processes : /\ Orphaned(r) \in Processes
                          /\ Orphaned(r).state = r.state /\ Orphaned(r).under = r.under
  BY DEF Orphaned, Processes
<1> QED BY <1>1 DEF IInv, TypeInv, Stopped

LEMMA StoppedKeeps == ASSUME IInv, NEW p \in Programs, Stopped(p) PROVE IInv'
<1>1. /\ pc' \in [Programs -> {"off", "setup", "running", "completing", "closing"}]
      /\ kind' \in [Programs -> Kinds \cup {"talk", "none"}]
      /\ current' \in [Programs -> 0 .. MaxRuns]
      /\ agents' \subseteq Programs
  BY BoundsAssumption DEF IInv, TypeInv, Stopped
<1>0. /\ child' \in [Children -> Processes]
      /\ \A c \in Children : child'[c].state = child[c].state
  BY StoppedLeaves
<1>5. \A b \in Actors : Sound(call[b], child) => Sound(call[b], child')
  BY <1>0 DEF Sound, Truthful, Over, IInv, TypeInv, LedgerCalls
<1>6. Truthful(task, child')
  BY <1>0, NothingListed, ListedType DEF Truthful, Over, IInv, TypeInv, TruthInv
<1>2. call' \in [Actors -> LedgerCalls] /\ \A b \in Actors : Sound(call'[b], child')
  BY <1>5, IdleSound DEF IInv, TypeInv, TruthInv, Stopped
<1>3. awaited' \in [Actors -> Children \cup {Nobody}]
  BY DEF IInv, TypeInv, Stopped
<1>4. RunInv'
  BY DEF IInv, TypeInv, RunInv, Stopped, Up
<1> QED
  BY <1>0, <1>1, <1>2, <1>3, <1>4, <1>6 DEF IInv, TypeInv, TruthInv, Stopped, files

LEMMA InitInv == Init => IInv
<1> SUFFICES ASSUME Init PROVE IInv
    OBVIOUS
<1>1. \A a \in Actors : call[a] = Idle /\ Sound(call[a], child)
  BY IdleSound DEF Init
<1>2. Unused \in Processes
  BY BoundsAssumption DEF Unused, Process, Processes
<1>3. TypeInv
  <2>1. exit \in ExitStates
    BY BoundsAssumption DEF Init, Record, ExitStates
  <2> QED BY <1>2, <2>1, IdleSound, BoundsAssumption DEF Init, TypeInv
<1>4. RunInv
  BY DEF Init, RunInv, Up
<1>5. TruthInv
  BY <1>1, NothingListed DEF Init, TruthInv
<1> QED BY <1>3, <1>4, <1>5 DEF IInv

LEMMA StepInv == IInv /\ [Next]_vars => IInv'
<1> SUFFICES ASSUME IInv, [Next]_vars PROVE IInv'
    OBVIOUS
<1>1. ASSUME NEW a \in Actors,
             Load(a) \/ Truncate(a) \/ WriteFails(a) \/ Write(a) \/ WritePrompt(a) \/ CommandOver(a)
      PROVE  IInv'
  BY <1>1, LoadKeeps, TruncateKeeps, WriteFailsKeeps, WriteKeeps, WritePromptKeeps, CommandOverKeeps
<1>2. ASSUME NEW a \in Actors, NEW c \in Children, RunCommand(a, c) PROVE IInv'
  BY <1>2, RunCommandKeeps
<1>3. ASSUME NEW c \in Children, ChildExits(c) PROVE IInv'
  BY <1>3, ChildExitsKeeps
<1>4. ASSUME NEW p \in Programs, NEW c \in Children,
             SpawnServer(p, c) \/ ReclaimServer(p, c) \/ KillServer(p, c)
      PROVE  IInv'
  BY <1>4, SpawnServerKeeps, ReclaimServerKeeps, KillServerKeeps
<1>5. ASSUME NEW p \in Programs, Launch(p) \/ Open(p) \/ StartAgent(p) \/ NoteGoal(p) PROVE IInv'
  BY <1>5, LaunchKeeps, OpenKeeps, StartAgentKeeps, NoteGoalKeeps
<1>6. ASSUME NEW p \in Programs, Leave(p) \/ LeaveByRequest(p) \/ Fail(p) PROVE IInv'
  BY <1>6, LeaveKeeps, LeaveByRequestKeeps, FailKeeps
<1>7. ASSUME NEW p \in Programs, End(p) \/ Die(p) PROVE IInv'
  BY <1>7, StoppedKeeps DEF End, Die
<1>8. CASE UNCHANGED vars
  BY <1>8 DEF vars, files, programs, threads, history, IInv, TypeInv, RunInv, TruthInv, Up
<1> QED BY <1>1, <1>2, <1>3, <1>4, <1>5, <1>6, <1>7, <1>8 DEF Next

LEMMA Invariance == Spec => []IInv
BY InitInv, StepInv, PTL DEF Spec

\* Every reachable state of the ledger has its type, for any programs, processes and bounds
\* (the types of active_task.rs and recovery.rs).
THEOREM TypeCorrect == Spec => []TypeOK
<1>1. IInv => TypeOK
  <2> SUFFICES ASSUME IInv PROVE TypeOK
    OBVIOUS
  <2>1. exit.run \in 0 .. MaxRuns /\ exit.state \in {"none", "active", "graceful", "unreadable"}
    BY DEF IInv, TypeInv, ExitStates
  <2>2. \A a \in Actors :
           /\ call[a].what \in {"none", "start", "goal", "complete", "track", "untrack"}
           /\ call[a].at \in {"load", "truncate", "write", "prompt"}
           /\ call[a].copy \in Entries \cup {Absent}
           /\ awaited[a] \in Children \cup {Nobody}
    BY DEF IInv, TypeInv, LedgerCalls
  <2> QED BY <2>1, <2>2 DEF IInv, TypeInv, TypeOK
<1> QED BY <1>1, Invariance, PTL

\* For any number of programs, subagents, processes and runs, whatever overtakes whatever
\* and wherever a program dies, an entry never calls a process stopped that is running
\* (untrack_process): each copy an update holds is sound by itself, however old it is.
THEOREM StoppedProcessesAreGone == Spec => []StoppedIsGone
<1>1. IInv => StoppedIsGone
  <2> SUFFICES ASSUME IInv, NEW c \in Children, Listed(c) = "stopped"
               PROVE  child[c].state \in {"gone", "refused"}
    BY DEF StoppedIsGone
  <2>1. c \in DOMAIN task.listed /\ task.listed[c] = "stopped"
    BY DEF Listed
  <2> QED BY <2>1 DEF IInv, TruthInv, Truthful, Over
<1> QED BY <1>1, Invariance, PTL

-----------------------------------------------------------------------------
(* A run that has the workspace for itself closes its entry last.          *)

Recorded == "record" \in missed \/ exit = Record(runs, "graceful")

\* An entry of the last run is closed after the run's graceful record.
Settled(e) ==
    e \in Entries =>
        /\ e.run <= runs
        /\ ~shared /\ e.run = runs /\ e.status = "completed" => Recorded
SettledInv == Settled(task) /\ \A a \in Actors : Settled(call[a].copy)

AloneInv ==
    /\ \A p \in Programs : current[p] <= runs
    /\ ~shared =>
          /\ \A p, q \in Programs : Up(p) /\ Up(q) => p = q
          /\ \A p \in Programs : Up(p) => current[p] = runs

\* Until it opens, the last run has no entry.
Earlier(e) == e \in Entries => e.run # runs
SetupInv ==
    ~shared => \A p \in Programs : pc[p] = "setup" =>
        Earlier(task) /\ \A a \in Actors : Earlier(call[a].copy)

CloseInv ==
    /\ \A p \in Programs : ~shared /\ pc[p] = "completing" => Recorded
    /\ \A a \in Actors : call[a].what = "complete" =>
          pc[Program(a)] = "closing" /\ (~shared => Recorded)

SoloInv == AloneInv /\ SettledInv /\ SetupInv /\ CloseInv

\* What an update makes: an entry that was there, or one of the same run, closed
\* only by complete_task.
Derived(e) ==
    \/ e \notin Entries \/ e = task \/ \E b \in Actors : e = call[b].copy
    \/ /\ task \in Entries /\ e.run = task.run
       /\ e.status = task.status \/ \E b \in Actors : call[b].what = "complete"

\* What was missed is still missed.
Kept(file) == file \in missed => file \in missed'

\* The steps that neither start nor end a run, nor leave it.
OnTheWay ==
    /\ UNCHANGED <<exit, pc, current, runs, shared>> /\ Kept("record")
    /\ Derived(task') /\ \A a \in Actors : Derived(call'[a].copy)
    /\ \A a \in Actors : call'[a].what = "complete" => call[a].what = "complete"

LEMMA DerivedSettled == ASSUME SoloInv, NEW e, Derived(e) PROVE Settled(e)
<1> SUFFICES ASSUME e \in Entries PROVE Settled(e)
    BY DEF Settled
<1>1. CASE e = task \/ \E b \in Actors : e = call[b].copy
  BY <1>1 DEF SoloInv, SettledInv
<1>2. CASE /\ task \in Entries /\ e.run = task.run
           /\ e.status = task.status \/ \E b \in Actors : call[b].what = "complete"
  <2>1. Settled(task) /\ ((\E b \in Actors : call[b].what = "complete") /\ ~shared => Recorded)
    BY DEF SoloInv, SettledInv, CloseInv
  <2> QED BY <1>2, <2>1 DEF Settled
<1> QED BY <1>1, <1>2 DEF Derived

LEMMA OnTheWayKeeps == ASSUME SoloInv, OnTheWay PROVE SoloInv'
<1>1. \A e : Derived(e) => Settled(e)
  BY DerivedSettled
<1>2. SettledInv'
  BY <1>1 DEF OnTheWay, SettledInv, Settled, Recorded, Kept
<1>3. ASSUME ~shared, NEW p \in Programs, pc[p] = "setup", NEW e, Derived(e) PROVE Earlier(e)
  BY <1>3 DEF SoloInv, SetupInv, Derived, Earlier
<1>4. SetupInv'
  BY <1>3 DEF OnTheWay, SetupInv, Earlier
<1>5. AloneInv'
  BY DEF OnTheWay, SoloInv, AloneInv, Up
<1>6. CloseInv'
  BY DEF OnTheWay, SoloInv, CloseInv, Recorded, Kept
<1> QED BY <1>2, <1>4, <1>5, <1>6 DEF SoloInv

LEMMA NoEntries == Absent \notin Entries /\ Unreadable \notin Entries
BY NothingListed

LEMMA IdleFields == Idle.what = "none" /\ Idle.copy = Absent
BY DEF Idle, NewCall

LEMMA StoreOnTheWay ==
    ASSUME IInv, NEW a \in Actors,
           Load(a) \/ Truncate(a) \/ WriteFails(a) \/ Write(a) \/ WritePrompt(a)
    PROVE  OnTheWay
<1>0. call \in [Actors -> LedgerCalls] /\ Derived(task) /\ \A b \in Actors : Derived(call[b].copy)
  BY DEF IInv, TypeInv, Derived
<1>1. UNCHANGED <<exit, pc, current, runs, shared>> /\ Kept("record")
  BY DEF Load, Truncate, WriteFails, Write, WritePrompt, files, programs, history, Attempted, Kept
<1>2. ASSUME call' = [call EXCEPT ![a] = Idle], task' = task PROVE OnTheWay
  <2>1. \A b \in Actors : call'[b] = call[b] \/ call'[b] = Idle
    BY <1>0, <1>2
  <2> QED BY <1>0, <1>1, <1>2, <2>1, IdleFields, NoEntries DEF OnTheWay, Derived
<1>3. ASSUME NEW k, call' = Overtaking(a, k), k.what = call[a].what, k.copy = call[a].copy,
             task' \in {Unreadable, call[a].copy}
      PROVE  OnTheWay
  <2>1. ASSUME NEW b \in Actors
        PROVE  call'[b].what = call[b].what /\ call'[b].copy = call[b].copy
    <3>1. CASE b = a
      BY <1>3, <3>1 DEF Overtaking
    <3>2. CASE b # a
      <4> DEFINE late == call[b].at # "load"
      <4>1. call'[b] = [call[b] EXCEPT !.stale = late]
        BY <1>3, <3>2 DEF Overtaking
      <4> HIDE DEF late
      <4> QED BY <1>0, <4>1 DEF LedgerCalls
    <3> QED BY <3>1, <3>2
  <2>2. Derived(task')
    BY <1>3, NoEntries DEF Derived
  <2> QED BY <1>0, <1>1, <2>1, <2>2 DEF OnTheWay
<1>4. CASE Load(a)
  <2>1. CASE task \in {Absent, Unreadable}
    BY <1>2, <1>4, <2>1 DEF Load, files
  <2>2. CASE task \notin {Absent, Unreadable}
    <3> DEFINE e == Updated(task, call[a].what, call[a].child)
               mid == [call EXCEPT ![a].at = "truncate"]
    <3>1. task \in Entries /\ call[a].what \in {"goal", "complete", "track", "untrack"}
      BY <1>0, <1>4, <2>2 DEF IInv, TypeInv, TruthInv, Load, LedgerCalls, Sound
    <3>2. e.run = task.run /\ (e.status = task.status \/ call[a].what = "complete")
      BY <3>1 DEF Updated, Entries
    <3>3. Derived(e)
      BY <3>1, <3>2 DEF Derived
    <3>4. /\ mid \in [Actors -> LedgerCalls]
          /\ \A b \in Actors : mid[b].what = call[b].what /\ mid[b].copy = call[b].copy
      BY <1>0 DEF LedgerCalls
    <3>5. call' = [mid EXCEPT ![a].copy = e]
      BY <1>4, <2>2 DEF Load
    <3> HIDE DEF e, mid
    <3>6. \A b \in Actors : /\ call'[b].what = call[b].what
                            /\ call'[b].copy = IF b = a THEN e ELSE call[b].copy
      BY <3>4, <3>5 DEF LedgerCalls
    <3>7. task' = task
      BY <1>4 DEF Load, files
    <3> QED BY <1>0, <1>1, <3>3, <3>6, <3>7 DEF OnTheWay
  <2> QED BY <2>1, <2>2
<1>5. CASE Truncate(a)
  <2> DEFINE k == [call[a] EXCEPT !.at = "write"]
  <2>1. k.what = call[a].what /\ k.copy = call[a].copy
    BY <1>0 DEF LedgerCalls
  <2>2. call' = Overtaking(a, k) /\ task' = Unreadable
    BY <1>5 DEF Truncate
  <2> HIDE DEF k
  <2> QED BY <1>3, <2>1, <2>2
<1>6. CASE WriteFails(a)
  BY <1>2, <1>6 DEF WriteFails, files
<1>7. CASE Write(a)
  <2> DEFINE half == [call[a] EXCEPT !.at = "prompt"]
             k == [half EXCEPT !.stale = FALSE]
  <2>1. call' = Overtaking(a, k) /\ task' = call[a].copy
    BY <1>7 DEF Write
  <2>2. half \in LedgerCalls /\ half.what = call[a].what /\ half.copy = call[a].copy
    BY <1>0 DEF LedgerCalls
  <2> HIDE DEF half
  <2>3. k.what = call[a].what /\ k.copy = call[a].copy
    BY <2>2 DEF LedgerCalls
  <2> HIDE DEF k
  <2> QED BY <1>3, <2>1, <2>3
<1>8. CASE WritePrompt(a)
  BY <1>2, <1>8 DEF WritePrompt
<1> QED BY <1>4, <1>5, <1>6, <1>7, <1>8

\* A call begins, or none does.
LEMMA CallOnTheWay ==
    ASSUME IInv, UNCHANGED <<task, exit, missed, pc, current, runs, shared>>,
           \/ call' = call
           \/ \E a \in Actors, what \in {"goal", "track", "untrack"}, c \in Children \cup {Nobody} :
                  Calling(a, what, c)
    PROVE  OnTheWay
<1>0. call \in [Actors -> LedgerCalls] /\ Derived(task) /\ \A b \in Actors : Derived(call[b].copy)
  BY DEF IInv, TypeInv, Derived
<1>1. CASE call' = call
  BY <1>0, <1>1 DEF OnTheWay, Kept
<1>2. ASSUME NEW a \in Actors, NEW what \in {"goal", "track", "untrack"}, NEW c \in Children \cup {Nobody},
             Calling(a, what, c)
      PROVE  OnTheWay
  <2> DEFINE k == NewCall(what, c)
  <2>1. k.what # "complete" /\ k.copy = Absent
    BY DEF NewCall
  <2> HIDE DEF k
  <2>2. \A b \in Actors : call'[b] = call[b] \/ call'[b] = k
    BY <1>0, <1>2 DEF Calling, k
  <2> QED BY <1>0, <2>1, <2>2, NoEntries DEF OnTheWay, Derived, Kept
<1> QED BY <1>1, <1>2

\* A graceful record of a run alone is written, or missed.
LEMMA GracefulRecorded ==
    ASSUME NEW p \in Programs, Records(p, "graceful"), current[p] = runs, runs' = runs
    PROVE  Recorded'
BY DEF Records, Attempted, Recorded

LEMMA LaunchSolo == ASSUME IInv, SoloInv, NEW p \in Programs, Launch(p) PROVE SoloInv'
<1>1. runs' = runs + 1 /\ runs \in Nat /\ task' = task /\ call' = call
  BY BoundsAssumption DEF IInv, TypeInv, Launch, files, threads
<1>2. ASSUME NEW e, Settled(e) PROVE Settled(e)' /\ Earlier(e)'
  <2> SUFFICES ASSUME e \in Entries PROVE e.run <= runs' /\ e.run # runs'
    BY DEF Settled, Earlier
  <2>1. e.run \in Nat /\ e.run <= runs
    BY <1>2, BoundsAssumption DEF Entries, Settled
  <2> QED BY <1>1, <2>1
<1>3. SettledInv' /\ SetupInv'
  BY <1>1, <1>2 DEF SoloInv, SettledInv, SetupInv
<1>4. ~shared' => \A q \in Programs : ~Up(q)
  BY DEF Launch
<1>5. AloneInv'
  <2>1. current' = [current EXCEPT ![p] = runs'] /\ current \in [Programs -> 0 .. MaxRuns]
        /\ \A q \in Programs \ {p} : pc'[q] = pc[q]
    BY <1>1 DEF Launch, IInv, TypeInv
  <2>2. ASSUME NEW q \in Programs PROVE current'[q] <= runs'
    <3>1. current[q] \in Nat /\ current[q] <= runs
      BY <2>1, BoundsAssumption DEF SoloInv, AloneInv
    <3> QED BY <1>1, <2>1, <3>1
  <2>3. ASSUME ~shared', NEW q \in Programs, Up(q)' PROVE q = p
    BY <1>4, <2>1, <2>3 DEF Up
  <2>4. current'[p] = runs'
    BY <2>1
  <2> QED BY <2>2, <2>3, <2>4 DEF AloneInv
<1>6. CloseInv'
  <2>1. ASSUME NEW q \in Programs, ~shared', pc'[q] = "completing" PROVE FALSE
    BY <1>4, <2>1 DEF Launch, Up, IInv, TypeInv
  <2>2. ASSUME NEW a \in Actors, call'[a].what = "complete"
        PROVE  pc'[Program(a)] = "closing" /\ (~shared' => Recorded')
    <3>1. Program(a) \in Programs /\ pc[Program(a)] = "closing"
      BY <1>1, <2>2 DEF SoloInv, CloseInv, Program, Actors
    <3> QED BY <1>4, <3>1 DEF Launch, Up, IInv, TypeInv
  <2> QED BY <2>1, <2>2 DEF CloseInv
<1> QED BY <1>3, <1>5, <1>6 DEF SoloInv

LEMMA OpenSolo == ASSUME IInv, SoloInv, NEW p \in Programs, Open(p) PROVE SoloInv'
<1> DEFINE k == Opening(current[p])
<1>0. /\ pc' = [pc EXCEPT ![p] = "running"]
      /\ pc[p] = "setup" /\ call' = [call EXCEPT ![Main(p)] = k]
      /\ UNCHANGED <<task, current, runs, shared>>
  BY DEF Open
<1>1. current[p] \in 1 .. MaxRuns /\ current[p] <= runs /\ (~shared => current[p] = runs)
  BY <1>0 DEF IInv, TypeInv, RunInv, SoloInv, AloneInv, Up
<1>2. k.copy.run = current[p] /\ k.copy.status = "running"
  <2>1. k.copy = Entry(current[p])
    BY DEF Opening
  <2> HIDE DEF k
  <2> QED BY <2>1 DEF Entry
<1> HIDE DEF k
<1>a. ASSUME NEW e, e.run = current[p], e.status = "running" PROVE Settled(e)'
  BY <1>0, <1>1, <1>a DEF Settled
<1>3. ASSUME NEW e, Settled(e), ~shared => Earlier(e) PROVE Settled(e)'
  BY <1>0, <1>3 DEF Settled, Earlier
<1>4. \A a \in Actors : call'[a] = IF a = Main(p) THEN k ELSE call[a]
  BY <1>0 DEF IInv, TypeInv
<1>5. SettledInv'
  BY <1>0, <1>2, <1>3, <1>4, <1>a DEF SoloInv, SettledInv, SetupInv
<1>6. ~shared => \A q \in Programs : Up(q) => q = p
  BY <1>0 DEF SoloInv, AloneInv, Up
<1>7. \A q \in Programs : Up(q)' <=> Up(q)
  BY <1>0 DEF Up, IInv, TypeInv
<1>8. AloneInv'
  BY <1>0, <1>7 DEF SoloInv, AloneInv
<1>9. SetupInv'
  BY <1>0, <1>6 DEF SetupInv, Up, IInv, TypeInv
<1>10. CloseInv'
  <2>1. ASSUME NEW q \in Programs, ~shared', pc'[q] = "completing" PROVE FALSE
    BY <1>0, <1>6, <2>1 DEF Up, IInv, TypeInv
  <2>2. ASSUME NEW a \in Actors, call'[a].what = "complete"
        PROVE  pc'[Program(a)] = "closing" /\ (~shared' => Recorded')
    <3>1. call[a].what = "complete" /\ Program(a) \in Programs
      BY <1>4, <2>2 DEF k, Opening, Program, Actors
    <3>2. pc[Program(a)] = "closing"
      BY <3>1 DEF SoloInv, CloseInv
    <3>3. Program(a) # p
      BY <1>0, <3>2
    <3>4. shared
      BY <1>6, <3>1, <3>2, <3>3 DEF Up
    <3> QED BY <1>0, <3>1, <3>2, <3>3, <3>4 DEF IInv, TypeInv
  <2> QED BY <2>1, <2>2 DEF CloseInv
<1> QED BY <1>5, <1>8, <1>9, <1>10 DEF SoloInv

\* A run that is left has its graceful record before it begins to close its entry.
LEMMA LeftSolo ==
    ASSUME IInv, SoloInv, NEW p \in Programs, Leave(p) \/ LeaveByRequest(p) \/ Fail(p)
    PROVE  SoloInv'
<1>0. /\ pc[p] \in {"running", "completing"} /\ pc'[p] \in {"completing", "closing"}
      /\ \A q \in Programs \ {p} : pc'[q] = pc[q]
      /\ UNCHANGED <<task, current, runs, shared>>
      /\ UNCHANGED <<exit, missed>> \/ Records(p, "graceful")
      /\ pc[p] = "completing" => pc'[p] = "closing"
  BY DEF Leave, LeaveByRequest, Fail, files, IInv, TypeInv
<1>1. ~shared => current[p] = runs /\ \A q \in Programs : Up(q) => q = p
  BY <1>0 DEF SoloInv, AloneInv, Up
<1>2. ~shared => UNCHANGED Recorded \/ Recorded'
  BY <1>0, <1>1, GracefulRecorded DEF Recorded
<1>3. ~shared /\ pc'[p] = "completing" => Recorded'
  <2>1. pc'[p] = "completing" => Records(p, "graceful")
    BY DEF Leave, LeaveByRequest, Fail, IInv, TypeInv
  <2> QED BY <1>0, <1>1, <2>1, GracefulRecorded
<1>4. ASSUME NEW e, Settled(e) PROVE Settled(e)'
  BY <1>0, <1>2, <1>4 DEF Settled
<1>5. ASSUME NEW a \in Actors
      PROVE  /\ call'[a] = call[a] \/ call'[a].copy = Absent
             /\ call'[a].what = "complete" =>
                   call[a].what = "complete" \/ (a = Main(p) /\ pc[p] = "completing")
  <2>1. CASE call' = call
    BY <2>1
  <2>2. CASE call' # call
    <3> DEFINE k == NewCall("complete", Nobody)
    <3>1. pc[p] = "completing" /\ call' = [call EXCEPT ![Main(p)] = k] /\ k.copy = Absent
      BY <2>2 DEF Leave, LeaveByRequest, Fail, threads, Calling, NewCall
    <3> HIDE DEF k
    <3> QED BY <3>1 DEF IInv, TypeInv
  <2> QED BY <2>1, <2>2
<1>6. SettledInv'
  <2>1. Settled(Absent)'
    BY NoEntries DEF Settled
  <2> QED BY <1>0, <1>4, <1>5, <2>1 DEF SoloInv, SettledInv
<1>7. \A q \in Programs : Up(q)' <=> Up(q)
  BY <1>0 DEF Up
<1>8. AloneInv'
  BY <1>0, <1>7 DEF SoloInv, AloneInv
<1>9. SetupInv'
  BY <1>0, <1>1 DEF SetupInv, Up
<1>10. CloseInv'
  <2>1. ASSUME NEW q \in Programs, ~shared', pc'[q] = "completing" PROVE Recorded'
    BY <1>0, <1>1, <1>3, <2>1 DEF Up
  <2>2. ASSUME NEW a \in Actors, call'[a].what = "complete"
        PROVE  pc'[Program(a)] = "closing" /\ (~shared' => Recorded')
    <3>1. CASE call[a].what = "complete"
      <4>1. Program(a) \in Programs /\ pc[Program(a)] = "closing" /\ (~shared => Recorded)
        BY <3>1 DEF SoloInv, CloseInv, Program, Actors
      <4>2. ~shared => Recorded'
        BY <1>2, <4>1
      <4> QED BY <1>0, <4>1, <4>2
    <3>2. CASE a = Main(p) /\ pc[p] = "completing"
      <4>1. Program(a) = p
        BY <3>2 DEF Program, Main
      <4>2. ~shared => Recorded
        BY <3>2 DEF SoloInv, CloseInv
      <4> QED BY <1>0, <1>2, <3>2, <4>1, <4>2
    <3> QED BY <1>5, <2>2, <3>1, <3>2
  <2> QED BY <2>1, <2>2 DEF CloseInv
<1> QED BY <1>6, <1>8, <1>9, <1>10 DEF SoloInv

LEMMA StoppedSolo == ASSUME IInv, SoloInv, NEW p \in Programs, Stopped(p) PROVE SoloInv'
<1>0. /\ pc' = [pc EXCEPT ![p] = "off"] /\ current' = [current EXCEPT ![p] = 0]
      /\ UNCHANGED <<task, exit, missed, runs, shared>>
      /\ \A a \in Actors : call'[a] = IF Program(a) = p THEN Idle ELSE call[a]
  BY DEF Stopped, files
<1>1. \A q \in Programs : Up(q)' => q # p /\ Up(q) /\ pc'[q] = pc[q] /\ current'[q] = current[q]
  BY <1>0 DEF Up, IInv, TypeInv
<1>2. \A q \in Programs : current'[q] <= runs
  BY <1>0, BoundsAssumption DEF IInv, TypeInv, SoloInv, AloneInv
<1>3. AloneInv'
  BY <1>0, <1>1, <1>2 DEF SoloInv, AloneInv
<1>4. \A e : Settled(e)' <=> Settled(e)
  BY <1>0 DEF Settled, Recorded
<1>5. SettledInv'
  <2>1. Settled(Idle.copy)
    BY IdleFields, NoEntries DEF Settled
  <2> QED BY <1>0, <1>4, <2>1 DEF SoloInv, SettledInv
<1>6. SetupInv'
  <2>1. Earlier(Idle.copy)
    BY IdleFields, NoEntries DEF Earlier
  <2>2. ASSUME ~shared, NEW q \in Programs, pc'[q] = "setup"
        PROVE  Earlier(task) /\ \A a \in Actors : Earlier(call'[a].copy)
    <3>1. pc[q] = "setup"
      BY <1>1, <2>2 DEF Up
    <3> QED BY <1>0, <2>1, <2>2, <3>1 DEF SoloInv, SetupInv
  <2> QED BY <1>0, <2>2 DEF SetupInv, Earlier
<1>7. CloseInv'
  <2>1. ASSUME NEW q \in Programs, ~shared', pc'[q] = "completing" PROVE Recorded'
    <3>1. pc[q] = "completing"
      BY <1>1, <2>1 DEF Up
    <3> QED BY <1>0, <2>1, <3>1 DEF SoloInv, CloseInv, Recorded
  <2>2. ASSUME NEW a \in Actors, call'[a].what = "complete"
        PROVE  pc'[Program(a)] = "closing" /\ (~shared' => Recorded')
    <3>1. Program(a) \in Programs /\ Program(a) # p /\ call[a].what = "complete"
      BY <1>0, <2>2, IdleFields DEF Program, Actors
    <3> QED BY <1>0, <3>1 DEF SoloInv, CloseInv, Recorded, IInv, TypeInv
  <2> QED BY <2>1, <2>2 DEF CloseInv
<1> QED BY <1>3, <1>5, <1>6, <1>7 DEF SoloInv

LEMMA InitSolo == Init => SoloInv
<1> SUFFICES ASSUME Init PROVE SoloInv
    OBVIOUS
<1>1. AloneInv
  BY DEF Init, AloneInv, Up
<1>2. SettledInv
  BY IdleFields, NoEntries DEF Init, SettledInv, Settled
<1>3. SetupInv
  BY DEF Init, SetupInv
<1>4. CloseInv
  BY IdleFields DEF Init, CloseInv
<1> QED BY <1>1, <1>2, <1>3, <1>4 DEF SoloInv

LEMMA StepSolo == IInv /\ SoloInv /\ [Next]_vars => SoloInv'
<1> SUFFICES ASSUME IInv, SoloInv, [Next]_vars PROVE SoloInv'
    OBVIOUS
<1>1. ASSUME NEW a \in Actors,
             Load(a) \/ Truncate(a) \/ WriteFails(a) \/ Write(a) \/ WritePrompt(a)
      PROVE  SoloInv'
  BY <1>1, StoreOnTheWay, OnTheWayKeeps
<1>2. ASSUME NEW a \in Actors, CommandOver(a) PROVE SoloInv'
  <2>1. awaited[a] \in Children \cup {Nobody}
    BY DEF IInv, TypeInv
  <2>2. Calling(a, "untrack", awaited[a]) /\ UNCHANGED <<task, exit, missed, pc, current, runs, shared>>
    BY <1>2 DEF CommandOver, files, programs, history
  <2> QED BY <2>1, <2>2, CallOnTheWay, OnTheWayKeeps
<1>3. ASSUME NEW a \in Actors, NEW c \in Children, RunCommand(a, c) PROVE SoloInv'
  <2>1. Calling(a, "track", c) /\ UNCHANGED <<task, exit, missed, pc, current, runs, shared>>
    BY <1>3 DEF RunCommand, files, programs, history
  <2> QED BY <2>1, CallOnTheWay, OnTheWayKeeps
<1>4. ASSUME NEW c \in Children, ChildExits(c) PROVE SoloInv'
  <2>1. call' = call /\ UNCHANGED <<task, exit, missed, pc, current, runs, shared>>
    BY <1>4 DEF ChildExits, files, programs, threads, history
  <2> QED BY <2>1, CallOnTheWay, OnTheWayKeeps
<1>5. ASSUME NEW p \in Programs, NEW c \in Children,
             SpawnServer(p, c) \/ ReclaimServer(p, c) \/ KillServer(p, c)
      PROVE  SoloInv'
  <2>1. /\ UNCHANGED <<task, exit, missed, pc, current, runs, shared>>
        /\ call' = call \/ Calling(Main(p), "track", c) \/ Calling(Main(p), "untrack", c)
    BY <1>5 DEF SpawnServer, ReclaimServer, KillServer, files, programs, threads, history
  <2> QED BY <2>1, MainActor, CallOnTheWay, OnTheWayKeeps
<1>6. ASSUME NEW p \in Programs, StartAgent(p) \/ NoteGoal(p) PROVE SoloInv'
  <2>1. /\ UNCHANGED <<task, exit, missed, pc, current, runs, shared>>
        /\ call' = call \/ Calling(Main(p), "goal", Nobody)
    BY <1>6 DEF StartAgent, NoteGoal, files, threads, history
  <2> QED BY <2>1, MainActor, CallOnTheWay, OnTheWayKeeps
<1>7. ASSUME NEW p \in Programs, Launch(p) \/ Open(p) PROVE SoloInv'
  BY <1>7, LaunchSolo, OpenSolo
<1>8. ASSUME NEW p \in Programs, Leave(p) \/ LeaveByRequest(p) \/ Fail(p) PROVE SoloInv'
  BY <1>8, LeftSolo
<1>9. ASSUME NEW p \in Programs, End(p) \/ Die(p) PROVE SoloInv'
  BY <1>9, StoppedSolo DEF End, Die
<1>10. CASE UNCHANGED vars
  <2>1. call' = call /\ UNCHANGED <<task, exit, missed, pc, current, runs, shared>>
    BY <1>10 DEF vars, files, programs, threads, history
  <2> QED BY <2>1, CallOnTheWay, OnTheWayKeeps
<1> QED BY <1>1, <1>2, <1>3, <1>4, <1>5, <1>6, <1>7, <1>8, <1>9, <1>10 DEF Next

\* Of a run that had the workspace for itself: its entry is closed only after the graceful
\* record of the same run was written or could not be, for any number of runs, subagents
\* and crashes, and whichever writes fail (persist_recovery_for_cli, complete_run_task).
THEOREM ClosedEntriesAreRecorded == Spec => []ClosedAfterRecord
<1>1. Spec => []SoloInv
  BY InitSolo, StepSolo, Invariance, PTL DEF Spec
<1>2. IInv /\ SoloInv => ClosedAfterRecord
  <2> SUFFICES ASSUME IInv, SoloInv, Readable, ~shared, task.run = runs, task.status = "completed"
               PROVE  Recorded
    BY DEF ClosedAfterRecord, Recorded
  <2>1. task \in Entries /\ Settled(task)
    BY DEF IInv, TypeInv, SoloInv, SettledInv, Readable
  <2> QED BY <2>1 DEF Settled
<1> QED BY <1>1, <1>2, Invariance, PTL

-----------------------------------------------------------------------------
(* What no update was lost for is in the ledger.                           *)

\* Nothing but the calls in "own" knows of the run.
Fresh(run, own, file, calls, ch) ==
    /\ file.run # run
    /\ \A a \in Actors \ own : calls[a].copy.run # run
    /\ \A c \in Children : ch[c].under # run

\* Runs are told apart by their numbers.
NumberInv ==
    /\ task.run <= runs
    /\ \A a \in Actors : call[a].copy.run <= runs
    /\ \A c \in Children : child[c].under <= runs
    /\ \A p \in Programs : current[p] <= runs
    /\ \A p, q \in Programs : Up(p) /\ Up(q) /\ current[p] = current[q] => p = q

\* Until its entry is written, nothing is recorded in a run.
Unwritten(a) == call[a].what = "start" /\ call[a].at \in {"truncate", "write"}
FreshInv ==
    /\ \A p \in Programs : pc[p] = "setup" => Fresh(current[p], {}, task, call, child)
    /\ \A a \in Actors : call[a].what = "start" =>
          /\ pc[Program(a)] \notin {"off", "setup"} /\ a = Main(Program(a))
          /\ call[a].copy.run = current[Program(a)]
    /\ \A a \in Actors : Unwritten(a) => Fresh(call[a].copy.run, {a}, task, call, child)

\* An entry lists the processes recorded in its run that still run.
Keeps(e, ch) ==
    \A c \in Children : ch[c].state = "alive" /\ ch[c].under = e.run =>
        c \in DOMAIN e.listed /\ e.listed[c] = "running"

\* So does the file and, unless the file was written since, the copy an update will write.
Current(k) == k.at \in {"truncate", "write"} /\ k.what # "start" /\ ~k.stale
Tracks(k) ==
    k.what = "track" /\ k.at # "load" =>
        k.child \in DOMAIN k.copy.listed /\ k.copy.listed[k.child] = "running"
KeepInv ==
    /\ ~lost /\ task \in Entries => Keeps(task, child)
    /\ \A a \in Actors : Tracks(call[a]) /\ (~lost /\ Current(call[a]) => Keeps(call[a].copy, child))

ListInv == NumberInv /\ FreshInv /\ KeepInv

LEMMA RunNumbers ==
    ASSUME IInv
    PROVE  /\ task.run \in Nat /\ runs \in Nat
           /\ \A a \in Actors : call[a].copy.run \in Nat
           /\ \A c \in Children : child[c].under \in Nat
           /\ \A p \in Programs : current[p] \in Nat /\ (Up(p) => current[p] # 0)
<1>1. Absent.run = 0 /\ Unreadable.run = 0 /\ \A e \in Entries : e.run \in Nat
  BY BoundsAssumption DEF Absent, Unreadable, NoEntry, Entries
<1>2. \A p \in Programs : current[p] \in Nat /\ (Up(p) => current[p] # 0)
  BY BoundsAssumption DEF IInv, TypeInv, RunInv
<1>3. \A a \in Actors : call[a].copy \in Entries \cup {Absent}
  BY DEF IInv, TypeInv, LedgerCalls
<1>4. \A c \in Children : child[c].under \in Nat
  BY BoundsAssumption DEF IInv, TypeInv, Processes
<1>5. task.run \in Nat /\ runs \in Nat
  BY <1>1, BoundsAssumption DEF IInv, TypeInv
<1> QED BY <1>1, <1>2, <1>3, <1>4, <1>5

LEMMA EntryRuns == /\ Absent.run = 0 /\ Unreadable.run = 0 /\ Idle.copy.run = 0
                   /\ \A e \in Entries : e.run \in Nat /\ e.run # 0
BY BoundsAssumption DEF Absent, Unreadable, NoEntry, Entries, Idle, NewCall

\* The threads that write hand the run of their copy on, a load that of the file.
Spreads(writers) ==
    /\ task'.run \in {0, task.run} \cup {call[a].copy.run : a \in writers}
    /\ \A a \in Actors : call'[a].copy.run \in {0, task.run, call[a].copy.run}
    /\ \A c \in Children : child'[c].under \in {0, child[c].under} \cup {call[a].copy.run : a \in writers}

LEMMA FreshStays ==
    ASSUME NEW run, run # 0, NEW own, NEW writers \in SUBSET Actors, writers \cap own = {},
           Spreads(writers), Fresh(run, own, task, call, child)
    PROVE  Fresh(run, own, task', call', child')
BY DEF Spreads, Fresh

\* No run starts, opens or ends.
LEMMA SpreadKeeps ==
    ASSUME IInv, NumberInv, FreshInv, NEW writers \in SUBSET Actors, Spreads(writers),
           UNCHANGED <<pc, current, runs>>,
           \A a \in Actors : call'[a].what = "start" =>
               /\ call[a].what = "start" /\ call'[a].copy.run = call[a].copy.run
               /\ call'[a].at \in {"truncate", "write"} =>
                     a \notin writers /\ call[a].at \in {"truncate", "write"}
    PROVE  NumberInv' /\ FreshInv'
<1>1. NumberInv'
  BY RunNumbers DEF Spreads, NumberInv, Up
<1>2. ASSUME NEW p \in Programs, pc'[p] = "setup"
      PROVE  Fresh(current'[p], {}, task', call', child')
  <2>1. current[p] # 0 /\ current'[p] = current[p] /\ Fresh(current[p], {}, task, call, child)
    BY <1>2, RunNumbers DEF FreshInv, Up
  <2> QED BY <2>1, FreshStays
<1>3. ASSUME NEW a \in Actors, call'[a].what = "start"
      PROVE  /\ pc'[Program(a)] \notin {"off", "setup"} /\ a = Main(Program(a))
             /\ call'[a].copy.run = current'[Program(a)]
  BY <1>3 DEF FreshInv
<1>4. ASSUME NEW a \in Actors, call'[a].what = "start", call'[a].at \in {"truncate", "write"}
      PROVE  Fresh(call'[a].copy.run, {a}, task', call', child')
  <2>1. /\ Fresh(call[a].copy.run, {a}, task, call, child) /\ writers \cap {a} = {}
        /\ call'[a].copy.run = call[a].copy.run /\ call[a].copy.run = current[Program(a)]
        /\ pc[Program(a)] # "off"
    BY <1>4 DEF FreshInv, Unwritten
  <2>2. call[a].copy.run # 0
    BY <2>1, RunNumbers DEF Up, Program, Actors
  <2> QED BY <2>1, <2>2, FreshStays
<1> QED BY <1>1, <1>2, <1>3, <1>4 DEF FreshInv, Unwritten

\* A process that runs ran before, or is recorded nowhere.
Running ==
    \A c \in Children : child'[c].state = "alive" =>
        child'[c].under = 0 \/ (child[c].state = "alive" /\ child'[c].under = child[c].under)

LEMMA RunningKeeps ==
    ASSUME Running, NEW e \in Entries, Keeps(e, child) PROVE Keeps(e, child')
BY EntryRuns DEF Running, Keeps

\* Nothing is written, and no copy is made but of a new entry.
LEMMA SteadyKeeps ==
    ASSUME IInv, KeepInv, Running, task' = task, lost => lost',
           \A a \in Actors : call'[a] = call[a] \/ call'[a].at = "load" \/ call'[a].what = "start"
    PROVE  KeepInv'
<1>1. ASSUME ~lost', task' \in Entries PROVE Keeps(task', child')
  BY <1>1, RunningKeeps DEF KeepInv
<1>2. ASSUME NEW a \in Actors
      PROVE  Tracks(call'[a]) /\ (~lost' /\ Current(call'[a]) => Keeps(call'[a].copy, child'))
  <2>1. CASE call'[a] = call[a]
    <3>1. Current(call[a]) => call[a].copy \in Entries
      BY DEF IInv, TruthInv, Sound, Current
    <3> QED BY <2>1, <3>1, RunningKeeps DEF KeepInv
  <2>2. CASE call'[a].at = "load" \/ call'[a].what = "start"
    BY <2>2 DEF Tracks, Current
  <2> QED BY <1>2, <2>1, <2>2
<1> QED BY <1>1, <1>2 DEF KeepInv

\* A step that leaves the file, the runs and the entries alone.
LEMMA AsideKeeps ==
    ASSUME IInv, ListInv, Running, UNCHANGED <<task, pc, current, runs>>, lost => lost',
           \A c \in Children : child'[c].under \in {0, child[c].under},
           \A a \in Actors : \/ call'[a] = call[a]
                             \/ /\ call'[a].at = "load" /\ call'[a].copy = Absent
                                /\ call'[a].what # "start"
    PROVE  ListInv'
<1>1. Spreads({})
  BY EntryRuns DEF Spreads
<1>2. NumberInv' /\ FreshInv'
  BY <1>1, SpreadKeeps DEF ListInv
<1>3. KeepInv'
  BY SteadyKeeps DEF ListInv
<1> QED BY <1>2, <1>3 DEF ListInv

-----------------------------------------------------------------------------
(* The steps of an update.                                                 *)

LEMMA OvertakingFields ==
    ASSUME IInv, NEW a \in Actors, NEW k, call' = Overtaking(a, k)
    PROVE  /\ call'[a] = k
           /\ \A b \in Actors \ {a} :
                 /\ call'[b].what = call[b].what /\ call'[b].child = call[b].child
                 /\ call'[b].at = call[b].at /\ call'[b].copy = call[b].copy
                 /\ call'[b].stale = (call[b].at # "load")
<1>1. call'[a] = k
  BY DEF Overtaking
<1>2. ASSUME NEW b \in Actors \ {a}
      PROVE  /\ call'[b].what = call[b].what /\ call'[b].child = call[b].child
             /\ call'[b].at = call[b].at /\ call'[b].copy = call[b].copy
             /\ call'[b].stale = (call[b].at # "load")
  <2> DEFINE late == call[b].at # "load"
  <2>1. call'[b] = [call[b] EXCEPT !.stale = late] /\ call[b] \in LedgerCalls
    BY DEF Overtaking, IInv, TypeInv
  <2> HIDE DEF late
  <2>2. /\ call'[b].what = call[b].what /\ call'[b].child = call[b].child
        /\ call'[b].at = call[b].at /\ call'[b].copy = call[b].copy /\ call'[b].stale = late
    BY <2>1 DEF LedgerCalls
  <2> QED BY <2>2 DEF late
<1> QED BY <1>1, <1>2

\* What the others had read before a write is stale after it.
LEMMA OthersAreStale ==
    ASSUME IInv, KeepInv, NEW a \in Actors, NEW k, call' = Overtaking(a, k), NEW b \in Actors \ {a}
    PROVE  Tracks(call'[b]) /\ ~Current(call'[b])
<1>1. /\ call'[b].what = call[b].what /\ call'[b].child = call[b].child
      /\ call'[b].at = call[b].at /\ call'[b].copy = call[b].copy
      /\ call'[b].stale = (call[b].at # "load")
  BY OvertakingFields
<1>2. Tracks(call[b])
  BY DEF KeepInv
<1>3. Tracks(call'[b])
  BY <1>1, <1>2 DEF Tracks
<1>4. ~Current(call'[b])
  BY <1>1 DEF Current
<1> QED BY <1>3, <1>4

LEMMA LoadLists == ASSUME IInv, ListInv, NEW a \in Actors, Load(a) PROVE ListInv'
<1>0. call \in [Actors -> LedgerCalls] /\ UNCHANGED <<task, pc, current, runs, child>> /\ Running
  BY DEF IInv, TypeInv, Load, files, programs, history, Running
<1>1. CASE task \in {Absent, Unreadable}
  <2>1. \A b \in Actors : call'[b] = call[b] \/ call'[b] = Idle
    BY <1>0, <1>1 DEF Load
  <2>2. Idle.at = "load" /\ Idle.copy = Absent /\ Idle.what # "start"
    BY DEF Idle, NewCall
  <2>3. lost => lost'
    BY <1>1 DEF Load
  <2> QED BY <1>0, <2>1, <2>2, <2>3, AsideKeeps
<1>2. CASE task \notin {Absent, Unreadable}
  <2> DEFINE what == call[a].what
             e == Updated(task, what, call[a].child)
             mid == [call EXCEPT ![a].at = "truncate"]
  <2>1. /\ task \in Entries /\ what \in {"goal", "complete", "track", "untrack"}
        /\ what \in {"track", "untrack"} => call[a].child \in Children
        /\ what = "untrack" => Over(call[a].child, child)
    BY <1>0, <1>2 DEF IInv, TypeInv, TruthInv, Load, LedgerCalls, Sound
  <2>2. /\ mid \in [Actors -> LedgerCalls] /\ mid[a].at = "truncate"
        /\ mid[a].what = what /\ mid[a].child = call[a].child /\ mid[a].stale = call[a].stale
        /\ \A b \in Actors \ {a} : mid[b] = call[b]
    BY <1>0 DEF LedgerCalls
  <2>3. call' = [mid EXCEPT ![a].copy = e] /\ lost' = lost
    BY <1>2 DEF Load
  <2>4. e.run = task.run
    BY <2>1 DEF Updated, Entries
  <2>5. Keeps(task, child) => Keeps(e, child)
    BY <2>1, <2>4, ListedType DEF Keeps, Updated, Entries, Over
  <2>6. what = "track" => call[a].child \in DOMAIN e.listed /\ e.listed[call[a].child] = "running"
    BY <2>1 DEF Updated, Entries
  <2> HIDE DEF e, mid
  <2>7. /\ call'[a].at = "truncate" /\ call'[a].what = what /\ call'[a].child = call[a].child
        /\ call'[a].copy = e
        /\ \A b \in Actors \ {a} : call'[b] = call[b]
    BY <2>2, <2>3 DEF LedgerCalls
  <2>8. Spreads({})
    BY <1>0, <2>4, <2>7 DEF Spreads
  <2>9. NumberInv' /\ FreshInv'
    BY <1>0, <2>1, <2>7, <2>8, SpreadKeeps DEF ListInv
  <2>10. KeepInv'
    BY <1>0, <2>1, <2>3, <2>5, <2>6, <2>7 DEF ListInv, KeepInv, Tracks, Current
  <2> QED BY <2>9, <2>10 DEF ListInv
<1> QED BY <1>1, <1>2

LEMMA TruncateLists == ASSUME IInv, ListInv, NEW a \in Actors, Truncate(a) PROVE ListInv'
<1> DEFINE k == [call[a] EXCEPT !.at = "write"]
<1>1. /\ k.at = "write" /\ k.what = call[a].what /\ k.child = call[a].child
      /\ k.copy = call[a].copy /\ k.stale = call[a].stale
  BY DEF IInv, TypeInv, LedgerCalls
<1>2. /\ call' = Overtaking(a, k) /\ call[a].at = "truncate" /\ task' = Unreadable
      /\ UNCHANGED <<pc, current, runs, child, lost>>
  BY DEF Truncate, programs, history
<1> HIDE DEF k
<1>3. /\ call'[a] = k
      /\ \A b \in Actors \ {a} : /\ call'[b].what = call[b].what /\ call'[b].at = call[b].at
                                 /\ call'[b].copy = call[b].copy
  BY <1>2, OvertakingFields
<1>4. Spreads({})
  BY <1>1, <1>2, <1>3, EntryRuns DEF Spreads
<1>5. NumberInv' /\ FreshInv'
  BY <1>1, <1>2, <1>3, <1>4, SpreadKeeps DEF ListInv
<1>6. KeepInv'
  <2>1. Tracks(call'[a]) /\ (~lost' /\ Current(call'[a]) => Keeps(call'[a].copy, child'))
    BY <1>1, <1>2, <1>3 DEF ListInv, KeepInv, Tracks, Current
  <2>2. \A b \in Actors \ {a} : Tracks(call'[b]) /\ ~Current(call'[b])
    BY <1>2, OthersAreStale DEF ListInv
  <2> QED BY <1>2, <2>1, <2>2, NothingListed DEF KeepInv
<1> QED BY <1>5, <1>6 DEF ListInv

LEMMA WriteLists == ASSUME IInv, ListInv, NEW a \in Actors, Write(a) PROVE ListInv'
<1> DEFINE half == [call[a] EXCEPT !.at = "prompt"]
           k == [half EXCEPT !.stale = FALSE]
           e == call[a].copy
           c0 == call[a].child
<1>0. half \in LedgerCalls /\ half.at = "prompt" /\ half.what = call[a].what /\ half.child = c0 /\ half.copy = e
  <2>1. call[a] \in LedgerCalls
    BY DEF IInv, TypeInv
  <2> QED BY <2>1 DEF LedgerCalls
<1> HIDE DEF half
<1>1. k.at = "prompt" /\ k.what = call[a].what /\ k.child = c0 /\ k.copy = e
  BY <1>0 DEF LedgerCalls
<1>2. /\ call' = Overtaking(a, k) /\ call[a].at = "write" /\ task' = e
      /\ UNCHANGED <<pc, current, runs>>
      /\ lost' = IF call[a].what = "start" THEN call[a].stale ELSE lost \/ call[a].stale
      /\ child' = IF call[a].what # "track" THEN child ELSE [child EXCEPT ![c0].under = e.run]
  BY DEF Write, programs, history, half
<1> HIDE DEF k
<1>3. /\ call'[a] = k
      /\ \A b \in Actors \ {a} : /\ call'[b].what = call[b].what /\ call'[b].at = call[b].at
                                 /\ call'[b].copy = call[b].copy
  BY <1>2, OvertakingFields
<1>4. child \in [Children -> Processes] /\ e \in Entries /\ Tracks(call[a])
  BY <1>2 DEF IInv, TypeInv, TruthInv, Sound, ListInv, KeepInv
<1>5. \A c \in Children : /\ child'[c].state = child[c].state
                          /\ child'[c].under = IF call[a].what = "track" /\ c = c0 THEN e.run
                                               ELSE child[c].under
  BY <1>2, <1>4 DEF Processes
<1>6. Spreads({a})
  BY <1>1, <1>2, <1>3, <1>5 DEF Spreads
<1>7. NumberInv' /\ FreshInv'
  BY <1>1, <1>2, <1>3, <1>6, SpreadKeeps DEF ListInv
<1>8. ASSUME ~lost' PROVE Keeps(task', child')
  <2>1. CASE call[a].what = "start"
    <3>1. Fresh(e.run, {a}, task, call, child)
      BY <1>2, <2>1 DEF ListInv, FreshInv, Unwritten
    <3> QED BY <1>2, <1>5, <2>1, <3>1 DEF Keeps, Fresh
  <2>2. CASE call[a].what # "start"
    <3>1. Keeps(e, child)
      BY <1>2, <1>8, <2>2 DEF ListInv, KeepInv, Current
    <3> QED BY <1>2, <1>4, <1>5, <3>1 DEF Keeps, Tracks
  <2> QED BY <2>1, <2>2
<1>9. KeepInv'
  <2>1. Tracks(call'[a]) /\ ~Current(call'[a])
    BY <1>1, <1>2, <1>3, <1>4 DEF Tracks, Current
  <2>2. \A b \in Actors \ {a} : Tracks(call'[b]) /\ ~Current(call'[b])
    BY <1>2, OthersAreStale DEF ListInv
  <2> QED BY <1>8, <2>1, <2>2 DEF KeepInv
<1> QED BY <1>7, <1>9 DEF ListInv

\* The call is over: it failed, or rendered its copy.
LEMMA OverLists ==
    ASSUME IInv, ListInv, NEW a \in Actors, WriteFails(a) \/ WritePrompt(a) PROVE ListInv'
<1>1. call' = [call EXCEPT ![a] = Idle] /\ UNCHANGED <<task, pc, current, runs, child>> /\ (lost => lost')
  BY DEF WriteFails, WritePrompt, files, programs, history
<1>2. \A b \in Actors : call'[b] = call[b] \/ call'[b] = Idle
  BY <1>1 DEF IInv, TypeInv
<1>3. Idle.at = "load" /\ Idle.copy = Absent /\ Idle.what # "start"
  BY DEF Idle, NewCall
<1> QED BY <1>1, <1>2, <1>3, AsideKeeps DEF Running

-----------------------------------------------------------------------------
(* The processes and the runs.                                             *)

\* A process changes, and a call begins or none does.
LEMMA ProcessLists ==
    ASSUME IInv, ListInv, UNCHANGED <<task, pc, current, runs, lost>>,
           NEW c \in Children, NEW new \in Processes, child' = [child EXCEPT ![c] = new],
           new.state = "alive" => new.under = 0, new.under \in {0, child[c].under},
           \/ call' = call
           \/ \E a \in Actors, what \in {"track", "untrack"} : Calling(a, what, c)
    PROVE  ListInv'
<1>1. Running /\ \A d \in Children : child'[d].under \in {0, child[d].under}
  BY DEF IInv, TypeInv, Running
<1>2. ASSUME NEW a \in Actors
      PROVE  call'[a] = call[a] \/ (call'[a].at = "load" /\ call'[a].copy = Absent /\ call'[a].what # "start")
  <2>1. \A what \in {"track", "untrack"} :
            LET k == NewCall(what, c) IN k.at = "load" /\ k.copy = Absent /\ k.what # "start"
    BY DEF NewCall
  <2> QED BY <2>1 DEF Calling, IInv, TypeInv
<1> QED BY <1>1, <1>2, AsideKeeps

LEMMA NewProcesses ==
    /\ Gone \in Processes /\ Gone.state = "gone" /\ Gone.under = 0
    /\ \A a \in Actors, server \in BOOLEAN :
          Spawned(a, server) \in Processes /\ Spawned(a, server).under = 0
<1>1. Gone.under = 0 /\ \A a, server : Spawned(a, server).under = 0
  BY DEF Gone, Spawned, Process
<1> QED BY <1>1, ProcessTypes

LEMMA ChildLists ==
    ASSUME IInv, ListInv, NEW c \in Children,
           \/ ChildExits(c)
           \/ \E a \in Actors : RunCommand(a, c) \/ (awaited[a] = c /\ CommandOver(a))
           \/ \E p \in Programs : SpawnServer(p, c) \/ ReclaimServer(p, c) \/ KillServer(p, c)
    PROVE  ListInv'
<1>1. CASE ChildExits(c)
  BY <1>1, NewProcesses, ProcessLists DEF ChildExits, files, programs, threads, history
<1>2. ASSUME NEW a \in Actors, RunCommand(a, c) PROVE ListInv'
  BY <1>2, NewProcesses, ProcessLists DEF RunCommand, files, programs, history
<1>3. ASSUME NEW a \in Actors, awaited[a] = c, CommandOver(a) PROVE ListInv'
  <2>1. child' = [child EXCEPT ![c] = Gone] /\ Calling(a, "untrack", c)
    BY <1>3 DEF CommandOver
  <2> QED BY <1>3, <2>1, NewProcesses, ProcessLists DEF CommandOver, files, programs, history
<1>4. ASSUME NEW p \in Programs, SpawnServer(p, c) PROVE ListInv'
  BY <1>4, MainActor, NewProcesses, ProcessLists DEF SpawnServer, files, programs, history
<1>5. ASSUME NEW p \in Programs, ReclaimServer(p, c) PROVE ListInv'
  <2>0. /\ Calling(Main(p), "untrack", c) /\ UNCHANGED <<task, pc, current, runs, lost>>
    BY <1>5 DEF ReclaimServer, files, programs, history
  <2>1. CASE child' = [child EXCEPT ![c] = Gone]
    BY <2>0, <2>1, MainActor, NewProcesses, ProcessLists
  <2>2. CASE child' = [child EXCEPT ![c].state = "refused"]
    <3> DEFINE new == [child[c] EXCEPT !.state = "refused"]
    <3>1. new \in Processes /\ new.state = "refused" /\ new.under = child[c].under
      BY DEF IInv, TypeInv, Processes
    <3>2. child' = [child EXCEPT ![c] = new]
      BY <2>2
    <3> HIDE DEF new
    <3> QED BY <2>0, <3>1, <3>2, MainActor, ProcessLists
  <2> QED BY <1>5, <2>1, <2>2 DEF ReclaimServer
<1>6. ASSUME NEW p \in Programs, KillServer(p, c) PROVE ListInv'
  BY <1>6, NewProcesses, ProcessLists DEF KillServer, files, programs, threads, history
<1> QED BY <1>1, <1>2, <1>3, <1>4, <1>5, <1>6

LEMMA StayLists == ASSUME IInv, ListInv, NEW p \in Programs, StartAgent(p) \/ NoteGoal(p) PROVE ListInv'
<1>1. UNCHANGED <<task, pc, current, runs, child, lost>> /\ (call' = call \/ Calling(Main(p), "goal", Nobody))
  BY DEF StartAgent, NoteGoal, files, threads, history
<1>2. \A a \in Actors : call'[a] = call[a] \/ call'[a] = NewCall("goal", Nobody)
  BY <1>1, MainActor DEF Calling, IInv, TypeInv
<1> QED BY <1>1, <1>2, AsideKeeps DEF Running, NewCall

LEMMA LaunchLists == ASSUME IInv, ListInv, NEW p \in Programs, Launch(p) PROVE ListInv'
<1>1. /\ ~Up(p) /\ runs' = runs + 1 /\ current' = [current EXCEPT ![p] = runs']
      /\ pc' = [pc EXCEPT ![p] = "setup"] /\ UNCHANGED <<task, call, child, lost>>
  BY DEF Launch, files, threads
<1>2. /\ \A q \in Programs : /\ current'[q] = IF q = p THEN runs' ELSE current[q]
                             /\ pc'[q] = IF q = p THEN "setup" ELSE pc[q]
  BY <1>1 DEF IInv, TypeInv
<1>3. NumberInv'
  <2>1. ASSUME NEW q \in Programs, NEW r \in Programs, Up(q)', Up(r)', current'[q] = current'[r]
        PROVE  q = r
    BY <1>1, <1>2, <2>1, RunNumbers DEF ListInv, NumberInv, Up
  <2>2. task'.run <= runs'
    BY <1>1, RunNumbers DEF ListInv, NumberInv
  <2>3. \A a \in Actors : call'[a].copy.run <= runs'
    BY <1>1, RunNumbers DEF ListInv, NumberInv
  <2>4. \A c \in Children : child'[c].under <= runs'
    BY <1>1, RunNumbers DEF ListInv, NumberInv
  <2>5. \A q \in Programs : current'[q] <= runs'
    BY <1>1, <1>2, RunNumbers DEF ListInv, NumberInv
  <2> QED BY <2>1, <2>2, <2>3, <2>4, <2>5 DEF NumberInv
<1>4. Fresh(runs', {}, task', call', child')
  <2>1. \A n \in Nat : n <= runs => n # runs'
    BY <1>1, RunNumbers
  <2> QED BY <1>1, <2>1, RunNumbers DEF ListInv, NumberInv, Fresh
<1>5. ASSUME NEW q \in Programs, pc'[q] = "setup" PROVE Fresh(current'[q], {}, task', call', child')
  BY <1>1, <1>2, <1>4, <1>5 DEF ListInv, FreshInv
<1>6. ASSUME NEW a \in Actors, call'[a].what = "start"
      PROVE  /\ pc'[Program(a)] \notin {"off", "setup"} /\ a = Main(Program(a))
             /\ call'[a].copy.run = current'[Program(a)]
  <2>1. /\ Program(a) \in Programs /\ pc[Program(a)] \notin {"off", "setup"} /\ a = Main(Program(a))
        /\ call[a].copy.run = current[Program(a)]
    BY <1>1, <1>6 DEF ListInv, FreshInv, Program, Actors
  <2>2. Program(a) # p
    BY <1>1, <2>1 DEF Up
  <2> QED BY <1>1, <1>2, <2>1, <2>2
<1>7. FreshInv'
  BY <1>1, <1>5, <1>6 DEF ListInv, FreshInv, Unwritten
<1>8. KeepInv'
  BY <1>1, SteadyKeeps DEF ListInv, Running
<1> QED BY <1>3, <1>7, <1>8 DEF ListInv

LEMMA OpenLists == ASSUME IInv, ListInv, NEW p \in Programs, Open(p) PROVE ListInv'
<1> DEFINE k == Opening(current[p])
<1>0. /\ pc[p] = "setup" /\ pc' = [pc EXCEPT ![p] = "running"]
      /\ call' = [call EXCEPT ![Main(p)] = k] /\ UNCHANGED <<task, current, runs, child, lost>>
  BY DEF Open, history
<1>1. k.what = "start" /\ k.copy.run = current[p]
  <2>1. k.what = "start" /\ k.copy = Entry(current[p])
    BY DEF Opening
  <2> HIDE DEF k
  <2> QED BY <2>1 DEF Entry
<1> HIDE DEF k
<1>2. /\ \A a \in Actors : call'[a] = IF a = Main(p) THEN k ELSE call[a]
      /\ \A q \in Programs : pc'[q] = IF q = p THEN "running" ELSE pc[q]
  BY <1>0 DEF IInv, TypeInv
<1>3. Up(p) /\ \A q \in Programs : Up(q)' <=> Up(q)
  BY <1>0, <1>2 DEF Up
<1>4. NumberInv'
  BY <1>0, <1>1, <1>2, <1>3 DEF ListInv, NumberInv
<1>5. Fresh(current[p], {}, task, call, child) /\ Program(Main(p)) = p
  BY <1>0 DEF ListInv, FreshInv, Program, Main
<1>6. ASSUME NEW q \in Programs, pc'[q] = "setup" PROVE Fresh(current'[q], {}, task', call', child')
  <2>1. q # p /\ pc[q] = "setup" /\ current[q] # current[p]
    BY <1>0, <1>2, <1>3, <1>6 DEF ListInv, NumberInv, Up
  <2> QED BY <1>0, <1>1, <1>2, <2>1 DEF ListInv, FreshInv, Fresh
<1>7. ASSUME NEW a \in Actors, call'[a].what = "start"
      PROVE  /\ pc'[Program(a)] \notin {"off", "setup"} /\ a = Main(Program(a))
             /\ call'[a].copy.run = current'[Program(a)]
  <2>1. CASE a = Main(p)
    BY <1>0, <1>1, <1>2, <1>5, <2>1
  <2>2. CASE a # Main(p)
    <3>1. /\ Program(a) \in Programs /\ pc[Program(a)] \notin {"off", "setup"} /\ a = Main(Program(a))
          /\ call[a].copy.run = current[Program(a)]
      BY <1>2, <1>7, <2>2 DEF ListInv, FreshInv, Program, Actors
    <3> QED BY <1>0, <1>2, <2>2, <3>1
  <2> QED BY <2>1, <2>2
<1>8. ASSUME NEW a \in Actors, call'[a].what = "start", call'[a].at \in {"truncate", "write"}
      PROVE  Fresh(call'[a].copy.run, {a}, task', call', child')
  <2>1. CASE a = Main(p)
    BY <1>0, <1>1, <1>2, <1>5, <2>1 DEF Fresh
  <2>2. CASE a # Main(p)
    <3>1. /\ Fresh(call[a].copy.run, {a}, task, call, child) /\ Program(a) \in Programs
          /\ pc[Program(a)] \notin {"off", "setup"} /\ call[a].copy.run = current[Program(a)]
      BY <1>2, <1>8, <2>2 DEF ListInv, FreshInv, Unwritten, Program, Actors
    <3>2. call[a].copy.run # current[p]
      BY <1>0, <1>3, <3>1 DEF ListInv, NumberInv, Up
    <3> QED BY <1>0, <1>1, <1>2, <2>2, <3>1, <3>2 DEF Fresh
  <2> QED BY <2>1, <2>2
<1>9. FreshInv'
  BY <1>6, <1>7, <1>8 DEF FreshInv, Unwritten
<1>10. KeepInv'
  BY <1>0, <1>1, <1>2, SteadyKeeps DEF ListInv, Running
<1> QED BY <1>4, <1>9, <1>10 DEF ListInv

\* Of a run that is left or ends, its number is not given again.
LEMMA LeftLists ==
    ASSUME IInv, ListInv, NEW p \in Programs,
           pc[p] # "off", pc'[p] # "setup", \A q \in Programs \ {p} : pc'[q] = pc[q] /\ current'[q] = current[q],
           current'[p] = current[p] \/ (current'[p] = 0 /\ pc'[p] = "off"),
           UNCHANGED <<task, runs>>, lost => lost',
           \A c \in Children : child'[c].state = child[c].state /\ child'[c].under = child[c].under,
           \A a \in Actors : \/ call'[a] = call[a] /\ (Program(a) = p => pc'[p] # "off" /\ pc[p] # "setup" )
                             \/ call'[a].at = "load" /\ call'[a].copy = Absent /\ call'[a].what # "start"
                             \/ call'[a] = call[a] /\ Program(a) # p
    PROVE  ListInv'
<1>1. Spreads({})
  BY EntryRuns DEF Spreads
<1>2. NumberInv'
  BY <1>1, RunNumbers DEF ListInv, NumberInv, Spreads, Up
<1>3. ASSUME NEW q \in Programs, pc'[q] = "setup" PROVE Fresh(current'[q], {}, task', call', child')
  <2>1. q # p /\ Fresh(current[q], {}, task, call, child) /\ current'[q] = current[q] /\ current[q] # 0
    BY <1>3, RunNumbers DEF ListInv, FreshInv, Up
  <2> QED BY <1>1, <2>1, FreshStays
<1>4. ASSUME NEW a \in Actors, call'[a].what = "start"
      PROVE  /\ pc'[Program(a)] \notin {"off", "setup"} /\ a = Main(Program(a))
             /\ call'[a] = call[a] /\ call'[a].copy.run = current'[Program(a)]
  <2>1. call'[a] = call[a] /\ Program(a) \in Programs
    BY <1>4 DEF Program, Actors
  <2>2. /\ pc[Program(a)] \notin {"off", "setup"} /\ a = Main(Program(a))
        /\ call[a].copy.run = current[Program(a)]
    BY <1>4, <2>1 DEF ListInv, FreshInv
  <2> QED BY <1>4, <2>1, <2>2
<1>5. ASSUME NEW a \in Actors, call'[a].what = "start", call'[a].at \in {"truncate", "write"}
      PROVE  Fresh(call'[a].copy.run, {a}, task', call', child')
  <2>1. /\ call'[a] = call[a] /\ call[a].copy.run = current[Program(a)] /\ Program(a) \in Programs
        /\ pc[Program(a)] # "off" /\ Fresh(call[a].copy.run, {a}, task, call, child)
    BY <1>4, <1>5 DEF ListInv, FreshInv, Unwritten, Program, Actors
  <2>2. call[a].copy.run # 0
    BY <2>1, RunNumbers DEF Up
  <2> QED BY <1>1, <2>1, <2>2, FreshStays
<1>6. FreshInv'
  BY <1>3, <1>4, <1>5 DEF FreshInv, Unwritten
<1>7. KeepInv'
  BY SteadyKeeps DEF ListInv, Running
<1> QED BY <1>2, <1>6, <1>7 DEF ListInv

LEMMA LeaveLists ==
    ASSUME IInv, ListInv, NEW p \in Programs, Leave(p) \/ LeaveByRequest(p) \/ Fail(p)
    PROVE  ListInv'
<1>1. /\ pc[p] \in {"running", "completing"} /\ pc'[p] \in {"completing", "closing"}
      /\ \A q \in Programs \ {p} : pc'[q] = pc[q]
      /\ UNCHANGED <<task, current, runs, child, lost>>
      /\ call' = call \/ Calling(Main(p), "complete", Nobody)
  <2>0. pc \in [Programs -> {"off", "setup", "running", "completing", "closing"}]
    BY DEF IInv, TypeInv
  <2>1. CASE Leave(p)
    <3>1. CASE pc[p] = "running"
      BY <2>0, <2>1, <3>1 DEF Leave
    <3>2. CASE pc[p] = "completing"
      BY <2>0, <2>1, <3>2 DEF Leave
    <3> QED BY <2>1, <3>1, <3>2 DEF Leave
  <2>2. CASE LeaveByRequest(p)
    BY <2>2 DEF LeaveByRequest, threads, IInv, TypeInv
  <2>3. CASE Fail(p)
    BY <2>3 DEF Fail, files, threads, IInv, TypeInv
  <2> QED BY <2>1, <2>2, <2>3
<1>2. \A a \in Actors : call'[a] = call[a] \/ call'[a] = NewCall("complete", Nobody)
  BY <1>1, MainActor DEF Calling, IInv, TypeInv
<1>3. NewCall("complete", Nobody).at = "load" /\ NewCall("complete", Nobody).copy = Absent
      /\ NewCall("complete", Nobody).what # "start"
  BY DEF NewCall
<1> QED BY <1>1, <1>2, <1>3, LeftLists

LEMMA StoppedLists == ASSUME IInv, ListInv, NEW p \in Programs, Up(p), Stopped(p) PROVE ListInv'
<1>1. /\ pc' = [pc EXCEPT ![p] = "off"] /\ current' = [current EXCEPT ![p] = 0]
      /\ UNCHANGED <<task, runs>> /\ (lost => lost')
      /\ \A a \in Actors : call'[a] = IF Program(a) = p THEN Idle ELSE call[a]
  BY DEF Stopped, files
<1>4. \A c \in Children : child'[c].state = child[c].state /\ child'[c].under = child[c].under
  BY StoppedLeaves
<1>2. Idle.at = "load" /\ Idle.copy = Absent /\ Idle.what # "start"
  BY DEF Idle, NewCall
<1>3. /\ pc'[p] = "off" /\ current'[p] = 0
      /\ \A q \in Programs \ {p} : pc'[q] = pc[q] /\ current'[q] = current[q]
  BY <1>1 DEF IInv, TypeInv
<1> QED BY <1>1, <1>2, <1>3, <1>4, LeftLists DEF Up

LEMMA InitLists == Init => ListInv
<1> SUFFICES ASSUME Init PROVE ListInv
    OBVIOUS
<1>1. \A a \in Actors : call[a] = Idle
  BY DEF Init
<1>2. Idle.at = "load" /\ Idle.copy = Absent /\ Idle.what # "start" /\ Absent.run = 0 /\ runs = 0
  BY EntryRuns DEF Init, Idle, NewCall
<1>3. \A c \in Children : child[c].under = 0
  BY DEF Init, Unused, Process
<1>4. NumberInv
  BY <1>1, <1>2, <1>3 DEF Init, NumberInv, Up
<1>5. FreshInv
  BY <1>1, <1>2 DEF Init, FreshInv, Unwritten
<1>6. KeepInv
  BY <1>1, <1>2, NothingListed DEF Init, KeepInv, Tracks, Current
<1> QED BY <1>4, <1>5, <1>6 DEF ListInv

LEMMA StepLists == IInv /\ ListInv /\ [Next]_vars => ListInv'
<1> SUFFICES ASSUME IInv, ListInv, [Next]_vars PROVE ListInv'
    OBVIOUS
<1>1. ASSUME NEW a \in Actors,
             Load(a) \/ Truncate(a) \/ WriteFails(a) \/ Write(a) \/ WritePrompt(a)
      PROVE  ListInv'
  BY <1>1, LoadLists, TruncateLists, WriteLists, OverLists
<1>2. ASSUME NEW a \in Actors, CommandOver(a) PROVE ListInv'
  <2>1. awaited[a] \in Children
    BY <1>2 DEF CommandOver, IInv, TypeInv
  <2> QED BY <1>2, <2>1, ChildLists
<1>3. ASSUME NEW a \in Actors, NEW c \in Children, RunCommand(a, c) PROVE ListInv'
  BY <1>3, ChildLists
<1>4. ASSUME NEW c \in Children, ChildExits(c) PROVE ListInv'
  BY <1>4, ChildLists
<1>5. ASSUME NEW p \in Programs, NEW c \in Children,
             SpawnServer(p, c) \/ ReclaimServer(p, c) \/ KillServer(p, c)
      PROVE  ListInv'
  BY <1>5, ChildLists
<1>6. ASSUME NEW p \in Programs, Launch(p) \/ Open(p) \/ StartAgent(p) \/ NoteGoal(p) PROVE ListInv'
  BY <1>6, LaunchLists, OpenLists, StayLists
<1>7. ASSUME NEW p \in Programs, Leave(p) \/ LeaveByRequest(p) \/ Fail(p) PROVE ListInv'
  BY <1>7, LeaveLists
<1>8. ASSUME NEW p \in Programs, End(p) \/ Die(p) PROVE ListInv'
  <2>1. Up(p) /\ Stopped(p)
    BY <1>8 DEF End, Die, Up
  <2> QED BY <2>1, StoppedLists
<1>9. CASE UNCHANGED vars
  <2>1. UNCHANGED <<task, pc, current, runs, child, call, lost>>
    BY <1>9 DEF vars, files, programs, threads, history
  <2> QED BY <2>1, AsideKeeps DEF Running
<1> QED BY <1>1, <1>2, <1>3, <1>4, <1>5, <1>6, <1>7, <1>8, <1>9 DEF Next

\* For any number of programs, subagents, processes and runs: unless an update was overtaken,
\* refused or cut short since the entry was opened, a process recorded in the entry's run that
\* still runs is listed as running (track_process).
THEOREM LiveProcessesAreListed == Spec => []LiveIsListed
<1>1. Spec => []ListInv
  BY InitLists, StepLists, Invariance, PTL DEF Spec
<1>2. IInv /\ ListInv => LiveIsListed
  <2> SUFFICES ASSUME IInv, ListInv, Readable, ~lost, NEW c \in Children,
                      child[c].state = "alive", child[c].under = task.run
               PROVE  Listed(c) = "running"
    BY DEF LiveIsListed
  <2>1. Keeps(task, child)
    BY DEF IInv, TypeInv, ListInv, KeepInv, Readable
  <2> QED BY <2>1 DEF Keeps, Listed
<1> QED BY <1>1, <1>2, Invariance, PTL

-----------------------------------------------------------------------------
(* What a run that ended well leaves behind.                               *)

\* Only a program that is up has threads, and only a running one opens its entry.
OffInv ==
    /\ \A p \in agents : Up(p)
    /\ \A a \in Actors :
          /\ call[a] # Idle \/ awaited[a] # Nobody => Up(Program(a))
          /\ call[a].what = "start" => pc[Program(a)] = "running"
          /\ call[a].what = "complete" /\ call[a].at # "load" => call[a].copy.status = "completed"

\* Unless an update was lost, the prompt follows the last run's entry or was missed, and
\* an empty file is about to be filled.
PromptInv ==
    ~lost =>
        /\ \A a \in Actors : call[a].at = "prompt" /\ ~call[a].stale => task = call[a].copy
        /\ Readable /\ task.run = runs /\ (\A a \in Actors : call[a].at # "prompt") =>
              "prompt" \in missed \/ prompt = Rendered(task)
        /\ task = Unreadable => \E a \in Actors : call[a].at = "write"

\* A run that is alone has its own entry from its opening on, and hands it on.
Opened(p) == pc[p] \notin {"off", "setup"} /\ ~Unwritten(Main(p))
OwnInv ==
    ~lost /\ ~shared =>
        \A p \in Programs : Opened(p) =>
            /\ task = Unreadable \/ (task \in Entries /\ task.run = runs)
            /\ \A a \in Actors : Current(call[a]) => call[a].copy.run = runs

\* Once it is closed, so is every copy that may still be written.
Completed(p) == call[Main(p)].what = "complete" => call[Main(p)].at = "prompt"
ClosedFor(p) ==
    /\ task \in Entries => task.status = "completed"
    /\ \A a \in Actors : Current(call[a]) => call[a].copy.status = "completed"
WellInv ==
    ~shared /\ ended = "well" =>
        /\ Recorded
        /\ \A p \in Programs : Up(p) => pc[p] = "closing" /\ (~lost /\ Completed(p) => ClosedFor(p))
        /\ ~lost /\ AllOff => task \in Entries /\ task.run = runs /\ task.status = "completed"

FinishInv == OffInv /\ PromptInv /\ OwnInv /\ WellInv

LEMMA IdleIs == /\ Idle.what = "none" /\ Idle.at = "load" /\ Idle.copy = Absent
                /\ \A what, c : LET k == NewCall(what, c)
                                IN  k.what = what /\ k.at = "load" /\ k.copy = Absent
BY DEF Idle, NewCall

\* Nothing is written.
LEMMA PromptStays ==
    ASSUME PromptInv, UNCHANGED <<task, prompt, runs>>, Kept("prompt"), lost => lost',
           \A a \in Actors : \/ call'[a] = call[a]
                             \/ call[a].at \in {"load", "truncate"} /\ call'[a].at \in {"load", "truncate"}
    PROVE  PromptInv'
BY DEF PromptInv, Readable, Kept

\* A step that leaves the files and the runs alone; a call may begin.
LEMMA AsideFinishes ==
    ASSUME IInv, FinishInv, UNCHANGED <<task, prompt, exit, missed, pc, runs, shared, ended>>, lost => lost',
           \A p \in agents' : Up(p),
           \A a \in Actors : awaited'[a] \in {awaited[a], Nobody} \/ Up(Program(a)),
           \A a \in Actors : \/ call'[a] = call[a]
                             \/ /\ call[a] = Idle /\ Up(Program(a))
                                /\ call'[a].at = "load" /\ call'[a].copy = Absent
                                /\ call'[a].what \notin {"start", "complete"}
    PROVE  FinishInv'
<1>1. OffInv'
  BY DEF FinishInv, OffInv, Up
<1>2. PromptInv'
  BY PromptStays, IdleIs DEF FinishInv, Kept
<1>3. \A a \in Actors : Current(call'[a]) => call'[a] = call[a]
  BY DEF Current
<1>4. \A a \in Actors : call'[a] = call[a] \/ (call[a].what = "none" /\ call'[a].what \notin {"start", "complete"})
  BY IdleIs
<1>5. \A p \in Programs : (Opened(p)' <=> Opened(p)) /\ (Completed(p)' <=> Completed(p))
  BY <1>4, MainActor DEF Opened, Unwritten, Completed
<1>6. OwnInv'
  BY <1>3, <1>5 DEF FinishInv, OwnInv
<1>7. WellInv'
  BY <1>3, <1>5 DEF FinishInv, WellInv, ClosedFor, Recorded, AllOff, Up
<1> QED BY <1>1, <1>2, <1>6, <1>7 DEF FinishInv

\* A thread that is in a call: its program is up, and the only one if it is alone.
LEMMA CallerIsUp ==
    ASSUME IInv, SoloInv, FinishInv, NEW a \in Actors, call[a] # Idle
    PROVE  /\ Program(a) \in Programs /\ Up(Program(a)) /\ ~AllOff
           /\ ~shared => current[Program(a)] = runs /\ \A q \in Programs : Up(q) => q = Program(a)
BY DEF FinishInv, OffInv, SoloInv, AloneInv, AllOff, Program, Actors

LEMMA CopyFields ==
    ASSUME IInv, NEW a \in Actors
    PROVE  /\ call[a].at # "load" => call[a].copy \in Entries /\ call[a] # Idle
           /\ call[a].what # "none" => call[a] # Idle
BY IdleIs DEF IInv, TruthInv, Sound

LEMMA StillIdle ==
    ASSUME NEW a \in Actors, NEW k, call' = Overtaking(a, k), NEW b \in Actors \ {a}, call[b] = Idle
    PROVE  call'[b] = Idle
<1> DEFINE late == Idle.at # "load"
<1>1. late = FALSE
  BY IdleIs
<1>2. call'[b] = [Idle EXCEPT !.stale = late]
  BY DEF Overtaking
<1> HIDE DEF late
<1>3. call'[b] = [Idle EXCEPT !.stale = FALSE]
  BY <1>1, <1>2
<1> QED BY <1>3 DEF Idle, NewCall

LEMMA LoadFinishes == ASSUME IInv, SoloInv, FinishInv, NEW a \in Actors, Load(a) PROVE FinishInv'
<1>0. /\ call \in [Actors -> LedgerCalls] /\ call[a].at = "load" /\ call[a].what \notin {"none", "start"}
      /\ UNCHANGED <<task, prompt, exit, missed, pc, current, agents, runs, ended, shared, awaited>>
      /\ call[a] # Idle
  BY CopyFields DEF IInv, TypeInv, TruthInv, Sound, Load, files, programs, history
<1>1. CASE task \in {Absent, Unreadable}
  <2>1. call' = [call EXCEPT ![a] = Idle] /\ (lost => lost')
    BY <1>1 DEF Load
  <2>2. \A b \in Actors : call'[b] = IF b = a THEN Idle ELSE call[b]
    BY <1>0, <2>1
  <2>3. PromptInv'
    BY <1>0, <2>1, <2>2, IdleIs, PromptStays DEF FinishInv, Kept
  <2>4. OffInv'
    BY <1>0, <2>2, IdleIs DEF FinishInv, OffInv, Up
  <2>5. \A p \in Programs : Opened(p)' => Opened(p)
    BY <1>0, <2>2, IdleIs, MainActor DEF Opened, Unwritten
  <2>6. \A b \in Actors : Current(call'[b]) => call'[b] = call[b]
    BY <2>2, IdleIs DEF Current
  <2>7. OwnInv'
    BY <1>0, <2>1, <2>5, <2>6 DEF FinishInv, OwnInv
  <2>8. WellInv'
    <3> SUFFICES ASSUME ~shared, ended = "well" PROVE WellInv'
      BY <1>0 DEF WellInv
    <3>1. Recorded' /\ ~AllOff'
      BY <1>0, CallerIsUp DEF FinishInv, WellInv, Recorded, AllOff, Up
    <3>2. ASSUME NEW p \in Programs, Up(p), ~lost' PROVE ClosedFor(p)'
      <4>1. pc[p] = "closing" /\ p = Program(a)
        BY <1>0, <3>2, CallerIsUp DEF FinishInv, WellInv
      <4>2. Opened(p) /\ ~lost /\ task # Absent
        <5>1. Opened(p) /\ ~lost
          BY <2>1, <3>2, <4>1, MainActor, <1>0 DEF Opened, Unwritten, FinishInv, OffInv, Main, Program, Actors
        <5> QED BY <5>1, NothingListed, <4>1 DEF FinishInv, OwnInv, Unreadable, Absent, NoEntry
      <4>3. task = Unreadable
        BY <1>1, <4>2
      <4>4. lost'
        BY <1>1, <4>3 DEF Load
      <4> QED BY <3>2, <4>4
    <3> QED BY <1>0, <3>1, <3>2 DEF FinishInv, WellInv, Up
  <2> QED BY <2>3, <2>4, <2>7, <2>8 DEF FinishInv
<1>2. CASE task \notin {Absent, Unreadable}
  <2> DEFINE what == call[a].what
             e == Updated(task, what, call[a].child)
             mid == [call EXCEPT ![a].at = "truncate"]
  <2>1. task \in Entries /\ what \in {"goal", "complete", "track", "untrack"}
    BY <1>0, <1>2 DEF IInv, TypeInv, LedgerCalls
  <2>2. /\ mid \in [Actors -> LedgerCalls] /\ mid[a].at = "truncate"
        /\ mid[a].what = what /\ mid[a].stale = call[a].stale
        /\ \A b \in Actors \ {a} : mid[b] = call[b]
    BY <1>0 DEF LedgerCalls
  <2>3. call' = [mid EXCEPT ![a].copy = e] /\ lost' = lost
    BY <1>2 DEF Load
  <2>4. /\ e.run = task.run /\ (what = "complete" => e.status = "completed")
        /\ task.status = "completed" => e.status = "completed"
    BY <2>1 DEF Updated, Entries
  <2> HIDE DEF e, mid
  <2>5. /\ call'[a].at = "truncate" /\ call'[a].what = what /\ call'[a].copy = e
        /\ \A b \in Actors \ {a} : call'[b] = call[b]
    BY <2>2, <2>3 DEF LedgerCalls
  <2>6. OffInv'
    BY <1>0, <2>4, <2>5 DEF FinishInv, OffInv, Up
  <2>7. PromptInv'
    BY <1>0, <2>3, <2>5, PromptStays DEF FinishInv, Kept
  <2>8. \A p \in Programs : Opened(p)' => Opened(p)
    BY <1>0, <2>5, MainActor DEF Opened, Unwritten
  <2>9. OwnInv'
    <3> SUFFICES ASSUME ~lost, ~shared, NEW p \in Programs, Opened(p)
                 PROVE  /\ task = Unreadable \/ (task \in Entries /\ task.run = runs)
                        /\ \A b \in Actors : Current(call'[b]) => call'[b].copy.run = runs
      BY <1>0, <2>3, <2>8 DEF OwnInv
    <3> QED BY <1>2, <2>4, <2>5 DEF FinishInv, OwnInv
  <2>10. WellInv'
    <3> SUFFICES ASSUME ~shared, ended = "well" PROVE WellInv'
      BY <1>0 DEF WellInv
    <3>1. Recorded' /\ ~AllOff'
      BY <1>0, CallerIsUp DEF FinishInv, WellInv, Recorded, AllOff, Up
    <3>2. ASSUME NEW p \in Programs, Up(p), ~lost, Completed(p)' PROVE ClosedFor(p)'
      <4>1. Completed(p) /\ ~(what = "complete" /\ a = Main(p))
        BY <1>0, <2>5, <3>2, MainActor DEF Completed
      <4>2. ClosedFor(p)
        BY <3>2, <4>1 DEF FinishInv, WellInv
      <4> QED BY <1>0, <2>1, <2>4, <2>5, <4>2 DEF ClosedFor
    <3> QED BY <1>0, <2>3, <3>1, <3>2 DEF FinishInv, WellInv, Up
  <2> QED BY <2>6, <2>7, <2>9, <2>10 DEF FinishInv
<1> QED BY <1>1, <1>2

LEMMA TruncateFinishes == ASSUME IInv, SoloInv, FinishInv, NEW a \in Actors, Truncate(a) PROVE FinishInv'
<1> DEFINE k == [call[a] EXCEPT !.at = "write"]
<1>1. /\ k.at = "write" /\ k.what = call[a].what /\ k.copy = call[a].copy /\ k.stale = call[a].stale
  BY DEF IInv, TypeInv, LedgerCalls
<1>2. /\ call' = Overtaking(a, k) /\ call[a].at = "truncate" /\ task' = Unreadable /\ call[a] # Idle
      /\ UNCHANGED <<prompt, exit, missed, pc, current, agents, runs, ended, shared, awaited, lost>>
  BY CopyFields DEF Truncate, programs, history
<1> HIDE DEF k
<1>3. /\ call'[a] = k
      /\ \A b \in Actors \ {a} : /\ call'[b].what = call[b].what /\ call'[b].at = call[b].at
                                 /\ call'[b].copy = call[b].copy /\ call'[b].stale = (call[b].at # "load")
  BY <1>2, OvertakingFields
<1>4. \A b \in Actors \ {a} : call'[b].stale \/ call'[b].at = "load"
  BY <1>3
<1>5. OffInv'
  <2>1. \A b \in Actors : call[b] = Idle /\ b # a => call'[b] = Idle
    BY <1>2, StillIdle
  <2> QED BY <1>1, <1>2, <1>3, <2>1 DEF FinishInv, OffInv, Up
<1>6. PromptInv'
  BY <1>1, <1>2, <1>3, <1>4 DEF PromptInv, Readable
<1>7. \A p \in Programs : (Opened(p)' => Opened(p)) /\ (Completed(p)' => Completed(p))
  BY <1>1, <1>2, <1>3, MainActor DEF Opened, Unwritten, Completed
<1>8. \A b \in Actors : Current(call'[b]) => b = a /\ Current(call[a]) /\ call'[a].copy = call[a].copy
  BY <1>1, <1>2, <1>3, <1>4 DEF Current
<1>9. OwnInv'
  BY <1>2, <1>7, <1>8 DEF FinishInv, OwnInv
<1>10. WellInv'
  <2>1. ~AllOff /\ ~AllOff'
    BY <1>2, CallerIsUp DEF AllOff, Up
  <2> QED BY <1>2, <1>7, <1>8, <2>1, NothingListed DEF FinishInv, WellInv, ClosedFor, Recorded, Up
<1> QED BY <1>5, <1>6, <1>9, <1>10 DEF FinishInv

LEMMA WriteFinishes == ASSUME IInv, SoloInv, ListInv, FinishInv, NEW a \in Actors, Write(a) PROVE FinishInv'
<1> DEFINE half == [call[a] EXCEPT !.at = "prompt"]
           k == [half EXCEPT !.stale = FALSE]
           e == call[a].copy
<1>0. half \in LedgerCalls /\ half.at = "prompt" /\ half.what = call[a].what /\ half.copy = e
  <2>1. call[a] \in LedgerCalls
    BY DEF IInv, TypeInv
  <2> QED BY <2>1 DEF LedgerCalls
<1> HIDE DEF half
<1>1. k.at = "prompt" /\ k.what = call[a].what /\ k.copy = e
  BY <1>0 DEF LedgerCalls
<1>2. /\ call' = Overtaking(a, k) /\ call[a].at = "write" /\ task' = e /\ call[a] # Idle /\ e \in Entries
      /\ UNCHANGED <<prompt, exit, missed, pc, current, agents, runs, ended, shared, awaited>>
      /\ lost' = IF call[a].what = "start" THEN call[a].stale ELSE lost \/ call[a].stale
  BY CopyFields DEF Write, programs, history, half
<1> HIDE DEF k
<1>3. /\ call'[a] = k
      /\ \A b \in Actors \ {a} : /\ call'[b].what = call[b].what /\ call'[b].at = call[b].at
                                 /\ call'[b].copy = call[b].copy /\ call'[b].stale = (call[b].at # "load")
  BY <1>2, OvertakingFields
<1>4. \A b \in Actors : ~Current(call'[b])
  BY <1>1, <1>3 DEF Current
<1>5. OffInv'
  <2>1. \A b \in Actors : call[b] = Idle /\ b # a => call'[b] = Idle
    BY <1>2, StillIdle
  <2> QED BY <1>1, <1>2, <1>3, <2>1 DEF FinishInv, OffInv, Up
<1>6. PromptInv'
  <2>1. \A b \in Actors : call'[b].at = "prompt" /\ ~call'[b].stale => b = a
    BY <1>3
  <2> QED BY <1>1, <1>2, <1>3, <2>1, NothingListed DEF PromptInv
<1>7. OwnInv'
  <2> SUFFICES ASSUME ~lost', ~shared, NEW p \in Programs, Opened(p)' PROVE e.run = runs
    BY <1>2, <1>4 DEF OwnInv
  <2>1. CASE call[a].what = "start"
    BY <1>2, <2>1, CallerIsUp DEF ListInv, FreshInv
  <2>2. CASE call[a].what # "start"
    <3>1. Opened(p) /\ ~lost /\ Current(call[a])
      BY <1>1, <1>2, <1>3, <2>2, MainActor DEF Opened, Unwritten, Current
    <3> QED BY <3>1 DEF FinishInv, OwnInv
  <2> QED BY <2>1, <2>2
<1>8. WellInv'
  <2> SUFFICES ASSUME ~shared, ended = "well" PROVE WellInv'
    BY <1>2 DEF WellInv
  <2>1. Recorded' /\ ~AllOff'
    BY <1>2, CallerIsUp DEF FinishInv, WellInv, Recorded, AllOff, Up
  <2>2. ASSUME NEW p \in Programs, Up(p), ~lost', Completed(p)' PROVE e.status = "completed"
    <3>1. p = Program(a) /\ pc[p] = "closing" /\ call[a].what # "start"
      BY <1>2, <2>2, CallerIsUp DEF FinishInv, WellInv, OffInv
    <3>2. CASE call[a].what = "complete"
      BY <1>2, <3>2 DEF FinishInv, OffInv
    <3>3. CASE call[a].what # "complete"
      <4>1. Completed(p) /\ ~lost /\ Current(call[a])
        BY <1>1, <1>2, <1>3, <2>2, <3>1, <3>3, MainActor DEF Completed, Current
      <4> QED BY <2>2, <4>1 DEF FinishInv, WellInv, ClosedFor
    <3> QED BY <3>2, <3>3
  <2> QED BY <1>2, <1>4, <2>1, <2>2 DEF FinishInv, WellInv, ClosedFor, Up
<1> QED BY <1>5, <1>6, <1>7, <1>8 DEF FinishInv

LEMMA OverFinishes ==
    ASSUME IInv, SoloInv, FinishInv, NEW a \in Actors, WriteFails(a) \/ WritePrompt(a) PROVE FinishInv'
<1>1. /\ call' = [call EXCEPT ![a] = Idle] /\ call[a].at # "load" /\ call[a] # Idle
      /\ UNCHANGED <<task, exit, pc, current, agents, runs, ended, shared, awaited>>
      /\ Kept("record") /\ (lost => lost')
      /\ ~lost' => WritePrompt(a) /\ call[a].at = "prompt" /\ ~call[a].stale
  BY CopyFields DEF WriteFails, WritePrompt, files, programs, history, Attempted, Kept
<1>2. \A b \in Actors : call'[b] = IF b = a THEN Idle ELSE call[b]
  BY <1>1 DEF IInv, TypeInv
<1>3. OffInv'
  BY <1>1, <1>2, IdleIs DEF FinishInv, OffInv, Up
<1>4. PromptInv'
  <2> SUFFICES ASSUME ~lost' PROVE PromptInv'
    BY DEF PromptInv
  <2>1. task = call[a].copy /\ task \in Entries
    BY <1>1, CopyFields DEF FinishInv, PromptInv
  <2>2. "prompt" \in missed' \/ prompt' = Rendered(task)
    BY <1>1, <2>1 DEF WritePrompt, Attempted
  <2> QED BY <1>1, <1>2, <2>1, <2>2, IdleIs, NothingListed DEF FinishInv, PromptInv
<1>5. \A b \in Actors : Current(call'[b]) => call'[b] = call[b]
  BY <1>2, IdleIs DEF Current
<1>6. ~lost' => \A p \in Programs : (Opened(p)' => Opened(p)) /\ (Completed(p)' => Completed(p))
  BY <1>1, <1>2, MainActor DEF Opened, Unwritten, Completed
<1>7. OwnInv'
  BY <1>1, <1>5, <1>6 DEF FinishInv, OwnInv
<1>8. WellInv'
  <2>1. ~AllOff'
    BY <1>1, CallerIsUp DEF AllOff, Up
  <2> QED BY <1>1, <1>5, <1>6, <2>1 DEF FinishInv, WellInv, ClosedFor, Recorded, Kept, Up
<1> QED BY <1>3, <1>4, <1>7, <1>8 DEF FinishInv

LEMMA ChildFinishes ==
    ASSUME IInv, FinishInv, NEW c \in Children,
           \/ ChildExits(c)
           \/ \E a \in Actors : RunCommand(a, c) \/ (awaited[a] = c /\ CommandOver(a))
           \/ \E p \in Programs : SpawnServer(p, c) \/ ReclaimServer(p, c) \/ KillServer(p, c)
    PROVE  FinishInv'
<1>0. call \in [Actors -> LedgerCalls] /\ awaited \in [Actors -> Children \cup {Nobody}]
  BY DEF IInv, TypeInv
<1>1. CASE ChildExits(c) \/ \E p \in Programs : KillServer(p, c)
  BY <1>1, AsideFinishes DEF ChildExits, KillServer, files, programs, threads, history, FinishInv, OffInv
<1>2. ASSUME NEW a \in Actors, RunCommand(a, c) PROVE FinishInv'
  <2>1. Up(Program(a)) /\ call[a] = Idle
    BY <1>2 DEF RunCommand, Working, Free, FinishInv, OffInv, Up
  <2>2. \A b \in Actors : call'[b] = IF b = a THEN NewCall("track", c) ELSE call[b]
    BY <1>0, <1>2 DEF RunCommand, Calling
  <2>3. \A b \in Actors : awaited'[b] = IF b = a THEN c ELSE awaited[b]
    BY <1>0, <1>2 DEF RunCommand
  <2>4. UNCHANGED <<task, prompt, exit, missed, pc, agents, runs, shared, ended, lost>>
    BY <1>2 DEF RunCommand, files, programs, history
  <2> QED BY <2>1, <2>2, <2>3, <2>4, IdleIs, AsideFinishes DEF FinishInv, OffInv
<1>3. ASSUME NEW a \in Actors, awaited[a] = c, CommandOver(a) PROVE FinishInv'
  <2>1. Up(Program(a)) /\ call[a] = Idle
    BY <1>3, NobodyAssumption DEF CommandOver, FinishInv, OffInv
  <2>2. \A b \in Actors : call'[b] = IF b = a THEN NewCall("untrack", c) ELSE call[b]
    BY <1>0, <1>3 DEF CommandOver, Calling
  <2>3. \A b \in Actors : awaited'[b] = IF b = a THEN Nobody ELSE awaited[b]
    BY <1>0, <1>3 DEF CommandOver
  <2>4. UNCHANGED <<task, prompt, exit, missed, pc, agents, runs, shared, ended, lost>>
    BY <1>3 DEF CommandOver, files, programs, history
  <2> QED BY <2>1, <2>2, <2>3, <2>4, IdleIs, AsideFinishes DEF FinishInv, OffInv
<1>4. ASSUME NEW p \in Programs, NEW what \in {"track", "untrack"}, Calling(Main(p), what, c), Up(p),
             call[Main(p)] = Idle,
             UNCHANGED <<task, prompt, exit, missed, pc, agents, runs, shared, ended, lost, awaited>>
      PROVE  FinishInv'
  <2>1. \A b \in Actors : call'[b] = IF b = Main(p) THEN NewCall(what, c) ELSE call[b]
    BY <1>0, <1>4 DEF Calling
  <2>2. Program(Main(p)) = p
    BY DEF Program, Main
  <2> QED BY <1>4, <2>1, <2>2, IdleIs, AsideFinishes DEF FinishInv, OffInv
<1>5. ASSUME NEW p \in Programs, SpawnServer(p, c) \/ ReclaimServer(p, c) PROVE FinishInv'
  BY <1>4, <1>5 DEF SpawnServer, ReclaimServer, files, programs, history, Free, Up
<1> QED BY <1>1, <1>2, <1>3, <1>5

LEMMA StayFinishes == ASSUME IInv, FinishInv, NEW p \in Programs, StartAgent(p) \/ NoteGoal(p) PROVE FinishInv'
<1>1. CASE StartAgent(p)
  <2>1. Up(p) /\ agents' = agents \cup {p}
    BY <1>1 DEF StartAgent, Up
  <2> QED BY <1>1, <2>1, AsideFinishes DEF StartAgent, files, threads, history, FinishInv, OffInv
<1>2. CASE NoteGoal(p)
  <2>1. \A a \in Actors : call'[a] = IF a = Main(p) THEN NewCall("goal", Nobody) ELSE call[a]
    BY <1>2 DEF NoteGoal, Calling, IInv, TypeInv
  <2>2. Up(Program(Main(p))) /\ call[Main(p)] = Idle
    BY <1>2 DEF NoteGoal, Up, Free, Program, Main
  <2>3. UNCHANGED <<task, prompt, exit, missed, pc, agents, runs, shared, ended, lost, awaited>>
    BY <1>2 DEF NoteGoal, files, history
  <2> QED BY <2>1, <2>2, <2>3, IdleIs, AsideFinishes DEF FinishInv, OffInv
<1> QED BY <1>1, <1>2

LEMMA LaunchFinishes == ASSUME IInv, SoloInv, FinishInv, NEW p \in Programs, Launch(p) PROVE FinishInv'
<1>1. /\ ~Up(p) /\ pc' = [pc EXCEPT ![p] = "setup"] /\ ended' = "none"
      /\ shared' = \E q \in Programs \ {p} : Up(q)
      /\ runs' = runs + 1
      /\ UNCHANGED <<task, prompt, call, awaited, agents, lost>>
  BY DEF Launch, files, threads
<1>2. \A q \in Programs : pc'[q] = IF q = p THEN "setup" ELSE pc[q]
  BY <1>1 DEF IInv, TypeInv
<1>3. agents \subseteq Programs /\ \A a \in Actors : Program(a) \in Programs
  BY DEF IInv, TypeInv, Program, Actors
<1>4. OffInv'
  BY <1>1, <1>2, <1>3 DEF FinishInv, OffInv, Up
<1>5. PromptInv'
  <2>1. ASSUME Readable' PROVE task'.run # runs'
    <3>1. task \in Entries /\ task.run <= runs
      BY <1>1, <2>1 DEF IInv, TypeInv, SoloInv, SettledInv, Settled, Readable
    <3> QED BY <1>1, <3>1, BoundsAssumption DEF IInv, TypeInv, Entries
  <2> QED BY <1>1, <2>1 DEF FinishInv, PromptInv
<1>6. OwnInv'
  BY <1>1, <1>2 DEF OwnInv, Opened, Up
<1>7. WellInv'
  BY <1>1 DEF WellInv
<1> QED BY <1>4, <1>5, <1>6, <1>7 DEF FinishInv

LEMMA OpenFinishes == ASSUME IInv, SoloInv, FinishInv, NEW p \in Programs, Open(p) PROVE FinishInv'
<1> DEFINE k == Opening(current[p])
<1>0. /\ pc[p] = "setup" /\ pc' = [pc EXCEPT ![p] = "running"] /\ call[Main(p)] = Idle
      /\ call' = [call EXCEPT ![Main(p)] = k]
      /\ UNCHANGED <<task, prompt, current, agents, awaited, runs, ended, shared, lost>>
      /\ Kept("prompt")
  BY DEF Open, Free, Records, Attempted, Kept
<1>1. k.what = "start" /\ k.at = "truncate"
  BY DEF Opening
<1> HIDE DEF k
<1>2. /\ \A a \in Actors : call'[a] = IF a = Main(p) THEN k ELSE call[a]
      /\ \A q \in Programs : pc'[q] = IF q = p THEN "running" ELSE pc[q]
      /\ agents \subseteq Programs /\ \A a \in Actors : Program(a) \in Programs
  BY <1>0 DEF IInv, TypeInv, Program, Actors
<1>3. Program(Main(p)) = p /\ Main(p) \in Actors /\ Up(p)
  BY <1>0, MainActor DEF Program, Main, Up
<1>4. OffInv'
  BY <1>0, <1>1, <1>2, <1>3 DEF FinishInv, OffInv, Up
<1>5. PromptInv'
  BY <1>0, <1>1, <1>2, IdleIs, PromptStays DEF FinishInv
<1>6. ~shared => \A q \in Programs : Up(q)' => q = p
  BY <1>0, <1>2, <1>3 DEF SoloInv, AloneInv, Up
<1>7. OwnInv'
  BY <1>0, <1>1, <1>2, <1>3, <1>6 DEF OwnInv, Opened, Unwritten, Up
<1>8. WellInv'
  BY <1>0, <1>3 DEF FinishInv, WellInv
<1> QED BY <1>4, <1>5, <1>7, <1>8 DEF FinishInv

LEMMA LeaveFinishes ==
    ASSUME IInv, SoloInv, ListInv, FinishInv, NEW p \in Programs, Leave(p) \/ LeaveByRequest(p) \/ Fail(p)
    PROVE  FinishInv'
<1>0. /\ pc \in [Programs -> {"off", "setup", "running", "completing", "closing"}]
      /\ call \in [Actors -> LedgerCalls]
      /\ agents \subseteq Programs /\ \A a \in Actors : Program(a) \in Programs
  BY DEF IInv, TypeInv, Program, Actors
<1>1. /\ pc[p] \in {"running", "completing"} /\ pc'[p] \in {"completing", "closing"}
      /\ \A q \in Programs \ {p} : pc'[q] = pc[q]
      /\ call[Main(p)] = Idle
      /\ UNCHANGED <<task, prompt, agents, awaited, runs, shared, lost>>
      /\ Kept("prompt")
  <2> USE DEF Records, Attempted, Kept, Free
  <2>1. CASE Leave(p)
    <3>1. CASE pc[p] = "running"
      BY <1>0, <2>1, <3>1 DEF Leave
    <3>2. CASE pc[p] = "completing"
      BY <1>0, <2>1, <3>2 DEF Leave
    <3> QED BY <2>1, <3>1, <3>2 DEF Leave
  <2>2. CASE LeaveByRequest(p)
    BY <1>0, <2>2 DEF LeaveByRequest, threads
  <2>3. CASE Fail(p)
    BY <1>0, <2>3 DEF Fail, files, threads
  <2> QED BY <2>1, <2>2, <2>3
<1>2. \/ /\ call' = call
         /\ ended' # "well" \/ (ended' = ended /\ pc[p] = "running")
      \/ /\ call' = [call EXCEPT ![Main(p)] = NewCall("complete", Nobody)]
         /\ pc[p] = "completing" /\ pc'[p] = "closing" /\ UNCHANGED <<exit, missed>>
  <2>1. CASE Leave(p)
    BY <1>0, <2>1 DEF Leave, Calling
  <2>2. CASE LeaveByRequest(p)
    BY <2>2 DEF LeaveByRequest, threads
  <2>3. CASE Fail(p)
    BY <2>3 DEF Fail, threads
  <2> QED BY <2>1, <2>2, <2>3
<1>3. /\ Program(Main(p)) = p /\ Main(p) \in Actors /\ Up(p)
      /\ \A q \in Programs : Up(q)' <=> Up(q)
  BY <1>1, MainActor DEF Program, Main, Up
<1>4. \A a \in Actors : \/ call'[a] = call[a]
                        \/ a = Main(p) /\ call'[a].what = "complete" /\ call'[a].at = "load"
  BY <1>0, <1>2, IdleIs
<1>5. OffInv'
  <2>1. \A a \in Actors : call[a].what = "start" => Program(a) # p
    BY <1>1, IdleIs DEF ListInv, FreshInv, Main, Program, Actors
  <2> QED BY <1>0, <1>1, <1>3, <1>4, <2>1 DEF FinishInv, OffInv
<1>6. PromptInv'
  BY <1>1, <1>4, IdleIs, PromptStays DEF FinishInv
<1>7. \A q \in Programs : Opened(q)' => Opened(q)
  BY <1>1, <1>4, IdleIs, MainActor DEF Opened, Unwritten
<1>8. \A a \in Actors : Current(call'[a]) => call'[a] = call[a]
  BY <1>4 DEF Current
<1>9. OwnInv'
  BY <1>1, <1>7, <1>8 DEF FinishInv, OwnInv
<1>10. WellInv'
  <2> SUFFICES ASSUME ~shared, ended' = "well" PROVE WellInv'
    BY <1>1 DEF WellInv
  <2>1. \A q \in Programs : Up(q) => q = p
    BY <1>3 DEF SoloInv, AloneInv
  <2>2. CASE call' = call /\ ended = "well" /\ pc[p] = "running"
    BY <1>3, <2>2 DEF FinishInv, WellInv
  <2>3. CASE /\ call' = [call EXCEPT ![Main(p)] = NewCall("complete", Nobody)]
             /\ pc[p] = "completing" /\ pc'[p] = "closing" /\ UNCHANGED <<exit, missed>>
    <3>1. call'[Main(p)] = NewCall("complete", Nobody)
      BY <1>0, <1>3, <2>3
    <3>2. ~Completed(p)' /\ Recorded'
      BY <1>1, <2>3, <3>1, IdleIs DEF Completed, SoloInv, CloseInv, Recorded
    <3> QED BY <1>3, <2>1, <2>3, <3>2 DEF WellInv, AllOff
  <2> QED BY <1>2, <2>2, <2>3
<1> QED BY <1>5, <1>6, <1>9, <1>10 DEF FinishInv

LEMMA StoppedFinishes ==
    ASSUME IInv, SoloInv, FinishInv, NEW p \in Programs, End(p) \/ Die(p) PROVE FinishInv'
<1>1. /\ Up(p) /\ pc' = [pc EXCEPT ![p] = "off"] /\ agents' = agents \ {p}
      /\ UNCHANGED <<task, prompt, exit, missed, runs, shared>> /\ lost' = (lost \/ CutShort(p))
      /\ \A a \in Actors : /\ call'[a] = IF Program(a) = p THEN Idle ELSE call[a]
                           /\ awaited'[a] = IF Program(a) = p THEN Nobody ELSE awaited[a]
      /\ ended' = "died" \/ (ended' = ended /\ pc[p] = "closing" /\ call[Main(p)] = Idle)
  BY DEF End, Die, Stopped, files, Up, Free
<1>2. /\ \A q \in Programs : pc'[q] = IF q = p THEN "off" ELSE pc[q]
      /\ agents \subseteq Programs /\ \A a \in Actors : Program(a) \in Programs
      /\ call \in [Actors -> LedgerCalls]
  BY <1>1 DEF IInv, TypeInv, Program, Actors
<1>3. OffInv'
  BY <1>1, <1>2, IdleIs DEF FinishInv, OffInv, Up
<1>4. ASSUME ~lost', NEW a \in Actors, Program(a) = p PROVE call[a].at \in {"load", "truncate"}
  <2>1. call[a].at \notin {"write", "prompt"}
    BY <1>1, <1>4 DEF CutShort, Threads
  <2> QED BY <1>2, <2>1 DEF LedgerCalls
<1>5. PromptInv'
  <2> SUFFICES ASSUME ~lost' PROVE PromptInv'
    BY DEF PromptInv
  <2> QED BY <1>1, <1>4, IdleIs, PromptStays DEF FinishInv, Kept
<1>6. ~shared => \A q \in Programs : ~Up(q)'
  BY <1>1, <1>2 DEF SoloInv, AloneInv, Up
<1>7. OwnInv'
  BY <1>1, <1>6 DEF OwnInv, Opened, Up
<1>8. WellInv'
  <2> SUFFICES ASSUME ~shared, ended' = "well"
               PROVE  Recorded' /\ (~lost' => task \in Entries /\ task.run = runs /\ task.status = "completed")
    BY <1>1, <1>6 DEF WellInv
  <2>1. /\ ended = "well" /\ pc[p] = "closing" /\ call[Main(p)] = Idle /\ Recorded
        /\ ~lost /\ Completed(p) => ClosedFor(p)
    BY <1>1 DEF FinishInv, WellInv
  <2>2. Completed(p) /\ Opened(p)
    BY <2>1, IdleIs DEF Completed, Opened, Unwritten
  <2>3. ASSUME ~lost' PROVE task # Unreadable
    <3> SUFFICES ASSUME task = Unreadable PROVE FALSE
      OBVIOUS
    <3>1. PICK a \in Actors : call[a].at = "write"
      BY <1>1, <2>3 DEF FinishInv, PromptInv
    <3>2. Program(a) = p
      BY <1>1, <3>1, CopyFields, CallerIsUp
    <3> QED BY <1>4, <2>3, <3>1, <3>2
  <2> QED BY <1>1, <2>1, <2>2, <2>3 DEF FinishInv, OwnInv, ClosedFor, Recorded
<1> QED BY <1>3, <1>5, <1>7, <1>8 DEF FinishInv

LEMMA InitFinishes == Init => FinishInv
<1> SUFFICES ASSUME Init PROVE FinishInv
    OBVIOUS
<1>1. \A a \in Actors : call[a] = Idle
  BY DEF Init
<1>2. OffInv
  BY <1>1, IdleIs DEF Init, OffInv
<1>3. PromptInv
  BY <1>1, IdleIs, NothingListed DEF Init, PromptInv, Readable, Unreadable, Absent, NoEntry
<1>4. OwnInv
  BY DEF Init, OwnInv, Opened
<1>5. WellInv
  BY DEF Init, WellInv
<1> QED BY <1>2, <1>3, <1>4, <1>5 DEF FinishInv

LEMMA StepFinishes == IInv /\ SoloInv /\ ListInv /\ FinishInv /\ [Next]_vars => FinishInv'
<1> SUFFICES ASSUME IInv, SoloInv, ListInv, FinishInv, [Next]_vars PROVE FinishInv'
    OBVIOUS
<1>1. ASSUME NEW a \in Actors,
             Load(a) \/ Truncate(a) \/ WriteFails(a) \/ Write(a) \/ WritePrompt(a)
      PROVE  FinishInv'
  BY <1>1, LoadFinishes, TruncateFinishes, WriteFinishes, OverFinishes
<1>2. ASSUME NEW a \in Actors, CommandOver(a) PROVE FinishInv'
  <2>1. awaited[a] \in Children
    BY <1>2 DEF CommandOver, IInv, TypeInv
  <2> QED BY <1>2, <2>1, ChildFinishes
<1>3. ASSUME NEW a \in Actors, NEW c \in Children, RunCommand(a, c) PROVE FinishInv'
  BY <1>3, ChildFinishes
<1>4. ASSUME NEW c \in Children, ChildExits(c) PROVE FinishInv'
  BY <1>4, ChildFinishes
<1>5. ASSUME NEW p \in Programs, NEW c \in Children,
             SpawnServer(p, c) \/ ReclaimServer(p, c) \/ KillServer(p, c)
      PROVE  FinishInv'
  BY <1>5, ChildFinishes
<1>6. ASSUME NEW p \in Programs, Launch(p) \/ Open(p) \/ StartAgent(p) \/ NoteGoal(p) PROVE FinishInv'
  BY <1>6, LaunchFinishes, OpenFinishes, StayFinishes
<1>7. ASSUME NEW p \in Programs, Leave(p) \/ LeaveByRequest(p) \/ Fail(p) PROVE FinishInv'
  BY <1>7, LeaveFinishes
<1>8. ASSUME NEW p \in Programs, End(p) \/ Die(p) PROVE FinishInv'
  BY <1>8, StoppedFinishes
<1>9. CASE UNCHANGED vars
  <2>1. UNCHANGED <<task, prompt, exit, missed, pc, agents, runs, shared, ended, lost, call, awaited>>
    BY <1>9 DEF vars, files, programs, threads, history
  <2> QED BY <2>1, AsideFinishes DEF FinishInv, OffInv
<1> QED BY <1>1, <1>2, <1>3, <1>4, <1>5, <1>6, <1>7, <1>8, <1>9 DEF Next

\* For any number of runs, subagents and processes: when the last run had the workspace for
\* itself and ended well, and no update was lost, its entry is closed, the recovery prompt is
\* that entry's and the recovery record is graceful, but for a prompt or a record whose own
\* last write failed (complete_run_task).
THEOREM FinishedRunsReadFinished == Spec => []FinishedReadsFinished
<1>1. Spec => []SoloInv
  BY InitSolo, StepSolo, Invariance, PTL DEF Spec
<1>2. Spec => []ListInv
  BY InitLists, StepLists, Invariance, PTL DEF Spec
<1>3. Spec => []FinishInv
  BY <1>1, <1>2, InitFinishes, StepFinishes, Invariance, PTL DEF Spec
<1>4. IInv /\ FinishInv => FinishedReadsFinished
  <2> SUFFICES ASSUME IInv, FinishInv, AllOff, ended = "well", ~shared, ~lost
               PROVE  /\ Readable /\ task.run = runs /\ task.status = "completed"
                      /\ "prompt" \in missed \/ prompt = Rendered(task)
                      /\ Recorded
    BY DEF FinishedReadsFinished, Recorded
  <2>1. task \in Entries /\ task.run = runs /\ task.status = "completed" /\ Recorded
    BY DEF FinishInv, WellInv
  <2>2. \A a \in Actors : call[a].at # "prompt"
    BY IdleIs DEF FinishInv, OffInv, AllOff, Program, Actors
  <2>3. Readable
    BY <2>1, NothingListed DEF Readable
  <2> QED BY <2>1, <2>2, <2>3 DEF FinishInv, PromptInv
<1> QED BY <1>3, <1>4, Invariance, PTL
=============================================================================
