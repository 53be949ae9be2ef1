---------------------------- MODULE ReviewStore ----------------------------
(***************************************************************************)
(* Reviews and what is kept of them in .sego/reviews                       *)
(* (runtime/src/code_review/report.rs): a JSON artifact and a Markdown     *)
(* report per review, index.jsonl, which lists them, and status.jsonl,     *)
(* which says what became of their findings.  Reviews run in the REPL, on  *)
(* the command line or in a sidecar process (main.rs, sidecar.rs), and     *)
(* findings are marked by further commands, all in one workspace without   *)
(* a lock.  Any of them may stop at any step, by an error or by death, and *)
(* leave what it has written so far.                                       *)
(***************************************************************************)
EXTENDS Naturals, Sequences, FiniteSets

CONSTANTS Reviews,   \* the reviews, each with a program that runs it
          Markers,   \* programs that mark findings
          Nobody,    \* no review
          Diffs,     \* what there can be to review, by the prefix of its hash
          Nothing,   \* nothing to review, and no expectation of the caller
          Findings,  \* ids of findings
          MaxFindings, \* bound: findings of a review
          MaxSecond,   \* bound: the clock
          MaxMarks     \* bound: lines of status.jsonl

ASSUME DiffsAssumption == Diffs \subseteq Nat /\ Nothing \notin Diffs
ASSUME NobodyAssumption == Nobody \notin Reviews
ASSUME BoundsAssumption ==
    MaxFindings \in Nat /\ MaxSecond \in Nat \ {0} /\ MaxMarks \in Nat

VARIABLES files,    \* the artifacts and the reports, by id
          index,    \* index.jsonl
          statuses, \* status.jsonl
          review,   \* how far each review is
          mark      \* how far each marking is

vars == <<files, index, statuses, review, mark>>

(***************************************************************************)
(* Files.  An id is the second at which a review was saved and the hash of *)
(* what it reviewed.  A log is a sequence of appends; what is cut short    *)
(* lacks its newline, so that the next append goes on in the same line.    *)
(***************************************************************************)
Id == [second : 1 .. MaxSecond, diff : Diffs]
Kinds == {"json", "markdown"}
\* assign_finding_ids keeps the ids the model gave, and two findings may have one.
Answers == UNION {[1 .. n -> Findings] : n \in 0 .. MaxFindings}
Ids(found) == {found[i] : i \in DOMAIN found}
File == [by : Reviews \cup {Nobody}, whole : BOOLEAN, findings : Answers]
NoFile == [by |-> Nobody, whole |-> FALSE, findings |-> <<>>]

Line(text, end) == [text |-> text, end |-> end]
Cuts == {"within", "newline"}
\* What load_review_index and load_review_finding_statuses accept.
Readable(log) ==
    \A i \in DOMAIN log :
        log[i].end = "whole" \/ (log[i].end = "newline" /\ i = Len(log))
Texts(log) == {log[i].text : i \in DOMAIN log}

\* latest_review_index_entry: by second, then by id.
Newer(a, b) ==
    a.second > b.second \/ (a.second = b.second /\ a.diff > b.diff)
Latest(log) == CHOOSE e \in Texts(log) : \A d \in Texts(log) : ~Newer(d.id, e.id)

\* resolve_review_entry: an id that two entries have is ambiguous.
Matches(log, id) == {i \in DOMAIN log : log[i].text.id = id}
Resolves(log, e) ==
    e \in Texts(log) /\ (Cardinality(Matches(log, e.id)) = 1 \/ e = Latest(log))

\* latest_review_finding_statuses: the last line of a finding counts.
LinesOf(id, f) ==
    {i \in DOMAIN statuses : statuses[i].text.id = id /\ statuses[i].text.finding = f}
StatusOf(id, f) ==
    LET last == CHOOSE i \in LinesOf(id, f) : \A j \in LinesOf(id, f) : j <= i
    IN  IF LinesOf(id, f) = {} THEN "open" ELSE statuses[last].text.status
Settled(id) == {f \in Findings : StatusOf(id, f) # "open"}
\* review_finding_status_counts_for_summary, which trusts the entry's count.
OpenCount(e) ==
    LET settled == Cardinality(Settled(e.id))
    IN  IF settled < e.count THEN e.count - settled ELSE 0

Fresh == [at |-> "start", open |-> FALSE, diff |-> Nothing, second |-> 1, findings |-> <<>>]
Idle == [at |-> "none", entry |-> <<>>, finding |-> <<>>]

Init ==
    /\ files = [k \in Kinds |-> [id \in Id |-> NoFile]]
    /\ index = <<>> /\ statuses = <<>>
    /\ review = [r \in Reviews |-> Fresh]
    /\ mark = [m \in Markers |-> Idle]

(***************************************************************************)
(* A review.                                                               *)
(***************************************************************************)
IdOf(r) == [second |-> review[r].second, diff |-> review[r].diff]
Goes(r, changed) == review' = [review EXCEPT ![r] = changed]
Ends(r, how) == Goes(r, [Fresh EXCEPT !.at = how])
Working(r) == review[r].at \in {"start", "turn", "json", "markdown", "index"}

\* The target is collected before anything else, from a workspace that goes on
\* changing; the sidecar's caller may have named the diff it expects, and
\* nothing to review ends the review.
Collect(r, tree, expected) ==
    /\ review[r].at = "start"
    /\ IF expected \notin {Nothing, tree} \/ tree = Nothing THEN Ends(r, "stopped")
       ELSE Goes(r, [Fresh EXCEPT !.at = "turn", !.diff = tree])
    /\ UNCHANGED <<files, index, statuses, mark>>

\* The turn is over: what it found is saved under the second of the system
\* clock, which may have been set back.
Answered(r, found, clock) ==
    /\ review[r].at = "turn"
    /\ Goes(r, [review[r] EXCEPT !.at = "json", !.findings = found, !.second = clock])
    /\ UNCHANGED <<files, index, statuses, mark>>

\* Mutant: write_new_file opens the file with create and truncate.
CreateOver(r, kind) ==
    /\ review[r].at = kind /\ ~review[r].open
    /\ Goes(r, [review[r] EXCEPT !.open = TRUE])
    /\ files' = [files EXCEPT ![kind][IdOf(r)] = [NoFile EXCEPT !.by = r]]
    /\ UNCHANGED <<index, statuses, mark>>

\* write_new_file: create_new, whose refusal ends the review.
Create(r, kind) ==
    /\ review[r].at = kind /\ ~review[r].open
    /\ IF files[kind][IdOf(r)] # NoFile
       THEN Ends(r, "conflict") /\ UNCHANGED files
       ELSE /\ Goes(r, [review[r] EXCEPT !.open = TRUE])
            /\ files' = [files EXCEPT ![kind][IdOf(r)] = [NoFile EXCEPT !.by = r]]
    /\ UNCHANGED <<index, statuses, mark>>

\* Mutant: the review is listed before its report is written.
AfterAtOnce(kind) == "index"
After(kind) == IF kind = "json" THEN "markdown" ELSE "index"
Write(r, kind) ==
    /\ review[r].at = kind /\ review[r].open
    /\ files' = [files EXCEPT ![kind][IdOf(r)] =
         [by |-> r, whole |-> TRUE, findings |-> review[r].findings]]
    /\ Goes(r, [review[r] EXCEPT !.at = After(kind), !.open = FALSE])
    /\ UNCHANGED <<index, statuses, mark>>

Entry(r) == [id |-> IdOf(r), by |-> r, count |-> Len(review[r].findings)]

\* append_review_index, after which the review is reported.
List(r) ==
    /\ review[r].at = "index"
    /\ index' = Append(index, Line(Entry(r), "whole"))
    /\ Goes(r, [review[r] EXCEPT !.at = "saved"])
    /\ UNCHANGED <<files, statuses, mark>>

\* The disk is full, or the program dies in the write: part of the line is there.
ListCut(r, cut) ==
    /\ review[r].at = "index"
    /\ index' = Append(index, Line(Entry(r), cut))
    /\ Ends(r, "stopped")
    /\ UNCHANGED <<files, statuses, mark>>

\* Refused, failed, over its budget or dead, anywhere else.
Stop(r) ==
    /\ Working(r)
    /\ Ends(r, "stopped")
    /\ UNCHANGED <<files, index, statuses, mark>>

(***************************************************************************)
(* mark_code_review_finding.  Each read is one of the whole file.          *)
(***************************************************************************)
Rest(m) == mark' = [mark EXCEPT ![m] = Idle]

Resolve(m, e) ==
    /\ mark[m].at = "none"
    /\ Readable(index) /\ Resolves(index, e)
    /\ mark' = [mark EXCEPT ![m] = [at |-> "find", entry |-> e, finding |-> <<>>]]
    /\ UNCHANGED <<files, index, statuses, review>>

\* Mutant: the finding is not looked up in the artifact.
CheckNothing(m, f) ==
    /\ mark[m].at = "find"
    /\ mark' = [mark EXCEPT ![m].at = "record", ![m].finding = f]
    /\ UNCHANGED <<files, index, statuses, review>>

Check(m, f) ==
    /\ mark[m].at = "find"
    /\ LET artifact == files["json"][mark[m].entry.id]
       IN  artifact.whole /\ f \in Ids(artifact.findings)
    /\ mark' = [mark EXCEPT ![m].at = "record", ![m].finding = f]
    /\ UNCHANGED <<files, index, statuses, review>>

Mark(m, status) ==
    [id |-> mark[m].entry.id, finding |-> mark[m].finding, status |-> status]
Record(m, status, end) ==
    /\ mark[m].at = "record" /\ Len(statuses) < MaxMarks
    /\ statuses' = Append(statuses, Line(Mark(m, status), end))
    /\ Rest(m)
    /\ UNCHANGED <<files, index, review>>

\* Not such a finding, a note that is missing, an error, or death.
GiveUp(m) ==
    /\ mark[m].at # "none" /\ Rest(m)
    /\ UNCHANGED <<files, index, statuses, review>>

ReviewStep(r) ==
    \/ \E tree, expected \in Diffs \cup {Nothing} : Collect(r, tree, expected)
    \/ \E found \in Answers, t \in 1 .. MaxSecond : Answered(r, found, t)
    \/ \E kind \in Kinds : Create(r, kind) \/ Write(r, kind)
    \/ List(r)
    \/ \E cut \in Cuts : ListCut(r, cut)
    \/ Stop(r)

MarkStep(m) ==
    \/ \E e \in Texts(index) : Resolve(m, e)
    \/ \E f \in Findings : Check(m, f)
    \/ \E s \in {"open", "fixed"}, end \in Cuts \cup {"whole"} : Record(m, s, end)
    \/ GiveUp(m)

Next ==
    \/ \E r \in Reviews : ReviewStep(r)
    \/ \E m \in Markers : MarkStep(m)

Spec == Init /\ [][Next]_vars

(***************************************************************************)
(* Properties.                                                             *)
(***************************************************************************)
TypeOK ==
    /\ files \in [Kinds -> [Id -> File]]
    /\ \A e \in Texts(index) : e.id \in Id /\ e.by \in Reviews /\ e.count \in Nat
    /\ \A s \in Texts(statuses) : s.id \in Id /\ s.finding \in Findings
    /\ \A r \in Reviews : review[r].findings \in Answers

(* A review that is listed, by a line cut short of its newline also, has its   *)
(* artifact and its report whole, and both are the ones it wrote itself.       *)
ListedAreComplete ==
    \A i \in DOMAIN index : index[i].end # "within" =>
        \A kind \in Kinds :
            LET e == index[i].text
            IN  files[kind][e.id].whole /\ files[kind][e.id].by = e.by

(* Reading the index fails, or it shows every review that was reported, each  *)
(* under an id of its own, which one command finds and no other entry has.     *)
ReportedAreListed ==
    Readable(index) => \A r \in Reviews : review[r].at = "saved" =>
        Cardinality(Matches(index, IdOf(r))) = 1 /\ Entry(r) \in Texts(index)

(* The summary never counts fewer findings as open than the artifact holds    *)
(* unsettled, and just as many when no two of them have one id, whoever marks *)
(* what while other reviews are saved.                                        *)
Unsettled(e) ==
    LET found == files["json"][e.id].findings
    IN  {i \in DOMAIN found : found[i] \notin Settled(e.id)}
Distinct(found) == \A i, j \in DOMAIN found : found[i] = found[j] => i = j
CountsAddUp ==
    Readable(index) /\ Readable(statuses) => \A e \in Texts(index) :
        /\ OpenCount(e) >= Cardinality(Unsettled(e))
        /\ Distinct(files["json"][e.id].findings) => OpenCount(e) = Cardinality(Unsettled(e))

(* The summary counts as open what `/review status` shows as open, also   *)
(* when two findings have one id.                                             *)
SummaryIsStatus ==
    Readable(index) /\ Readable(statuses) => \A e \in Texts(index) :
        OpenCount(e) = Cardinality(Unsettled(e))

(* The review that "latest" names is never followed by an older one, also     *)
(* when the clock is set back or a slow review is listed after a later one.    *)
LatestNeverGoesBack ==
    [][Readable(index) /\ index # <<>> /\ Readable(index')
         => ~Newer(Latest(index).id, Latest(index').id)]_vars

=============================================================================
