-------------------------- MODULE ReviewStoreProofs --------------------------
(***************************************************************************)
(* Theorems about ReviewStore, for any number of reviews, programs that    *)
(* mark, diffs, findings and seconds.                                      *)
(***************************************************************************)
EXTENDS ReviewStore, FiniteSetTheorems, SequenceTheorems,
        WellFoundedInduction, TLAPS

-----------------------------------------------------------------------------
(* The inductive invariant.                                                *)

Text == [id : Id, by : Reviews, count : Nat]
Marked == [id : Id, finding : Findings, status : {"open", "fixed"}]
LineOf(T) == [text : T, end : Cuts \cup {"whole"}]
Placed == {"turn", "json", "markdown", "index", "saved"}
Over == {"saved", "stopped", "conflict"}
Review == [at : {"start"} \cup Placed \cup Over, open : BOOLEAN, diff : Diffs \cup {Nothing},
           second : 1 .. MaxSecond, findings : Answers]
Marking == [at : {"none", "find", "record"}, entry : Text \cup {<<>>},
            finding : Findings \cup {<<>>}]

\* Every variable has its type.
TypeInv ==
    /\ files \in [Kinds -> [Id -> File]]
    /\ index \in Seq(LineOf(Text))
    /\ statuses \in Seq(LineOf(Marked))
    /\ review \in [Reviews -> Review]
    /\ \A r \in Reviews : review[r].at \in Placed => review[r].diff \in Diffs
    /\ mark \in [Markers -> Marking]
    /\ \A m \in Markers :
          /\ mark[m].at # "none" => mark[m].entry \in Text
          /\ mark[m].at = "record" => mark[m].finding \in Findings

\* What a review that is being saved has on disk, from the moment create_new gave it
\* the file: its own, empty while it is open and whole once it is closed.
Begun(r) == [NoFile EXCEPT !.by = r]
Complete(r) == [by |-> r, whole |-> TRUE, findings |-> review[r].findings]
Own(r) ==
    /\ review[r].open => review[r].at \in Kinds
    /\ review[r].open => files[review[r].at][IdOf(r)] = Begun(r)
    /\ review[r].at \in {"markdown", "index", "saved"} => files["json"][IdOf(r)] = Complete(r)
    /\ review[r].at \in {"index", "saved"} => files["markdown"][IdOf(r)] = Complete(r)
OwnInv == \A r \in Reviews : Own(r)

\* Every line of the index, cut short or not, is of a review that is over and whose files
\* are whole, and counts what the artifact holds.
ListedInv ==
    \A i \in DOMAIN index :
        LET e == index[i].text
        IN  /\ \A kind \in Kinds : files[kind][e.id].whole /\ files[kind][e.id].by = e.by
            /\ e.count = Len(files["json"][e.id].findings)
            /\ review[e.by].at \in {"saved", "stopped"}

\* No two lines of the index have one id.
UniqueInv ==
    \A i, j \in DOMAIN index : index[i].text.id = index[j].text.id => i = j

\* A review that was reported has its line.
SavedInv ==
    \A r \in Reviews : review[r].at = "saved" => Entry(r) \in Texts(index)

\* A program that marks holds an entry of the index and, once it looked, a finding of it.
MarkInv ==
    \A m \in Markers :
        /\ mark[m].at # "none" => mark[m].entry \in Texts(index)
        /\ mark[m].at = "record" =>
              mark[m].finding \in Ids(files["json"][mark[m].entry.id].findings)

\* What is marked, by any line of status.jsonl, is a finding of a whole artifact.
StatusInv ==
    \A s \in Texts(statuses) :
        files["json"][s.id].whole /\ s.finding \in Ids(files["json"][s.id].findings)

IInv ==
    /\ TypeInv /\ OwnInv /\ ListedInv /\ UniqueInv /\ SavedInv /\ MarkInv /\ StatusInv

-----------------------------------------------------------------------------
(* Types.                                                                  *)

LEMMA AnswersAreSequences ==
  /\ <<>> \in Answers
  /\ \A found \in Answers : found \in Seq(Findings) /\ Len(found) \in Nat
<1>1. <<>> \in [1 .. 0 -> Findings] /\ 0 \in 0 .. MaxFindings
  BY BoundsAssumption
<1>2. <<>> \in Answers
  BY <1>1 DEF Answers
<1>3. ASSUME NEW found \in Answers PROVE found \in Seq(Findings) /\ Len(found) \in Nat
  <2>1. PICK n \in 0 .. MaxFindings : found \in [1 .. n -> Findings]
    BY DEF Answers
  <2>2. n \in Nat
    BY BoundsAssumption
  <2> QED
    BY <2>1, <2>2
<1> QED
  BY <1>2, <1>3

LEMMA Vocabulary ==
  /\ NoFile \in File /\ Fresh \in Review /\ Idle \in Marking
  /\ \A r \in Reviews, found \in Answers, whole \in BOOLEAN :
        [by |-> r, whole |-> whole, findings |-> found] \in File
  /\ \A r \in Reviews : Begun(r).by = r /\ Begun(r).whole = FALSE
<1>1. 1 \in 1 .. MaxSecond
  BY BoundsAssumption
<1>2. NoFile \in File /\ Fresh \in Review /\ Idle \in Marking
  BY <1>1, AnswersAreSequences DEF NoFile, File, Fresh, Review, Idle, Marking, Placed, Over
<1>3. \A r \in Reviews, found \in Answers, whole \in BOOLEAN :
        [by |-> r, whole |-> whole, findings |-> found] \in File
  BY DEF File
<1>4. \A r \in Reviews : Begun(r).by = r /\ Begun(r).whole = FALSE
  BY DEF NoFile, Begun
<1> QED
  BY <1>2, <1>3, <1>4

LEMMA IdType ==
  ASSUME TypeInv, NEW r \in Reviews, review[r].at \in Placed
  PROVE  IdOf(r) \in Id
BY DEF TypeInv, Review, IdOf, Id

LEMMA EntryType ==
  ASSUME TypeInv, NEW r \in Reviews, review[r].at \in Placed
  PROVE  /\ Entry(r) \in Text
         /\ \A end \in Cuts \cup {"whole"} : Line(Entry(r), end) \in LineOf(Text)
<1>1. IdOf(r) \in Id
  BY IdType
<1>2. Len(review[r].findings) \in Nat
  BY AnswersAreSequences DEF TypeInv, Review
<1> QED
  BY <1>1, <1>2 DEF Entry, Text, Line, LineOf

LEMMA TextsOf ==
  ASSUME NEW T, NEW log \in Seq(LineOf(T))
  PROVE  Texts(log) \subseteq T
<1> SUFFICES ASSUME NEW i \in DOMAIN log PROVE log[i].text \in T
  BY DEF Texts
<1>1. log[i] \in LineOf(T)
  BY ElementOfSeq
<1> QED
  BY <1>1 DEF LineOf

LEMMA TextsType ==
  ASSUME TypeInv
  PROVE  Texts(index) \subseteq Text /\ Texts(statuses) \subseteq Marked
BY TextsOf DEF TypeInv

LEMMA FileType ==
  ASSUME TypeInv, NEW kind \in Kinds, NEW id \in Id, NEW file \in File
  PROVE  [files EXCEPT ![kind][id] = file] \in [Kinds -> [Id -> File]]
BY DEF TypeInv

LEMMA TypeStart == Init => TypeInv
BY Vocabulary, EmptySeq DEF Init, TypeInv, Fresh, Idle, Placed

LEMMA TypeStep == TypeInv /\ [Next]_vars => TypeInv'
<1> SUFFICES ASSUME TypeInv, [Next]_vars PROVE TypeInv'
  OBVIOUS
<1> USE DEF TypeInv
<1>1. ASSUME NEW r \in Reviews, NEW tree \in Diffs \cup {Nothing},
             NEW expected \in Diffs \cup {Nothing}, Collect(r, tree, expected)
      PROVE  TypeInv'
  <2>1. [Fresh EXCEPT !.at = "stopped"] \in Review
    BY Vocabulary DEF Review, Over
  <2>2. [Fresh EXCEPT !.at = "turn", !.diff = tree] \in Review
    BY Vocabulary DEF Review, Placed
  <2> QED
    BY <1>1, <2>1, <2>2 DEF Collect, Goes, Ends, Fresh, Placed
<1>2. ASSUME NEW r \in Reviews, NEW found \in Answers, NEW t \in 1 .. MaxSecond,
             Answered(r, found, t)
      PROVE  TypeInv'
  <2>1. [review[r] EXCEPT !.at = "json", !.findings = found, !.second = t] \in Review
    BY DEF Review, Placed
  <2> QED
    BY <1>2, <2>1 DEF Answered, Goes, Placed, Review
<1>3. ASSUME NEW r \in Reviews, NEW kind \in Kinds, Create(r, kind)
      PROVE  TypeInv'
  <2>1. [Fresh EXCEPT !.at = "conflict"] \in Review /\ [review[r] EXCEPT !.open = TRUE] \in Review
    BY Vocabulary DEF Review, Over
  <2>2. [NoFile EXCEPT !.by = r] \in File
    BY Vocabulary DEF File
  <2>a. IdOf(r) \in Id
    BY <1>3, IdType DEF Create, Kinds, Placed
  <2>3. files' \in [Kinds -> [Id -> File]]
    <3>1. [files EXCEPT ![kind][IdOf(r)] = [NoFile EXCEPT !.by = r]] \in [Kinds -> [Id -> File]]
      BY <2>a, <2>2, FileType
    <3> QED
      BY <1>3, <3>1 DEF Create
  <2>4. review' \in [Reviews -> Review]
    BY <1>3, <2>1 DEF Create, Goes, Ends
  <2>b. review'[r].at \in Placed => review'[r].diff \in Diffs
    <3>1. CASE Ends(r, "conflict")
      BY <3>1 DEF Goes, Ends, Fresh, Placed
    <3>2. CASE Goes(r, [review[r] EXCEPT !.open = TRUE])
      BY <3>2 DEF Goes, Review
    <3> QED
      BY <1>3, <3>1, <3>2 DEF Create
  <2>5. \A q \in Reviews : review'[q].at \in Placed => review'[q].diff \in Diffs
    BY <1>3, <2>b DEF Create, Goes, Ends
  <2> QED
    BY <1>3, <2>3, <2>4, <2>5 DEF Create
<1>4. ASSUME NEW r \in Reviews, NEW kind \in Kinds, Write(r, kind)
      PROVE  TypeInv'
  <2>1. [by |-> r, whole |-> TRUE, findings |-> review[r].findings] \in File
    BY Vocabulary DEF Review
  <2>a. IdOf(r) \in Id
    BY <1>4, IdType DEF Write, Kinds, Placed
  <2>2. files' \in [Kinds -> [Id -> File]]
    BY <1>4, <2>a, <2>1, FileType DEF Write
  <2>3. [review[r] EXCEPT !.at = After(kind), !.open = FALSE] \in Review
    BY DEF Review, Placed, After
  <2>4. review' \in [Reviews -> Review]
    BY <1>4, <2>3 DEF Write, Goes
  <2>5. \A q \in Reviews : review'[q].at \in Placed => review'[q].diff \in Diffs
    BY <1>4 DEF Write, Goes, Placed, Review, Kinds
  <2> QED
    BY <1>4, <2>2, <2>4, <2>5 DEF Write
<1>5. ASSUME NEW r \in Reviews, List(r) \/ \E cut \in Cuts : ListCut(r, cut)
      PROVE  TypeInv'
  <2>1. review[r].at \in Placed
    BY <1>5 DEF List, ListCut, Placed
  <2>a. PICK end \in Cuts \cup {"whole"} : index' = Append(index, Line(Entry(r), end))
    BY <1>5 DEF List, ListCut
  <2>b. Line(Entry(r), end) \in LineOf(Text)
    BY <2>1, EntryType
  <2>2. index' \in Seq(LineOf(Text))
    BY <2>a, <2>b, AppendProperties
  <2>3. [review[r] EXCEPT !.at = "saved"] \in Review /\ [Fresh EXCEPT !.at = "stopped"] \in Review
    BY Vocabulary DEF Review, Placed, Over
  <2>4. review' \in [Reviews -> Review]
    BY <1>5, <2>3 DEF List, ListCut, Goes, Ends
  <2>5. \A q \in Reviews : review'[q].at \in Placed => review'[q].diff \in Diffs
    BY <1>5 DEF List, ListCut, Goes, Ends, Fresh, Placed, Review
  <2> QED
    BY <1>5, <2>2, <2>4, <2>5 DEF List, ListCut
<1>6. ASSUME NEW r \in Reviews, Stop(r)
      PROVE  TypeInv'
  <2>1. [Fresh EXCEPT !.at = "stopped"] \in Review
    BY Vocabulary DEF Review, Over
  <2> QED
    BY <1>6, <2>1 DEF Stop, Goes, Ends, Fresh, Placed
<1>7. ASSUME NEW m \in Markers, NEW e \in Texts(index), Resolve(m, e)
      PROVE  TypeInv'
  <2>1. e \in Text
    BY TextsType
  <2>2. [at |-> "find", entry |-> e, finding |-> <<>>] \in Marking
    BY <2>1 DEF Marking
  <2>3. mark' \in [Markers -> Marking]
    BY <1>7, <2>2 DEF Resolve
  <2>4. mark'[m].at = "find" /\ mark'[m].entry = e /\ \A n \in Markers \ {m} : mark'[n] = mark[n]
    BY <1>7 DEF Resolve
  <2>5. \A n \in Markers :
          /\ mark'[n].at # "none" => mark'[n].entry \in Text
          /\ mark'[n].at = "record" => mark'[n].finding \in Findings
    BY <2>1, <2>4
  <2> QED
    BY <1>7, <2>3, <2>5 DEF Resolve
<1>8. ASSUME NEW m \in Markers, NEW f \in Findings, Check(m, f)
      PROVE  TypeInv'
  <2>1. mark' \in [Markers -> Marking]
    BY <1>8 DEF Check, Marking
  <2> QED
    BY <1>8, <2>1 DEF Check
<1>9. ASSUME NEW m \in Markers, NEW s \in {"open", "fixed"}, NEW end \in Cuts \cup {"whole"},
             Record(m, s, end)
      PROVE  TypeInv'
  <2>1. mark[m].entry \in Text /\ mark[m].finding \in Findings
    BY <1>9 DEF Record
  <2>2. Line(Mark(m, s), end) \in LineOf(Marked)
    BY <2>1 DEF Line, LineOf, Mark, Marked, Text
  <2>3. statuses' \in Seq(LineOf(Marked))
    BY <1>9, <2>2, AppendProperties DEF Record
  <2>4. mark' \in [Markers -> Marking]
    BY <1>9, Vocabulary DEF Record, Rest
  <2> QED
    BY <1>9, <2>3, <2>4 DEF Record, Rest, Idle
<1>10. ASSUME NEW m \in Markers, GiveUp(m)
       PROVE  TypeInv'
  BY <1>10, Vocabulary DEF GiveUp, Rest, Idle
<1>11. CASE UNCHANGED vars
  BY <1>11 DEF vars
<1> QED
  BY <1>1, <1>2, <1>3, <1>4, <1>5, <1>6, <1>7, <1>8, <1>9, <1>10, <1>11
     DEF Next, ReviewStep, MarkStep

-----------------------------------------------------------------------------
(* What a step leaves alone.                                               *)

\* A review changes its own record, and no file but its own or one that is not there;
\* whoever marks changes neither.
LEMMA StepOfOne ==
  ASSUME TypeInv, OwnInv, [Next]_vars
  PROVE  \/ UNCHANGED <<files, review, index>>
         \/ \E r \in Reviews :
               /\ ReviewStep(r) /\ UNCHANGED <<statuses, mark>>
               /\ review[r].at \notin Over
               /\ \A q \in Reviews \ {r} : review'[q] = review[q]
               /\ \A kind \in Kinds, id \in Id :
                     \/ files'[kind][id] = files[kind][id]
                     \/ files[kind][id] = NoFile
                     \/ files[kind][id] = Begun(r)
<1>1. CASE \E m \in Markers : MarkStep(m)
  BY <1>1 DEF MarkStep, Resolve, Check, Record, GiveUp
<1>2. CASE UNCHANGED vars
  BY <1>2 DEF vars
<1>3. ASSUME NEW r \in Reviews, ReviewStep(r)
      PROVE  /\ UNCHANGED <<statuses, mark>>
             /\ review[r].at \notin Over
             /\ \A q \in Reviews \ {r} : review'[q] = review[q]
             /\ \A kind \in Kinds, id \in Id :
                   \/ files'[kind][id] = files[kind][id]
                   \/ files[kind][id] = NoFile
                   \/ files[kind][id] = Begun(r)
  <2> USE DEF TypeInv, Goes, Ends, Over
  <2>1. CASE \E tree, expected \in Diffs \cup {Nothing} : Collect(r, tree, expected)
    BY <2>1 DEF Collect
  <2>2. CASE \E found \in Answers, t \in 1 .. MaxSecond : Answered(r, found, t)
    BY <2>2 DEF Answered
  <2>3. ASSUME NEW kind \in Kinds, Create(r, kind)
        PROVE  /\ UNCHANGED <<statuses, mark>>
               /\ review[r].at \notin Over
               /\ \A q \in Reviews \ {r} : review'[q] = review[q]
               /\ \A k \in Kinds, id \in Id :
                     files'[k][id] = files[k][id] \/ files[k][id] = NoFile
    <3>1. CASE files[kind][IdOf(r)] # NoFile
      BY <2>3, <3>1 DEF Create, Kinds
    <3>2. CASE files[kind][IdOf(r)] = NoFile
      BY <2>3, <3>2 DEF Create, Kinds
    <3> QED
      BY <3>1, <3>2
  <2>4. ASSUME NEW kind \in Kinds, Write(r, kind)
        PROVE  /\ UNCHANGED <<statuses, mark>>
               /\ review[r].at \notin Over
               /\ \A q \in Reviews \ {r} : review'[q] = review[q]
               /\ \A k \in Kinds, id \in Id :
                     files'[k][id] = files[k][id] \/ files[k][id] = Begun(r)
    <3>1. files[kind][IdOf(r)] = Begun(r)
      BY <2>4 DEF Write, OwnInv, Own
    <3> QED
      BY <2>4, <3>1 DEF Write, Kinds
  <2>5. CASE List(r) \/ (\E cut \in Cuts : ListCut(r, cut)) \/ Stop(r)
    BY <2>5 DEF List, ListCut, Stop, Working
  <2> QED
    BY <1>3, <2>1, <2>2, <2>3, <2>4, <2>5 DEF ReviewStep
<1> QED
  BY <1>1, <1>2, <1>3 DEF Next

\* A file that is whole stays as it is.
LEMMA WholeStays ==
  ASSUME TypeInv, OwnInv, [Next]_vars, NEW kind \in Kinds, NEW id \in Id,
         files[kind][id].whole
  PROVE  files'[kind][id] = files[kind][id]
<1>1. files[kind][id] # NoFile /\ \A r \in Reviews : files[kind][id] # Begun(r)
  BY Vocabulary DEF NoFile
<1> QED
  BY <1>1, StepOfOne

\* What a review has begun stays its own while others work.
LEMMA OwnStays ==
  ASSUME TypeInv, OwnInv, [Next]_vars, NEW q \in Reviews, review'[q] = review[q],
         NEW kind \in Kinds, NEW id \in Id,
         ~ ReviewStep(q), files[kind][id].by = q
  PROVE  files'[kind][id] = files[kind][id]
<1>1. files[kind][id] # NoFile
  BY NobodyAssumption DEF NoFile
<1>2. \A r \in Reviews : files[kind][id] = Begun(r) => r = q
  BY Vocabulary
<1> QED
  BY <1>1, <1>2, StepOfOne

-----------------------------------------------------------------------------
(* The invariant is kept.                                                  *)

LEMMA OwnStart == Init => OwnInv
BY DEF Init, OwnInv, Own, Fresh

\* A review keeps what is its own while it takes no step.
LEMMA OwnWaits ==
  ASSUME TypeInv, OwnInv, [Next]_vars, NEW q \in Reviews, ~ ReviewStep(q)
  PROVE  Own(q)'
<1>1. review'[q] = review[q]
  BY StepOfOne
<1>2. IdOf(q)' = IdOf(q) /\ Complete(q)' = Complete(q) /\ Begun(q)' = Begun(q)
  BY <1>1 DEF IdOf, Complete, Begun
<1>3. ASSUME NEW kind \in Kinds, review[q].at \in Placed,
             files[kind][IdOf(q)] \in {Begun(q), Complete(q)}
      PROVE  files'[kind][IdOf(q)] = files[kind][IdOf(q)]
  <2>1. IdOf(q) \in Id
    BY <1>3, IdType
  <2>2. files[kind][IdOf(q)].by = q
    BY <1>3, Vocabulary DEF Complete
  <2> QED
    BY <1>1, <2>1, <2>2, OwnStays
<1> QED
  BY <1>1, <1>2, <1>3 DEF OwnInv, Own, Kinds, Placed

LEMMA OwnSteps ==
  ASSUME TypeInv, OwnInv, NEW r \in Reviews, ReviewStep(r)
  PROVE  Own(r)'
<1> USE DEF TypeInv, Goes, Ends
<1>1. CASE \E tree, expected \in Diffs \cup {Nothing} : Collect(r, tree, expected)
  <2>1. PICK tree, expected \in Diffs \cup {Nothing} : Collect(r, tree, expected)
    BY <1>1
  <2>2. review'[r].at \in {"stopped", "turn"} /\ review'[r].open = FALSE
    BY <2>1 DEF Collect, Fresh
  <2> QED
    BY <2>2 DEF Own
<1>2. CASE \E found \in Answers, t \in 1 .. MaxSecond : Answered(r, found, t)
  BY <1>2 DEF Answered, OwnInv, Own, Review, Kinds
<1>3. ASSUME NEW kind \in Kinds, Create(r, kind)
      PROVE  Own(r)'
  <2>0. IdOf(r) \in Id
    BY <1>3, IdType DEF Create, Kinds, Placed
  <2>1. CASE files[kind][IdOf(r)] # NoFile
    BY <1>3, <2>1 DEF Create, Own, Fresh
  <2>2. CASE files[kind][IdOf(r)] = NoFile
    <3>1. review'[r] = [review[r] EXCEPT !.open = TRUE]
      BY <1>3, <2>2 DEF Create
    <3>2. IdOf(r)' = IdOf(r) /\ Complete(r)' = Complete(r)
      BY <3>1 DEF IdOf, Complete, Review
    <3>3. files'[kind][IdOf(r)] = Begun(r)
      <4>1. files' = [files EXCEPT ![kind][IdOf(r)] = Begun(r)]
        BY <1>3, <2>2 DEF Create, Begun
      <4> QED
        BY <4>1, <2>0
    <3>4. kind = "markdown" => files'["json"][IdOf(r)] = files["json"][IdOf(r)]
      BY <1>3, <2>2 DEF Create, Kinds
    <3>5. review'[r].at = kind /\ review[r].at = kind
      BY <1>3, <3>1 DEF Create, Review
    <3> QED
      BY <3>2, <3>3, <3>4, <3>5 DEF OwnInv, Own, Kinds
  <2> QED
    BY <2>1, <2>2
<1>4. ASSUME NEW kind \in Kinds, Write(r, kind)
      PROVE  Own(r)'
  <2>0. IdOf(r) \in Id
    BY <1>4, IdType DEF Write, Kinds, Placed
  <2>1. review'[r] = [review[r] EXCEPT !.at = After(kind), !.open = FALSE]
    BY <1>4 DEF Write
  <2>2. IdOf(r)' = IdOf(r) /\ Complete(r)' = Complete(r)
    BY <2>1 DEF IdOf, Complete, Review
  <2>3. files'[kind][IdOf(r)] = Complete(r)
    BY <1>4, <2>0 DEF Write, Complete
  <2>4. kind = "markdown" => files'["json"][IdOf(r)] = files["json"][IdOf(r)]
    BY <1>4 DEF Write, Kinds
  <2>5. review'[r].at = After(kind) /\ review[r].at = kind /\ ~review'[r].open
    BY <1>4, <2>1 DEF Write, Review
  <2> QED
    BY <2>2, <2>3, <2>4, <2>5 DEF OwnInv, Own, Kinds, After
<1>5. CASE List(r)
  <2>1. review'[r] = [review[r] EXCEPT !.at = "saved"] /\ UNCHANGED files
    BY <1>5 DEF List
  <2>2. IdOf(r)' = IdOf(r) /\ Complete(r)' = Complete(r)
    BY <2>1 DEF IdOf, Complete, Review
  <2>3. review'[r].at = "saved" /\ review[r].at = "index" /\ review'[r].open = review[r].open
    BY <1>5, <2>1 DEF List, Review
  <2> QED
    BY <2>1, <2>2, <2>3 DEF OwnInv, Own, Kinds
<1>6. CASE (\E cut \in Cuts : ListCut(r, cut)) \/ Stop(r)
  BY <1>6 DEF ListCut, Stop, Own, Fresh
<1> QED
  BY <1>1, <1>2, <1>3, <1>4, <1>5, <1>6 DEF ReviewStep

LEMMA OwnStep == TypeInv /\ OwnInv /\ [Next]_vars => OwnInv'
<1> SUFFICES ASSUME TypeInv, OwnInv, [Next]_vars, NEW q \in Reviews PROVE Own(q)'
  BY DEF OwnInv
<1> QED
  BY OwnWaits, OwnSteps

\* The index grows by the line of a review that ends with it.
LEMMA IndexGrows ==
  ASSUME TypeInv, [Next]_vars
  PROVE  \/ index' = index
         \/ \E r \in Reviews, end \in Cuts \cup {"whole"} :
               /\ review[r].at = "index" /\ ReviewStep(r)
               /\ index' = Append(index, Line(Entry(r), end))
               /\ review'[r].at \in {"saved", "stopped"}
               /\ UNCHANGED files
<1>1. CASE \E m \in Markers : MarkStep(m)
  BY <1>1 DEF MarkStep, Resolve, Check, Record, GiveUp
<1>2. CASE UNCHANGED vars
  BY <1>2 DEF vars
<1>3. ASSUME NEW r \in Reviews, ReviewStep(r), index' # index
      PROVE  \E end \in Cuts \cup {"whole"} :
               /\ review[r].at = "index"
               /\ index' = Append(index, Line(Entry(r), end))
               /\ review'[r].at \in {"saved", "stopped"}
               /\ UNCHANGED files
  <2>1. List(r) \/ \E cut \in Cuts : ListCut(r, cut)
    BY <1>3 DEF ReviewStep, Collect, Answered, Create, Write, Stop
  <2>2. CASE List(r)
    BY <2>2 DEF List, Goes, TypeInv, Review
  <2>3. CASE \E cut \in Cuts : ListCut(r, cut)
    BY <2>3 DEF ListCut, Ends, Goes, TypeInv, Fresh
  <2> QED
    BY <2>1, <2>2, <2>3
<1> QED
  BY <1>1, <1>2, <1>3 DEF Next

\* What an append does to the positions and texts of a log.
LEMMA Appended ==
  ASSUME NEW T, NEW log \in Seq(T), NEW line \in T, NEW log2, log2 = Append(log, line)
  PROVE  /\ DOMAIN log2 = DOMAIN log \cup {Len(log) + 1}
         /\ Len(log) + 1 \notin DOMAIN log
         /\ \A i \in DOMAIN log : log2[i] = log[i]
         /\ log2[Len(log) + 1] = line
<1>1. /\ DOMAIN log2 = DOMAIN log \cup {Len(log) + 1}
      /\ Len(log) + 1 \notin DOMAIN log
      /\ \A i \in DOMAIN log : log2[i] = log[i]
      /\ log2[Len(log) + 1] = line
  BY AppendProperties
<1> QED
  BY <1>1

LEMMA AppendedTexts ==
  ASSUME NEW T, NEW log \in Seq(T), NEW line \in T
  PROVE  Texts(Append(log, line)) = Texts(log) \cup {line.text}
<1> DEFINE log2 == Append(log, line)
<1>1. /\ DOMAIN log2 = DOMAIN log \cup {Len(log) + 1}
      /\ \A i \in DOMAIN log : log2[i] = log[i]
      /\ log2[Len(log) + 1] = line
  BY Appended
<1> HIDE DEF log2
<1>2. Texts(log2) = Texts(log) \cup {line.text}
  BY <1>1 DEF Texts
<1> QED
  BY <1>2 DEF log2

\* An entry keeps its files and its review.
LEMMA ListedStays ==
  ASSUME TypeInv, OwnInv, ListedInv, [Next]_vars, NEW i \in DOMAIN index
  PROVE  LET e == index[i].text
         IN  /\ \A kind \in Kinds :
                   /\ files'[kind][e.id] = files[kind][e.id]
                   /\ files'[kind][e.id].whole /\ files'[kind][e.id].by = e.by
             /\ e.count = Len(files'["json"][e.id].findings)
             /\ review'[e.by].at \in {"saved", "stopped"}
             /\ review'[e.by] = review[e.by]
<1> DEFINE e == index[i].text
<1>1. e \in Text /\ e.id \in Id /\ e.by \in Reviews
  BY TextsType DEF Texts, Text
<1>2. /\ \A kind \in Kinds : files[kind][e.id].whole /\ files[kind][e.id].by = e.by
      /\ e.count = Len(files["json"][e.id].findings)
      /\ review[e.by].at \in {"saved", "stopped"}
  BY DEF ListedInv
<1> HIDE DEF e
<1>3. \A kind \in Kinds : files'[kind][e.id] = files[kind][e.id]
  BY <1>1, <1>2, WholeStays
<1>4. review'[e.by] = review[e.by]
  BY <1>1, <1>2, StepOfOne DEF Over
<1> QED
  BY <1>2, <1>3, <1>4 DEF e, Kinds

LEMMA ListedStep == TypeInv /\ OwnInv /\ ListedInv /\ [Next]_vars => ListedInv'
<1> SUFFICES ASSUME TypeInv, OwnInv, ListedInv, [Next]_vars PROVE ListedInv'
  OBVIOUS
<1> DEFINE Fits(e) ==
      /\ \A kind \in Kinds : files'[kind][e.id].whole /\ files'[kind][e.id].by = e.by
      /\ e.count = Len(files'["json"][e.id].findings)
      /\ review'[e.by].at \in {"saved", "stopped"}
<1>1. \A i \in DOMAIN index : Fits(index[i].text)
  BY ListedStays
<1>2. SUFFICES \A i \in DOMAIN index' : Fits(index'[i].text)
  BY DEF ListedInv
<1>3. CASE index' = index
  BY <1>1, <1>3
<1>4. ASSUME NEW r \in Reviews, NEW end \in Cuts \cup {"whole"},
             review[r].at = "index", index' = Append(index, Line(Entry(r), end)),
             review'[r].at \in {"saved", "stopped"}, UNCHANGED files
      PROVE  \A i \in DOMAIN index' : Fits(index'[i].text)
  <2>1. Line(Entry(r), end) \in LineOf(Text)
    BY <1>4, EntryType DEF Placed
  <2>a. \A kind \in Kinds : files'[kind][IdOf(r)] = Complete(r)
    BY <1>4 DEF OwnInv, Own, Kinds
  <2>2. Fits(Entry(r))
    BY <1>4, <2>a DEF Complete, Entry, Kinds
  <2>3. Fits(Line(Entry(r), end).text)
    BY <2>2 DEF Line
  <2> HIDE DEF Fits
  <2>4. index \in Seq(LineOf(Text))
    BY DEF TypeInv
  <2>5. /\ DOMAIN index' = DOMAIN index \cup {Len(index) + 1}
        /\ \A i \in DOMAIN index : index'[i] = index[i]
        /\ index'[Len(index) + 1] = Line(Entry(r), end)
    BY <1>4, <2>1, <2>4, Appended
  <2> QED
    BY <1>1, <2>3, <2>5
<1> HIDE DEF Fits
<1> QED
  BY <1>3, <1>4, IndexGrows

\* A review that is about to be listed has no line yet: the artifact of an entry belongs
\* to a review that is over.
LEMMA IdIsNew ==
  ASSUME TypeInv, OwnInv, ListedInv, NEW r \in Reviews, review[r].at = "index",
         NEW i \in DOMAIN index
  PROVE  index[i].text.id # IdOf(r)
<1>1. files["json"][IdOf(r)].by = r
  <2>1. files["json"][IdOf(r)] = Complete(r)
    BY DEF OwnInv, Own
  <2> QED
    BY <2>1 DEF Complete
<1>2. /\ files["json"][index[i].text.id].by = index[i].text.by
      /\ review[index[i].text.by].at \in {"saved", "stopped"}
  BY DEF ListedInv, Kinds
<1> QED
  BY <1>1, <1>2

LEMMA UniqueStep == TypeInv /\ OwnInv /\ ListedInv /\ UniqueInv /\ [Next]_vars => UniqueInv'
<1> SUFFICES ASSUME TypeInv, OwnInv, ListedInv, UniqueInv, [Next]_vars PROVE UniqueInv'
  OBVIOUS
<1>1. CASE index' = index
  BY <1>1 DEF UniqueInv
<1>2. ASSUME NEW r \in Reviews, NEW end \in Cuts \cup {"whole"},
             review[r].at = "index", index' = Append(index, Line(Entry(r), end))
      PROVE  UniqueInv'
  <2>1. Line(Entry(r), end) \in LineOf(Text)
    BY <1>2, EntryType DEF Placed
  <2>2. index \in Seq(LineOf(Text))
    BY DEF TypeInv
  <2>3. /\ DOMAIN index' = DOMAIN index \cup {Len(index) + 1}
        /\ \A i \in DOMAIN index : index'[i] = index[i]
        /\ index'[Len(index) + 1] = Line(Entry(r), end)
    BY <1>2, <2>1, <2>2, Appended
  <2>4. index'[Len(index) + 1].text.id = IdOf(r)
    BY <2>3 DEF Line, Entry
  <2>5. \A i \in DOMAIN index : index[i].text.id # IdOf(r)
    BY <1>2, IdIsNew
  <2> QED
    BY <2>3, <2>4, <2>5 DEF UniqueInv
<1> QED
  BY <1>1, <1>2, IndexGrows

\* Entries stay.
LEMMA TextsStay == TypeInv /\ [Next]_vars => Texts(index) \subseteq Texts(index')
<1> SUFFICES ASSUME TypeInv, [Next]_vars PROVE Texts(index) \subseteq Texts(index')
  OBVIOUS
<1>1. ASSUME NEW r \in Reviews, NEW end \in Cuts \cup {"whole"},
             review[r].at = "index", index' = Append(index, Line(Entry(r), end))
      PROVE  Texts(index) \subseteq Texts(index')
  <2>1. Line(Entry(r), end) \in LineOf(Text)
    BY <1>1, EntryType DEF Placed
  <2>2. index \in Seq(LineOf(Text))
    BY DEF TypeInv
  <2> QED
    BY <1>1, <2>1, <2>2, AppendedTexts
<1> QED
  BY <1>1, IndexGrows

\* Only the line in the index makes a review one that was saved.
LEMMA ReportedByList ==
  ASSUME TypeInv, NEW r \in Reviews, ReviewStep(r), ~ List(r)
  PROVE  review'[r].at # "saved"
<1> USE DEF TypeInv, Goes, Ends
<1>1. ASSUME NEW tree, NEW expected, Collect(r, tree, expected)
      PROVE  review'[r].at # "saved"
  BY <1>1 DEF Collect, Fresh
<1>2. ASSUME NEW found, NEW t, Answered(r, found, t)
      PROVE  review'[r].at # "saved"
  BY <1>2 DEF Answered, Review
<1>3. ASSUME NEW kind \in Kinds, Create(r, kind)
      PROVE  review'[r].at # "saved"
  <2>1. CASE Ends(r, "conflict")
    BY <2>1 DEF Fresh
  <2>2. CASE Goes(r, [review[r] EXCEPT !.open = TRUE])
    BY <1>3, <2>2 DEF Create, Review, Kinds
  <2> QED
    BY <1>3, <2>1, <2>2 DEF Create
<1>4. ASSUME NEW kind \in Kinds, Write(r, kind)
      PROVE  review'[r].at # "saved"
  BY <1>4 DEF Write, Review, After
<1>5. ASSUME (\E cut \in Cuts : ListCut(r, cut)) \/ Stop(r)
      PROVE  review'[r].at # "saved"
  BY <1>5 DEF ListCut, Stop, Fresh
<1> QED
  BY <1>1, <1>2, <1>3, <1>4, <1>5 DEF ReviewStep

LEMMA SavedStep == TypeInv /\ OwnInv /\ SavedInv /\ [Next]_vars => SavedInv'
<1> SUFFICES ASSUME TypeInv, OwnInv, SavedInv, [Next]_vars,
                    NEW q \in Reviews, review'[q].at = "saved"
             PROVE  Entry(q)' \in Texts(index')
  BY DEF SavedInv
<1>1. CASE review'[q] = review[q]
  <2>1. Entry(q)' = Entry(q)
    BY <1>1 DEF Entry, IdOf
  <2> QED
    BY <1>1, <2>1, TextsStay DEF SavedInv
<1>2. CASE review'[q] # review[q]
  <2>1. ReviewStep(q)
    BY <1>2, StepOfOne
  <2>2. List(q)
    <3>1. review'[q].at # "saved" \/ List(q)
      BY <2>1, ReportedByList
    <3> QED
      BY <3>1
  <2>3. review'[q] = [review[q] EXCEPT !.at = "saved"] /\ review[q].at = "index"
    BY <2>2 DEF List, Goes, TypeInv
  <2>4. Entry(q)' = Entry(q)
    BY <2>3 DEF Entry, IdOf, TypeInv, Review
  <2>5. Line(Entry(q), "whole") \in LineOf(Text)
    BY <2>3, EntryType DEF Placed
  <2>6. index \in Seq(LineOf(Text))
    BY DEF TypeInv
  <2>7. Line(Entry(q), "whole").text \in Texts(index')
    BY <2>2, <2>5, <2>6, AppendedTexts DEF List
  <2> QED
    BY <2>4, <2>7 DEF Line
<1> QED
  BY <1>1, <1>2

\* An entry of the index names an artifact that is whole, and stays.
LEMMA ArtifactStays ==
  ASSUME TypeInv, OwnInv, ListedInv, [Next]_vars, NEW e \in Texts(index)
  PROVE  files["json"][e.id].whole /\ files'["json"][e.id] = files["json"][e.id]
<1>1. PICK i \in DOMAIN index : index[i].text = e
  BY DEF Texts
<1> QED
  BY <1>1, ListedStays DEF ListedInv, Kinds

LEMMA MarkStepKeeps ==
  TypeInv /\ OwnInv /\ ListedInv /\ MarkInv /\ [Next]_vars => MarkInv'
<1> SUFFICES ASSUME TypeInv, OwnInv, ListedInv, MarkInv, [Next]_vars, NEW m \in Markers
             PROVE  /\ mark'[m].at # "none" => mark'[m].entry \in Texts(index')
                    /\ mark'[m].at = "record" =>
                          mark'[m].finding \in Ids(files'["json"][mark'[m].entry.id].findings)
  BY DEF MarkInv
<1>1. CASE mark'[m] = mark[m]
  BY <1>1, TextsStay, ArtifactStays DEF MarkInv
<1>2. ASSUME NEW n \in Markers, MarkStep(n), mark'[m] # mark[m]
      PROVE  /\ mark'[m].at # "none" => mark'[m].entry \in Texts(index')
             /\ mark'[m].at = "record" =>
                   mark'[m].finding \in Ids(files'["json"][mark'[m].entry.id].findings)
  <2> USE DEF TypeInv
  <2>0. n = m
    BY <1>2 DEF MarkStep, Resolve, Check, Record, GiveUp, Rest
  <2>1. CASE \E e \in Texts(index) : Resolve(m, e)
    BY <2>1 DEF Resolve
  <2>2. CASE \E f \in Findings : Check(m, f)
    <3> PICK f \in Findings : Check(m, f)
      BY <2>2
    <3>1. /\ mark'[m].entry = mark[m].entry /\ mark'[m].finding = f
          /\ f \in Ids(files["json"][mark[m].entry.id].findings)
          /\ mark[m].at = "find" /\ UNCHANGED <<files, index>>
      BY DEF Check, Marking
    <3> QED
      BY <3>1 DEF MarkInv
  <2>3. CASE (\E s \in {"open", "fixed"}, end \in Cuts \cup {"whole"} : Record(m, s, end)) \/ GiveUp(m)
    BY <2>3 DEF Record, GiveUp, Rest, Idle
  <2> QED
    BY <1>2, <2>0, <2>1, <2>2, <2>3 DEF MarkStep
<1>3. ASSUME ~ \E n \in Markers : MarkStep(n)
      PROVE  mark' = mark
  BY <1>3 DEF Next, ReviewStep, Collect, Answered, Create, Write, List, ListCut, Stop, vars
<1> QED
  BY <1>1, <1>2, <1>3

LEMMA StatusStep ==
  TypeInv /\ OwnInv /\ ListedInv /\ MarkInv /\ StatusInv /\ [Next]_vars => StatusInv'
<1> SUFFICES ASSUME TypeInv, OwnInv, ListedInv, MarkInv, StatusInv, [Next]_vars
             PROVE  StatusInv'
  OBVIOUS
<1> DEFINE Good(s) ==
      files'["json"][s.id].whole /\ s.finding \in Ids(files'["json"][s.id].findings)
<1>1. \A s \in Texts(statuses) : Good(s)
  <2> TAKE s \in Texts(statuses)
  <2>1. s.id \in Id /\ files["json"][s.id].whole /\ s.finding \in Ids(files["json"][s.id].findings)
    BY TextsType DEF StatusInv, Marked
  <2> QED
    BY <2>1, WholeStays DEF Kinds
<1>2. CASE statuses' = statuses
  BY <1>1, <1>2 DEF StatusInv
<1>3. ASSUME NEW m \in Markers, NEW status \in {"open", "fixed"}, NEW end \in Cuts \cup {"whole"},
             Record(m, status, end)
      PROVE  StatusInv'
  <2>1. /\ mark[m].at = "record" /\ UNCHANGED files
        /\ statuses' = Append(statuses, Line(Mark(m, status), end))
    BY <1>3 DEF Record
  <2>2. mark[m].entry \in Text /\ mark[m].finding \in Findings
    BY <2>1 DEF TypeInv
  <2>3. Line(Mark(m, status), end) \in LineOf(Marked)
    BY <2>2 DEF Line, LineOf, Mark, Marked, Text
  <2>4. statuses \in Seq(LineOf(Marked))
    BY DEF TypeInv
  <2>5. Texts(statuses') = Texts(statuses) \cup {Line(Mark(m, status), end).text}
    BY <2>1, <2>3, <2>4, AppendedTexts
  <2>6. Good(Mark(m, status))
    BY <2>1, ArtifactStays DEF MarkInv, Mark
  <2>7. Line(Mark(m, status), end).text = Mark(m, status)
    BY DEF Line
  <2> QED
    BY <1>1, <2>5, <2>6, <2>7 DEF StatusInv
<1>4. ASSUME ~ \E m \in Markers, s \in {"open", "fixed"}, end \in Cuts \cup {"whole"} :
                  Record(m, s, end)
      PROVE  statuses' = statuses
  BY <1>4 DEF Next, ReviewStep, Collect, Answered, Create, Write, List, ListCut, Stop,
              MarkStep, Resolve, Check, GiveUp, vars
<1> QED
  BY <1>2, <1>3, <1>4

LEMMA Inductive == Spec => []IInv
<1>1. Init => IInv
  <2> SUFFICES ASSUME Init PROVE IInv
    OBVIOUS
  <2>1. index = <<>> /\ statuses = <<>> /\ DOMAIN index = {} /\ Texts(index) = {}
          /\ Texts(statuses) = {}
    BY DEF Init, Texts
  <2>2. ListedInv /\ UniqueInv /\ StatusInv
    BY <2>1 DEF ListedInv, UniqueInv, StatusInv
  <2>3. SavedInv /\ MarkInv
    BY DEF Init, SavedInv, MarkInv, Fresh, Idle
  <2> QED
    BY <2>2, <2>3, TypeStart, OwnStart DEF IInv
<1>2. IInv /\ [Next]_vars => IInv'
  BY TypeStep, OwnStep, ListedStep, UniqueStep, SavedStep, MarkStepKeeps, StatusStep DEF IInv
<1> QED
  BY <1>1, <1>2, PTL DEF Spec

-----------------------------------------------------------------------------
(* The theorems.                                                           *)

\* Every variable has its type.
THEOREM ReviewTypeCorrect == Spec => []TypeOK
<1>1. IInv => TypeOK
  <2> SUFFICES ASSUME IInv PROVE TypeOK
    OBVIOUS
  <2>1. \A i \in DOMAIN index : index[i].text \in Text
    <3>1. index \in Seq(LineOf(Text))
      BY DEF IInv, TypeInv
    <3>2. \A i \in DOMAIN index : index[i] \in LineOf(Text)
      BY ONLY <3>1
    <3> QED
      BY ONLY <3>2 DEF LineOf
  <2>2. \A i \in DOMAIN statuses : statuses[i].text \in Marked
    <3>1. statuses \in Seq(LineOf(Marked))
      BY DEF IInv, TypeInv
    <3>2. \A i \in DOMAIN statuses : statuses[i] \in LineOf(Marked)
      BY ONLY <3>1
    <3> QED
      BY ONLY <3>2 DEF LineOf
  <2>3. \A r \in Reviews : review[r].findings \in Answers
    BY DEF IInv, TypeInv, Review
  <2>4. files \in [Kinds -> [Id -> File]]
    BY DEF IInv, TypeInv
  <2> QED
    BY <2>1, <2>2, <2>3, <2>4 DEF TypeOK, Texts, Text, Marked
<1> QED
  BY <1>1, Inductive, PTL

\* Whatever is listed, by a line cut short of its newline too, has its artifact and its
\* report whole and its own, for any number of reviews that start, clash and die.
THEOREM ListedReviewsAreComplete == Spec => []ListedAreComplete
<1>1. IInv => ListedAreComplete
  BY DEF IInv, ListedInv, ListedAreComplete
<1> QED
  BY <1>1, Inductive, PTL

\* Whatever was reported is found by its id, alone, once the index can be read.
THEOREM ReportedReviewsAreListed == Spec => []ReportedAreListed
<1>1. ASSUME IInv, NEW r \in Reviews, review[r].at = "saved"
      PROVE  Cardinality(Matches(index, IdOf(r))) = 1 /\ Entry(r) \in Texts(index)
  <2>1. Entry(r) \in Texts(index)
    BY <1>1 DEF IInv, SavedInv
  <2>2. PICK i \in DOMAIN index : index[i].text = Entry(r)
    BY <2>1 DEF Texts
  <2>3. index[i].text.id = IdOf(r)
    BY <2>2 DEF Entry
  <2>4. Matches(index, IdOf(r)) = {i}
    BY <1>1, <2>3 DEF Matches, IInv, UniqueInv
  <2> QED
    BY <2>1, <2>4, FS_Singleton
<1>2. IInv => ReportedAreListed
  BY <1>1 DEF ReportedAreListed
<1> QED
  BY <1>2, Inductive, PTL

\* What is settled is a finding of the artifact: no status line names another.
LEMMA SettledAreFindings ==
  ASSUME IInv, NEW id \in Id
  PROVE  Settled(id) \subseteq Ids(files["json"][id].findings)
<1> SUFFICES ASSUME NEW f \in Settled(id) PROVE f \in Ids(files["json"][id].findings)
  OBVIOUS
<1>1. LinesOf(id, f) # {}
  BY DEF Settled, StatusOf
<1>2. PICK i \in DOMAIN statuses : statuses[i].text.id = id /\ statuses[i].text.finding = f
  BY <1>1 DEF LinesOf
<1> QED
  BY <1>2 DEF IInv, StatusInv, Texts

\* Of the places of a sequence, those that hold one of some of its values are at least
\* as many as the values, and as many if no value stands at two places.
LEMMA PlacesOfValues ==
  ASSUME NEW T, NEW seq \in Seq(T), NEW S, S \subseteq Ids(seq)
  PROVE  LET P == {i \in DOMAIN seq : seq[i] \in S}
             R == {i \in DOMAIN seq : seq[i] \notin S}
         IN  /\ Cardinality(S) \in Nat /\ Cardinality(P) \in Nat
             /\ Cardinality(S) <= Cardinality(P) /\ Cardinality(P) <= Len(seq)
             /\ Distinct(seq) => Cardinality(S) = Cardinality(P)
             /\ Cardinality(R) = Len(seq) - Cardinality(P)
<1> DEFINE D == DOMAIN seq
           P == {i \in D : seq[i] \in S}
           R == {i \in D : seq[i] \notin S}
           f == [i \in P |-> seq[i]]
<1>1. D = 1 .. Len(seq) /\ Len(seq) \in Nat
  OBVIOUS
<1>2. IsFiniteSet(D) /\ Cardinality(D) = Len(seq)
  BY <1>1, FS_Interval
<1>3. /\ IsFiniteSet(P) /\ Cardinality(P) \in Nat /\ Cardinality(P) <= Len(seq)
      /\ Cardinality(R) = Cardinality(D) - Cardinality(D \cap P)
  <2>1. P \subseteq D /\ R = D \ P
    OBVIOUS
  <2> HIDE DEF P, R, D
  <2> QED
    BY <1>2, <2>1, FS_Subset, FS_CardinalityType, FS_Difference
<1>4. D \cap P = P
  OBVIOUS
<1>5. f \in Surjection(P, S)
  BY DEF Ids, Surjection
<1>6. IsFiniteSet(S) /\ Cardinality(S) <= Cardinality(P)
  <2> HIDE DEF P, f
  <2> QED
    BY <1>3, <1>5, FS_Surjection
<1>7. ASSUME Distinct(seq) PROVE Cardinality(S) = Cardinality(P)
  <2>1. f \in Injection(P, S)
    BY <1>5, <1>7 DEF Distinct, Injection, IsInjective, Surjection
  <2> HIDE DEF P, f
  <2> QED
    BY <1>3, <1>5, <2>1, FS_Surjection
<1>8. Cardinality(S) \in Nat
  BY <1>6, FS_CardinalityType
<1>9. Cardinality(R) = Len(seq) - Cardinality(P)
  <2> HIDE DEF P, R, D
  <2> QED
    BY <1>2, <1>3, <1>4
<1> HIDE DEF f, D
<1>10. /\ Cardinality(S) \in Nat /\ Cardinality(P) \in Nat
       /\ Cardinality(S) <= Cardinality(P) /\ Cardinality(P) <= Len(seq)
       /\ Distinct(seq) => Cardinality(S) = Cardinality(P)
       /\ Cardinality(R) = Len(seq) - Cardinality(P)
  <2> HIDE DEF P, R
  <2> QED
    BY <1>3, <1>6, <1>7, <1>8, <1>9
<1> QED
  BY <1>10 DEF D

\* The summary's count of open findings is never below the number of findings nobody
\* settled, and is that number when the ids of the answer are distinct.
THEOREM SummaryCountsAddUp == Spec => []CountsAddUp
<1>1. ASSUME IInv, NEW e \in Texts(index)
      PROVE  /\ OpenCount(e) >= Cardinality(Unsettled(e))
             /\ Distinct(files["json"][e.id].findings) => OpenCount(e) = Cardinality(Unsettled(e))
  <2> DEFINE F == files["json"][e.id].findings
             S == Settled(e.id)
             P == {i \in DOMAIN F : F[i] \in S}
             R == {i \in DOMAIN F : F[i] \notin S}
  <2>1. PICK i \in DOMAIN index : index[i].text = e
    BY <1>1 DEF Texts
  <2>2. e.id \in Id /\ e.count = Len(F)
    BY <1>1, <2>1, TextsType DEF IInv, ListedInv, Text
  <2>3. F \in Seq(Findings)
    BY <1>1, <2>2, AnswersAreSequences DEF IInv, TypeInv, File, Kinds
  <2>4. S \subseteq Ids(F)
    BY <1>1, <2>2, SettledAreFindings
  <2>5. Unsettled(e) = R
    BY DEF Unsettled
  <2>6. OpenCount(e) = IF Cardinality(S) < e.count THEN e.count - Cardinality(S) ELSE 0
    BY DEF OpenCount
  <2> HIDE DEF F, S
  <2>7. /\ Cardinality(S) \in Nat /\ Cardinality(P) \in Nat
        /\ Cardinality(S) <= Cardinality(P) /\ Cardinality(P) <= Len(F)
        /\ Distinct(F) => Cardinality(S) = Cardinality(P)
        /\ Cardinality(R) = Len(F) - Cardinality(P)
    BY <2>3, <2>4, PlacesOfValues
  <2>8. Len(F) \in Nat
    BY <2>3
  <2> HIDE DEF P, R
  <2>9. OpenCount(e) = Len(F) - Cardinality(S)
    BY <2>2, <2>6, <2>7, <2>8
  <2>10. OpenCount(e) >= Cardinality(R) /\ (Distinct(F) => OpenCount(e) = Cardinality(R))
    BY <2>7, <2>8, <2>9
  <2> QED
    BY <2>5, <2>10 DEF F
<1>2. IInv => CountsAddUp
  BY <1>1 DEF CountsAddUp
<1> QED
  BY <1>2, Inductive, PTL

\* Newer is a strict order of ids, and any two that differ are ordered.
LEMMA NewerOrders ==
  ASSUME NEW a \in Id, NEW b \in Id, NEW c \in Id
  PROVE  /\ ~ Newer(a, a)
         /\ ~ Newer(a, b) /\ ~ Newer(b, c) => ~ Newer(a, c)
         /\ Newer(a, b) => ~ Newer(b, a)
<1>1. \A id \in Id : id.second \in Int /\ id.diff \in Int
  <2> TAKE id \in Id
  <2>1. id.second \in 1 .. MaxSecond /\ id.diff \in Diffs
    BY DEF Id
  <2>2. id.second \in Int
    BY <2>1
  <2>3. id.diff \in Nat
    BY <2>1, DiffsAssumption
  <2> QED
    BY <2>2, <2>3
<1> QED
  BY <1>1 DEF Newer

\* The subsets of a finite set have no endless descent.
LEMMA SmallestSubset ==
  ASSUME NEW S, IsFiniteSet(S), NEW T, T \subseteq SUBSET S, T # {}
  PROVE  \E U \in T : \A V \in T : V \subseteq U => V = U
<1> DEFINE R == StrictSubsetOrdering(S)
<1>1. IsWellFoundedOn(R, FiniteSubsetsOf(S))
  BY FS_StrictSubsetOrderingWellFounded
<1>2. T \subseteq FiniteSubsetsOf(S)
  BY FS_Subset DEF FiniteSubsetsOf
<1> HIDE DEF R
<1>3. PICK U \in T : \A V \in T : ~ (<<V, U>> \in R)
  BY <1>1, <1>2, WFMin
<1> QED
  BY <1>2, <1>3 DEF R, StrictSubsetOrdering

\* Every log has an entry that no other is newer than: there is no smallest set of
\* entries without one.
LEMMA LatestExists ==
  ASSUME NEW log \in Seq(LineOf(Text)), log # <<>>
  PROVE  Latest(log) \in Texts(log) /\ \A d \in Texts(log) : ~ Newer(d.id, Latest(log).id)
<1> DEFINE Top(es) == \E e \in es : \A d \in es : ~ Newer(d.id, e.id)
           Lacking == {es \in SUBSET Texts(log) : es # {} /\ ~ Top(es)}
<1>1. \A e \in Texts(log) : e.id \in Id
  BY TextsOf DEF Text
<1>2. IsFiniteSet(Texts(log)) /\ Texts(log) # {}
  <2>1. DOMAIN log = 1 .. Len(log) /\ Len(log) \in Nat /\ Len(log) # 0
    BY EmptySeq, LenProperties
  <2>2. IsFiniteSet(DOMAIN log) /\ 1 \in DOMAIN log
    BY <2>1, FS_Interval
  <2> DEFINE f == [i \in DOMAIN log |-> log[i].text]
  <2>3. f \in Surjection(DOMAIN log, Texts(log))
    BY DEF Surjection, Texts
  <2> QED
    BY <2>2, <2>3, FS_Surjection DEF Texts
<1>3. Lacking = {}
  <2> SUFFICES ASSUME Lacking # {} PROVE FALSE
    OBVIOUS
  <2>a. Lacking \subseteq SUBSET Texts(log)
    OBVIOUS
  <2>b. \A V : V \in Lacking <=> V \subseteq Texts(log) /\ V # {} /\ ~ Top(V)
    OBVIOUS
  <2> HIDE DEF Lacking
  <2>1. PICK U \in Lacking : \A V \in Lacking : V \subseteq U => V = U
    BY <1>2, <2>a, SmallestSubset
  <2>2. U # {} /\ U \subseteq Texts(log) /\ ~ Top(U)
    BY <2>b
  <2>3. PICK new \in U : TRUE
    BY <2>2
  <2> DEFINE W == U \ {new}
  <2>4. W \notin Lacking
    BY <2>1, <2>3
  <2>5. CASE W = {}
    <3>1. \A d \in U : d = new
      BY <2>5
    <3>2. new.id \in Id
      BY <1>1, <2>2
    <3>3. ~ Newer(new.id, new.id)
      BY <3>2, NewerOrders
    <3> QED
      BY <2>2, <3>1, <3>3
  <2>6. CASE W # {}
    <3>1. Top(W)
      BY <2>2, <2>b, <2>4, <2>6
    <3>2. PICK e \in W : \A d \in W : ~ Newer(d.id, e.id)
      BY <3>1
    <3>3. e.id \in Id /\ new.id \in Id /\ \A d \in W : d.id \in Id
      BY <1>1, <2>2
    <3>4. CASE Newer(new.id, e.id)
      <4>1. \A d \in W : ~ Newer(d.id, new.id)
        <5> TAKE d \in W
        <5>1. ~ Newer(d.id, e.id) /\ ~ Newer(e.id, new.id)
          BY <3>2, <3>3, <3>4, NewerOrders
        <5> QED
          BY <3>3, <5>1, NewerOrders
      <4>2. \A d \in U : ~ Newer(d.id, new.id)
        BY <3>3, <4>1, NewerOrders
      <4> QED
        BY <2>2, <4>2
    <3>5. CASE ~ Newer(new.id, e.id)
      <4>1. \A d \in U : ~ Newer(d.id, e.id)
        BY <3>2, <3>5
      <4> QED
        BY <2>2, <4>1
    <3> QED
      BY <3>4, <3>5
  <2> QED
    BY <2>5, <2>6
<1>4. \E e \in Texts(log) : \A d \in Texts(log) : ~ Newer(d.id, e.id)
  BY <1>2, <1>3
<1> QED
  BY <1>4 DEF Latest

\* "latest" never goes back to an older review, whatever the clock does and however late
\* a slow review is listed.
THEOREM LatestIsMonotone == Spec => LatestNeverGoesBack
<1>1. TypeInv /\ TypeInv' /\ [Next]_vars =>
        [Readable(index) /\ index # <<>> /\ Readable(index')
           => ~Newer(Latest(index).id, Latest(index').id)]_vars
  <2> SUFFICES ASSUME TypeInv, TypeInv', [Next]_vars, index # <<>>
               PROVE  ~Newer(Latest(index).id, Latest(index').id)
    OBVIOUS
  <2>1. index \in Seq(LineOf(Text)) /\ index' \in Seq(LineOf(Text))
    BY DEF TypeInv, LineOf, Text, Id
  <2>2. Latest(index) \in Texts(index)
    BY <2>1, LatestExists
  <2>3. Latest(index) \in Texts(index')
    BY <2>2, TextsStay
  <2>4. index' # <<>>
    BY <2>3 DEF Texts
  <2> QED
    BY <2>1, <2>3, <2>4, LatestExists
<1>2. IInv => TypeInv
  BY DEF IInv
<1> QED
  BY <1>1, <1>2, Inductive, PTL DEF Spec, LatestNeverGoesBack

=============================================================================
