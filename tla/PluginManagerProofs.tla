------------------------- MODULE PluginManagerProofs -------------------------
(***************************************************************************)
(* Proofs about PluginManager, for any number of programs and plugins.     *)
(* PassRepairs: only a pass that nobody disturbed is spoken of, so what it *)
(* has done to the files is what they hold (PhaseInv).  That a directory   *)
(* at its recorded version holds nothing else is KeepInv, and that nothing *)
(* is missing there but what a copy in hand is to land, or one given up    *)
(* left out, is WholeInv.                                                  *)
(* LastWordHolds: the history variables of PluginManager tell a write that *)
(* overtook another; the others change the record of their own plugin and  *)
(* of no other (HeldInv), and a command that had its plugin for itself     *)
(* leaves it as it says (ChangeInv, WordInv).                              *)
(***************************************************************************)
EXTENDS PluginManager, TLAPS

-----------------------------------------------------------------------------
(* Types and stages.                                                       *)

Whats == {"none", "list", "install", "update", "uninstall", "enable", "disable"}
Stages == {"off", "up", "fetch", "find", "known", "settings", "empty", "write", "clear",
           "copy", "load", "store", "fill", "sync", "bundled", "discover", "found", "refused"}
Nexts == {"off", "settings", "told", "discover", "found", "refused"}
Records == [Plugins -> 0 .. MaxVersion]
Enablings == [Plugins -> {"unset", "on", "off"}]
Files == Parts \X Versions

Jobs == [what : Whats, plugin : Plugins \cup {Nobody}, at : Stages, then : Nexts,
         item : Plugins \cup {Nobody}, version : 0 .. MaxVersion, landed : SUBSET Parts,
         copy : Records, set : Enablings, passing : BOOLEAN, todo : SUBSET Bundled, old : BOOLEAN,
         disturbed : BOOLEAN, contested : BOOLEAN]

TypeInv ==
    /\ source \in Records /\ dir \in [Plugins -> SUBSET Files]
    /\ registry \in Records /\ settings \in Enablings
    /\ commands \in 0 .. MaxCommands
    /\ word \in [Plugins -> {"gone", "on", "off", "unknown"}] /\ torn \subseteq Bundled
    /\ job \in [Programs -> Jobs]

\* A pass is at a step of a pass, a command at a step of its own.
PassStage(j) ==
    /\ j.at \in {"sync", "bundled", "discover", "found", "refused", "clear", "copy", "store", "fill"}
    /\ j.at \in {"store", "fill"} => j.then \in {"discover", "found", "refused"}
    /\ j.at \in {"clear", "copy"} => j.item \in Bundled
    /\ j.what = "list" \/ (j.what \in {"enable", "disable"} /\ j.plugin \in Plugins)

CommandStage(j) ==
    /\ j.at \notin {"sync", "bundled", "discover", "found", "refused"}
    /\ j.at \notin {"off", "up"} =>
          j.plugin \in Plugins /\ j.what \in {"install", "update", "uninstall", "enable", "disable"}
    /\ j.at = "fetch" => j.what \in {"install", "update"}
    /\ j.at = "find" => j.what \in {"update", "uninstall"}
    /\ j.at = "known" => j.what \in {"enable", "disable"}
    /\ j.at \in {"clear", "copy", "load"} => j.item = j.plugin
    /\ j.at = "clear" => j.what \in {"install", "update", "uninstall"}
    /\ j.at = "copy" => j.what \in {"install", "update"}
    /\ j.at = "load" => j.what = "install" /\ j.version # 0
    /\ j.at \in {"store", "fill"} =>
          \/ j.then = "settings" /\ j.what \in {"install", "uninstall"}
          \/ j.then = "told" /\ j.what = "update"
    /\ j.at \in {"settings", "empty", "write"} => j.what # "update"
    /\ j.what = "install" => j.plugin \in External
    /\ j.what = "uninstall" /\ j.at # "find" => j.plugin \in External

\* What is copied is the plugin's source as it stands.
CopyStage(j, sources) ==
    /\ j.at \in {"clear", "copy"} /\ (j.passing \/ j.what # "uninstall") =>
          j.version = sources[j.item]
    /\ j.at = "copy" => j.version # 0
    /\ j.at = "clear" /\ ~j.passing /\ j.what # "uninstall" => j.version # 0
    /\ j.at # "copy" => j.landed = {}
    /\ "checked" \in j.landed => "manifest" \in j.landed

Stage(j, sources) ==
    /\ j.passing => PassStage(j)
    /\ ~j.passing => CommandStage(j)
    /\ CopyStage(j, sources)
    /\ j.at = "off" => j.copy = NoRecords
StageInv == \A a \in Programs : Stage(job[a], source)

-----------------------------------------------------------------------------
(* A pass repairs.                                                         *)

\* No record of a bundled plugin is newer than the program.
SourceInv ==
    \A p \in Bundled :
        source[p] # 0 =>
            /\ registry[p] <= source[p]
            /\ \A a \in Programs : job[a].copy[p] <= source[p]

\* A directory is recorded at the version of the program, or is about to be, only when
\* it holds nothing of another version.
Current(p) ==
    \/ registry[p] = source[p]
    \/ \E a \in Programs :
          job[a].copy[p] = source[p] \/ (job[a].at = "copy" /\ job[a].item = p)
KeepInv == \A p \in Bundled : source[p] # 0 /\ Current(p) => dir[p] \subseteq Contents(source[p])

\* What the directory lacks of the program's version some copy in hand is to land, or it was
\* given up.
Awaits(a, p, part) ==
    /\ job[a].item = p
    /\ job[a].at = "clear" \/ (job[a].at = "copy" /\ part \notin job[a].landed)
There(p, part) == <<part, source[p]>> \in dir[p] \/ \E a \in Programs : Awaits(a, p, part)
WholeInv ==
    \A p \in Bundled : source[p] # 0 /\ Current(p) =>
        p \in torn \/ \A part \in Parts : There(p, part)

\* The plugin loads as the program has it.
InPlace(p) == source[p] # 0 => LoadsAs(dir[p], source[p])
Done(a, p) == job[a].copy[p] = source[p] /\ InPlace(p)
Backed(records) == \A p \in Plugins : records[p] # 0 => HasManifest(dir[p])

\* How far a pass that nobody disturbed has come.
Phase(a) ==
    LET j == job[a]
    IN  /\ j.at = "bundled" => \A p \in Bundled : p \in j.todo \/ Done(a, p)
        /\ j.at = "copy" => j.landed \X {j.version} \subseteq dir[j.item]
        /\ j.at \in {"clear", "copy"} => \A p \in Bundled : p \in j.todo \/ p = j.item \/ Done(a, p)
        /\ j.at \in {"store", "fill"} =>
              /\ \A p \in Bundled : Done(a, p)
              /\ j.then \in {"found", "refused"} => Backed(j.copy)
        /\ j.at \in {"discover", "found", "refused"} =>
              \A p \in Bundled : registry[p] = source[p] /\ InPlace(p)
        /\ j.at \in {"found", "refused"} => Backed(registry)
PhaseInv == \A a \in Programs : InPass(a) /\ ~job[a].disturbed => Phase(a)

-----------------------------------------------------------------------------
(* What a step does to the programs.                                       *)

\* The job is the same but for the marks that other programs leave on it.
Kept(j, k) ==
    /\ k.what = j.what /\ k.plugin = j.plugin /\ k.at = j.at /\ k.then = j.then
    /\ k.item = j.item /\ k.version = j.version /\ k.landed = j.landed
    /\ k.copy = j.copy /\ k.set = j.set
    /\ k.passing = j.passing /\ k.todo = j.todo

\* What Touching leaves on the others: a pass is disturbed and a copy is old.
Marked(a, file) ==
    \A b \in Programs \ {a} :
        /\ job'[b].disturbed = InPass(b)
        /\ job'[b].old = (job[b].old \/ Holds(b, file))

LEMMA NoneJobs == Off \in Jobs /\ Ready \in Jobs
<1>1. NoRecords \in Records /\ NoSettings \in Enablings
  BY SizesAssumption DEF NoRecords, NoSettings, Records, Enablings
<1>2. 0 \in 0 .. MaxVersion
  BY SizesAssumption
<1>3. Off \in Jobs
  BY <1>1, <1>2 DEF Off, Jobs, Whats, Stages, Nexts
<1> QED
  BY <1>3 DEF Ready, Jobs, Stages

LEMMA PassJobs ==
    ASSUME NEW what \in Whats, NEW p \in Plugins \cup {Nobody}
    PROVE  /\ Pass(what, p) \in Jobs
           /\ Pass(what, p) = [Off EXCEPT !.what = what, !.plugin = p, !.at = "sync", !.passing = TRUE]
BY NoneJobs DEF Pass, Jobs, Stages

LEMMA DoesEffect ==
    ASSUME TypeInv, NEW a \in Programs, NEW mine \in Jobs, Does(a, mine)
    PROVE  /\ job' \in [Programs -> Jobs]
           /\ job'[a] = mine
           /\ \A b \in Programs \ {a} : job'[b] = job[b]
BY DEF Does, TypeInv

LEMMA BeganEffect ==
    ASSUME TypeInv, NEW a \in Programs, NEW mine \in Jobs, Began(a, mine)
    PROVE  /\ job' \in [Programs -> Jobs]
           /\ Kept(mine, job'[a]) /\ job'[a].old = mine.old /\ job'[a].disturbed = mine.disturbed
           /\ job'[a].contested <=> \E b \in Programs \ {a} : Changing(b, mine.plugin)
           /\ \A b \in Programs \ {a} :
                 /\ Kept(job[b], job'[b])
                 /\ job'[b].old = job[b].old /\ job'[b].disturbed = job[b].disturbed
                 /\ job'[b].contested <=> job[b].contested \/ Changing(b, mine.plugin)
<1> DEFINE rivals == {b \in Programs \ {a} : Changing(b, mine.plugin)}
           his(b) == [job[b] EXCEPT !.contested = @ \/ b \in rivals]
           my == [mine EXCEPT !.contested = rivals # {}]
<1>1. job' = [b \in Programs |-> IF b = a THEN my ELSE his(b)]
  BY Zenon DEF Began
<1>2. my \in Jobs /\ Kept(mine, my) /\ my.old = mine.old /\ my.disturbed = mine.disturbed
      /\ my.contested = (rivals # {})
  <2> HIDE DEF rivals
  <2> QED
    BY DEF Jobs, Kept
<1>3. ASSUME NEW b \in Programs \ {a}
      PROVE  /\ his(b) \in Jobs /\ Kept(job[b], his(b)) /\ his(b).old = job[b].old
             /\ his(b).disturbed = job[b].disturbed
             /\ his(b).contested = (job[b].contested \/ b \in rivals)
  <2> HIDE DEF rivals
  <2>1. job[b] \in Jobs
    BY DEF TypeInv
  <2> QED
    BY <2>1 DEF Jobs, Kept
<1>4. job'[a] = my /\ \A b \in Programs \ {a} : job'[b] = his(b)
  <2> HIDE DEF my, his
  <2> QED
    BY <1>1
<1>5. job' \in [Programs -> Jobs]
  <2> HIDE DEF my, his
  <2> QED
    BY <1>1, <1>2, <1>3
<1>6. (rivals # {}) <=> \E b \in Programs \ {a} : Changing(b, mine.plugin)
  BY Zenon
<1>7. \A b \in Programs \ {a} : b \in rivals <=> Changing(b, mine.plugin)
  BY Zenon
<1> HIDE DEF my, his, rivals
<1>8. job'[a].contested <=> \E b \in Programs \ {a} : Changing(b, mine.plugin)
  BY <1>2, <1>4, <1>6, Zenon
<1>9. ASSUME NEW b \in Programs \ {a}
      PROVE  /\ Kept(job[b], job'[b])
             /\ job'[b].old = job[b].old /\ job'[b].disturbed = job[b].disturbed
             /\ job'[b].contested <=> job[b].contested \/ Changing(b, mine.plugin)
  BY <1>3, <1>4, <1>7, Zenon
<1> QED
  BY <1>2, <1>4, <1>5, <1>8, <1>9, Zenon

LEMMA TouchingEffect ==
    ASSUME TypeInv, NEW a \in Programs, NEW mine \in Jobs, NEW file,
           NEW doing, doing = Touching(a, file, mine)
    PROVE  /\ doing \in [Programs -> Jobs]
           /\ doing[a] = mine
           /\ \A b \in Programs \ {a} :
                 /\ Kept(job[b], doing[b]) /\ doing[b].contested = job[b].contested
                 /\ doing[b].disturbed = InPass(b)
                 /\ doing[b].old = (job[b].old \/ Holds(b, file))
<1> DEFINE his(b) == [job[b] EXCEPT !.disturbed = InPass(b), !.old = @ \/ Holds(b, file)]
<1>1. doing = [b \in Programs |-> IF b = a THEN mine ELSE his(b)]
  BY Zenon DEF Touching
<1>2. ASSUME NEW b \in Programs \ {a}
      PROVE  /\ his(b) \in Jobs /\ Kept(job[b], his(b)) /\ his(b).contested = job[b].contested
             /\ his(b).disturbed = InPass(b) /\ his(b).old = (job[b].old \/ Holds(b, file))
  <2>1. job[b] \in Jobs
    BY DEF TypeInv
  <2>2. InPass(b) \in BOOLEAN /\ (job[b].old \/ Holds(b, file)) \in BOOLEAN
    BY <2>1 DEF Jobs, InPass
  <2> QED
    BY <2>1, <2>2 DEF Jobs, Kept
<1> HIDE DEF his
<1> QED
  BY <1>1, <1>2

LEMMA WritesEffect ==
    ASSUME TypeInv, NEW a \in Programs, NEW overtaken \in BOOLEAN, NEW doing \in [Programs -> Jobs],
           NEW said, Writes(a, overtaken, doing, said)
    PROVE  /\ job' \in [Programs -> Jobs]
           /\ job'[a] = doing[a]
           /\ \A b \in Programs \ {a} :
                 /\ Kept(doing[b], job'[b])
                 /\ job'[b].old = doing[b].old /\ job'[b].disturbed = doing[b].disturbed
                 /\ doing[b].contested => job'[b].contested
                 /\ overtaken => job'[b].contested \/ doing[b].at \in {"off", "up"} \/ InPass(b)
           /\ ~overtaken => job' = doing /\ word' = said
           /\ overtaken => word' = [p \in Plugins |-> "unknown"]
<1>1. CASE ~overtaken
  BY <1>1 DEF Writes, Kept
<1>2. CASE overtaken
  <2> DEFINE his(b) == IF b = a \/ doing[b].at \in {"off", "up"} \/ InPass(b) THEN doing[b]
                       ELSE [doing[b] EXCEPT !.contested = TRUE]
  <2>1. job' = [b \in Programs |-> his(b)] /\ word' = [p \in Plugins |-> "unknown"]
    BY <1>2, Zenon DEF Writes, InDoubt
  <2>2. ASSUME NEW b \in Programs
        PROVE  /\ his(b) \in Jobs /\ Kept(doing[b], his(b)) /\ his(b).old = doing[b].old
               /\ his(b).disturbed = doing[b].disturbed
               /\ doing[b].contested => his(b).contested
               /\ b # a => his(b).contested \/ doing[b].at \in {"off", "up"} \/ InPass(b)
               /\ b = a => his(b) = doing[a]
    <3>1. CASE b = a \/ doing[b].at \in {"off", "up"} \/ InPass(b)
      BY <3>1 DEF Kept
    <3>2. CASE ~(b = a \/ doing[b].at \in {"off", "up"} \/ InPass(b))
      <4>1. his(b) = [doing[b] EXCEPT !.contested = TRUE] /\ doing[b] \in Jobs
        BY <3>2
      <4> HIDE DEF his
      <4> QED
        BY <3>2, <4>1 DEF Kept, Jobs
    <3> QED
      BY <3>1, <3>2
  <2> HIDE DEF his
  <2> QED
    BY <1>2, <2>1, <2>2
<1> QED
  BY <1>1, <1>2

\* Nobody else notices; the others learn of a rival; the others are marked.
Quietly(a) == \A b \in Programs \ {a} : job'[b] = job[b]
Beginning(a) ==
    \A b \in Programs \ {a} :
        /\ Kept(job[b], job'[b])
        /\ job'[b].old = job[b].old /\ job'[b].disturbed = job[b].disturbed
        /\ job'[b].contested <=> job[b].contested \/ Changing(b, job'[a].plugin)
Loudly(a, file, overtaken) ==
    \A b \in Programs \ {a} :
        /\ Kept(job[b], job'[b])
        /\ job'[b].disturbed = InPass(b) /\ job'[b].old = (job[b].old \/ Holds(b, file))
        /\ job[b].contested => job'[b].contested
        /\ overtaken => job'[b].contested \/ job[b].at \in {"off", "up"} \/ InPass(b)

LEMMA KeptStage ==
    ASSUME NEW j \in Jobs, NEW k \in Jobs, NEW sources, Kept(j, k), Stage(j, sources)
    PROVE  Stage(k, sources)
BY DEF Kept, Stage, PassStage, CommandStage, CopyStage

LEMMA StageFinish ==
    ASSUME TypeInv, StageInv, NEW a \in Programs, job' \in [Programs -> Jobs], source' = source,
           Stage(job'[a], source),
           \A b \in Programs \ {a} : Kept(job[b], job'[b])
    PROVE  StageInv'
<1> SUFFICES ASSUME NEW b \in Programs PROVE Stage(job'[b], source)
  BY DEF StageInv
<1>1. CASE b = a
  BY <1>1
<1>2. CASE b # a
  <2>1. Kept(job[b], job'[b]) /\ Stage(job[b], source) /\ job[b] \in Jobs /\ job'[b] \in Jobs
    BY <1>2 DEF StageInv, TypeInv
  <2> QED
    BY <2>1, KeptStage
<1> QED
  BY <1>1, <1>2

LEMMA KeptSame == \A j : Kept(j, j)
BY DEF Kept

LEMMA QuietFinish ==
    ASSUME TypeInv, StageInv, NEW a \in Programs, NEW mine \in Jobs, Does(a, mine),
           Stage(mine, source), UNCHANGED <<source, dir, files, history>>,
           commands' \in 0 .. MaxCommands
    PROVE  TypeInv' /\ StageInv' /\ job'[a] = mine /\ Quietly(a)
<1>1. job' \in [Programs -> Jobs] /\ job'[a] = mine /\ \A b \in Programs \ {a} : job'[b] = job[b]
  BY DoesEffect
<1>2. TypeInv'
  BY <1>1 DEF TypeInv, files, history
<1>3. source' = source /\ \A b \in Programs \ {a} : Kept(job[b], job'[b])
  BY <1>1, KeptSame
<1>4. StageInv'
  BY <1>1, <1>3, StageFinish
<1> QED
  BY <1>1, <1>2, <1>4 DEF Quietly

LEMMA BeganFinish ==
    ASSUME TypeInv, StageInv, NEW a \in Programs, NEW mine \in Jobs, Began(a, mine),
           Stage(mine, source), UNCHANGED <<source, dir, files, commands, history>>
    PROVE  /\ TypeInv' /\ StageInv'
           /\ Kept(mine, job'[a]) /\ job'[a].old = mine.old
           /\ job'[a].contested <=> \E b \in Programs \ {a} : Changing(b, mine.plugin)
           /\ Beginning(a)
<1>1. /\ job' \in [Programs -> Jobs]
      /\ Kept(mine, job'[a]) /\ job'[a].old = mine.old
      /\ job'[a].contested <=> \E b \in Programs \ {a} : Changing(b, mine.plugin)
      /\ \A b \in Programs \ {a} :
            /\ Kept(job[b], job'[b])
            /\ job'[b].old = job[b].old /\ job'[b].disturbed = job[b].disturbed
            /\ job'[b].contested <=> job[b].contested \/ Changing(b, mine.plugin)
  BY BeganEffect
<1>2. TypeInv'
  BY <1>1 DEF TypeInv, files, history
<1>3. Stage(job'[a], source)
  BY <1>1, KeptStage
<1>4. StageInv'
  BY <1>1, <1>3, StageFinish
<1>5. job'[a].plugin = mine.plugin
  BY <1>1 DEF Kept
<1>6. Beginning(a)
  BY <1>1, <1>5 DEF Beginning
<1> QED
  BY <1>1, <1>2, <1>4, <1>6

LEMMA LoudFinish ==
    ASSUME TypeInv, StageInv, NEW a \in Programs, NEW mine \in Jobs, NEW file,
           NEW overtaken \in BOOLEAN, NEW said \in [Plugins -> {"gone", "on", "off", "unknown"}],
           Writes(a, overtaken, Touching(a, file, mine), said),
           Stage(mine, source), source' = source, commands' = commands, torn' \subseteq Bundled,
           dir' \in [Plugins -> SUBSET Files], registry' \in Records, settings' \in Enablings
    PROVE  /\ TypeInv' /\ StageInv'
           /\ job'[a] = mine /\ Loudly(a, file, overtaken)
           /\ ~overtaken => word' = said
           /\ overtaken => word' = [p \in Plugins |-> "unknown"]
           /\ ~overtaken => \A b \in Programs \ {a} : job'[b].contested = job[b].contested
<1> DEFINE doing == Touching(a, file, mine)
<1>1. /\ doing \in [Programs -> Jobs] /\ doing[a] = mine
      /\ \A b \in Programs \ {a} :
            /\ Kept(job[b], doing[b]) /\ doing[b].contested = job[b].contested
            /\ doing[b].disturbed = InPass(b)
            /\ doing[b].old = (job[b].old \/ Holds(b, file))
  BY TouchingEffect
<1> HIDE DEF doing
<1>2. /\ job' \in [Programs -> Jobs] /\ job'[a] = doing[a]
      /\ \A b \in Programs \ {a} :
            /\ Kept(doing[b], job'[b])
            /\ job'[b].old = doing[b].old /\ job'[b].disturbed = doing[b].disturbed
            /\ doing[b].contested => job'[b].contested
            /\ overtaken => job'[b].contested \/ doing[b].at \in {"off", "up"} \/ InPass(b)
      /\ ~overtaken => job' = doing /\ word' = said
      /\ overtaken => word' = [p \in Plugins |-> "unknown"]
  <2>1. Writes(a, overtaken, doing, said)
    BY DEF doing
  <2> QED
    BY <1>1, <2>1, WritesEffect
<1>3. \A b \in Programs \ {a} : Kept(job[b], job'[b]) /\ doing[b].at = job[b].at
  BY <1>1, <1>2 DEF Kept
<1>4. word' \in [Plugins -> {"gone", "on", "off", "unknown"}]
  BY <1>2
<1>5. TypeInv'
  BY <1>2, <1>4 DEF TypeInv
<1>6. StageInv'
  BY <1>1, <1>2, <1>3, StageFinish
<1>7. Loudly(a, file, overtaken)
  BY <1>1, <1>2, <1>3 DEF Loudly
<1> QED
  BY <1>1, <1>2, <1>5, <1>6, <1>7

-----------------------------------------------------------------------------
(* Every step, and what it makes of the program that takes it.             *)

LEMMA StartEffect ==
    ASSUME TypeInv, StageInv, NEW a \in Programs, Start(a)
    PROVE  TypeInv' /\ StageInv' /\ job'[a] = Pass("list", Nobody) /\ Quietly(a)
<1> DEFINE mine == Pass("list", Nobody)
<1>1. mine \in Jobs
  BY PassJobs DEF Whats
<1>2. Stage(mine, source)
  BY NoneJobs DEF Pass, Off, Stage, PassStage, CommandStage, CopyStage
<1>3. Does(a, mine) /\ UNCHANGED <<source, dir, files, history>>
  BY DEF Start
<1>4. commands' \in 0 .. MaxCommands
  BY SizesAssumption DEF Start, TypeInv
<1> HIDE DEF mine
<1>5. TypeInv' /\ StageInv' /\ job'[a] = mine /\ Quietly(a)
  BY <1>1, <1>2, <1>3, <1>4, QuietFinish
<1> QED
  BY <1>5 DEF mine

\* A command that was just given.
Asked(what, p, at) == [Ready EXCEPT !.what = what, !.plugin = p, !.at = at]
Asks == {"install", "update", "uninstall", "enable", "disable"}

LEMMA CommandEffect ==
    ASSUME TypeInv, StageInv, NEW a \in Programs, NEW p \in Plugins, NEW what \in Asks,
           Command(a, what, p)
    PROVE  /\ TypeInv' /\ StageInv' /\ Quietly(a)
           /\ \/ /\ what = "install" /\ p \in External
                 /\ job'[a] = Asked(what, p, "fetch")
              \/ /\ what \in {"update", "uninstall"}
                 /\ job'[a] = Asked(what, p, "find")
              \/ what \in {"enable", "disable"} /\ job'[a] = Pass(what, p)
<1> DEFINE asked == [Ready EXCEPT !.what = what, !.plugin = p]
<1>1. UNCHANGED <<source, dir, files, history>>
  BY DEF Command
<1>2. commands' \in 0 .. MaxCommands
  BY SizesAssumption DEF Command, TypeInv
<1>3. asked \in Jobs /\ what \in Whats
  BY NoneJobs DEF Jobs, Whats, Asks
<1>4. \/ what = "install" /\ p \in External /\ Does(a, [asked EXCEPT !.at = "fetch"])
      \/ what \in {"update", "uninstall"} /\ Does(a, [asked EXCEPT !.at = "find"])
      \/ what \in {"enable", "disable"} /\ Does(a, Pass(what, p))
  BY DEF Command
<1>5. CASE what = "install" /\ p \in External /\ Does(a, [asked EXCEPT !.at = "fetch"])
  <2> DEFINE mine == [Ready EXCEPT !.what = what, !.plugin = p, !.at = "fetch"]
  <2>1. mine \in Jobs /\ mine = [asked EXCEPT !.at = "fetch"]
    BY NoneJobs, <1>3 DEF Jobs, Stages
  <2>2. Stage(mine, source)
    BY <1>5, NoneJobs DEF Ready, Off, Jobs, Stage, PassStage, CommandStage, CopyStage
  <2> HIDE DEF mine
  <2>3. TypeInv' /\ StageInv' /\ job'[a] = mine /\ Quietly(a)
    BY <1>1, <1>2, <1>5, <2>1, <2>2, QuietFinish
  <2> QED
    BY <1>5, <2>3 DEF mine, Asked
<1>6. CASE what \in {"update", "uninstall"} /\ Does(a, [asked EXCEPT !.at = "find"])
  <2> DEFINE mine == [Ready EXCEPT !.what = what, !.plugin = p, !.at = "find"]
  <2>1. mine \in Jobs /\ mine = [asked EXCEPT !.at = "find"]
    BY NoneJobs, <1>3 DEF Jobs, Stages
  <2>2. Stage(mine, source)
    BY <1>6, NoneJobs DEF Ready, Off, Jobs, Stage, PassStage, CommandStage, CopyStage
  <2> HIDE DEF mine
  <2>3. TypeInv' /\ StageInv' /\ job'[a] = mine /\ Quietly(a)
    BY <1>1, <1>2, <1>6, <2>1, <2>2, QuietFinish
  <2> QED
    BY <1>6, <2>3 DEF mine, Asked
<1>7. CASE what \in {"enable", "disable"} /\ Does(a, Pass(what, p))
  <2>1. Pass(what, p) \in Jobs
    BY <1>3, PassJobs
  <2>2. Stage(Pass(what, p), source)
    BY <1>7, NoneJobs DEF Pass, Off, Stage, PassStage, CommandStage, CopyStage
  <2>3. TypeInv' /\ StageInv' /\ job'[a] = Pass(what, p) /\ Quietly(a)
    BY <1>1, <1>2, <1>7, <2>1, <2>2, QuietFinish
  <2> QED
    BY <1>7, <2>3
<1> QED
  BY <1>4, <1>5, <1>6, <1>7

\* What a program at a step of a command or of a pass is known to hold.
LEMMA JobFacts ==
    ASSUME TypeInv, StageInv, NEW a \in Programs
    PROVE  job[a] \in Jobs /\ Stage(job[a], source)
BY DEF TypeInv, StageInv

LEMMA FetchEffect ==
    ASSUME TypeInv, StageInv, NEW a \in Programs, Fetch(a),
           NEW mine, mine = [job[a] EXCEPT !.at = "clear", !.item = job[a].plugin,
                                           !.version = source[job[a].plugin]]
    PROVE  /\ TypeInv' /\ StageInv' /\ Beginning(a)
           /\ Kept(mine, job'[a]) /\ job'[a].old = mine.old
           /\ job'[a].contested <=> \E b \in Programs \ {a} : Changing(b, mine.plugin)
<1>1. job[a] \in Jobs /\ Stage(job[a], source)
  BY JobFacts
<1>2. job[a].at = "fetch" /\ source[job[a].plugin] # 0 /\ Began(a, mine)
      /\ UNCHANGED <<source, dir, files, commands, history>>
  BY Zenon DEF Fetch
<1>3. job[a].plugin \in Plugins /\ ~job[a].passing
  BY <1>1, <1>2 DEF Stage, PassStage, CommandStage
<1>4. source[job[a].plugin] \in 0 .. MaxVersion
  BY <1>3 DEF TypeInv, Records
<1>5. mine \in Jobs
  BY <1>1, <1>3, <1>4 DEF Jobs, Stages
<1>6. Stage(mine, source)
  BY <1>1, <1>2, <1>3 DEF Jobs, Stage, PassStage, CommandStage, CopyStage
<1> QED
  BY <1>2, <1>5, <1>6, BeganFinish

LEMMA FindEffect ==
    ASSUME TypeInv, StageInv, NEW a \in Programs, Find(a),
           NEW found, found = [job[a] EXCEPT !.copy = registry, !.old = RegistryOpen]
    PROVE  /\ TypeInv' /\ StageInv'
           /\ \/ job[a].what = "update" /\ job'[a] = [found EXCEPT !.at = "fetch"] /\ Quietly(a)
              \/ /\ job[a].what = "uninstall" /\ job[a].plugin \in External /\ Beginning(a)
                 /\ Kept([found EXCEPT !.at = "clear", !.item = job[a].plugin], job'[a])
                 /\ job'[a].old = RegistryOpen
                 /\ job'[a].contested <=> \E b \in Programs \ {a} : Changing(b, job[a].plugin)
<1>1. job[a] \in Jobs /\ Stage(job[a], source)
  BY JobFacts
<1>2. /\ job[a].at = "find"
      /\ \/ job[a].what = "update" /\ Does(a, [found EXCEPT !.at = "fetch"])
         \/ /\ job[a].what = "uninstall" /\ job[a].plugin \in External
            /\ Began(a, [found EXCEPT !.at = "clear", !.item = job[a].plugin])
      /\ UNCHANGED <<source, dir, files, commands, history>>
  BY DEF Find
<1>3. job[a].plugin \in Plugins /\ ~job[a].passing
  BY <1>1, <1>2 DEF Stage, PassStage, CommandStage
<1>4. RegistryOpen \in BOOLEAN
  BY DEF RegistryOpen
<1>5. found \in Jobs
  BY <1>1, <1>4 DEF Jobs, TypeInv
<1>6. commands' \in 0 .. MaxCommands
  BY <1>2 DEF TypeInv
<1>7. CASE job[a].what = "update" /\ Does(a, [found EXCEPT !.at = "fetch"])
  <2> DEFINE mine == [found EXCEPT !.at = "fetch"]
  <2>1. mine \in Jobs
    BY <1>5 DEF Jobs, Stages
  <2>2. Stage(mine, source)
    BY <1>1, <1>2, <1>3, <1>5, <1>7 DEF Jobs, Stage, PassStage, CommandStage, CopyStage
  <2> HIDE DEF mine
  <2>3. TypeInv' /\ StageInv' /\ job'[a] = mine /\ Quietly(a)
    <3>1. Does(a, mine)
      BY <1>7 DEF mine
    <3> QED
      BY <1>2, <1>6, <2>1, <2>2, <3>1, QuietFinish
  <2> QED
    BY <1>7, <2>3 DEF mine
<1>8. CASE /\ job[a].what = "uninstall" /\ job[a].plugin \in External
           /\ Began(a, [found EXCEPT !.at = "clear", !.item = job[a].plugin])
  <2> DEFINE mine == [found EXCEPT !.at = "clear", !.item = job[a].plugin]
  <2>1. mine \in Jobs /\ mine.old = RegistryOpen /\ mine.plugin = job[a].plugin
    BY <1>3, <1>5, <1>1, <1>4 DEF Jobs, Stages
  <2>2. Stage(mine, source)
    BY <1>1, <1>2, <1>3, <1>5, <1>8 DEF Jobs, Stage, PassStage, CommandStage, CopyStage
  <2>3. Began(a, mine)
    BY <1>8
  <2> HIDE DEF mine
  <2>4. /\ TypeInv' /\ StageInv' /\ Beginning(a) /\ Kept(mine, job'[a]) /\ job'[a].old = mine.old
        /\ job'[a].contested <=> \E b \in Programs \ {a} : Changing(b, mine.plugin)
    BY <1>2, <2>1, <2>2, <2>3, BeganFinish
  <2> QED
    BY <1>8, <2>1, <2>4 DEF mine
<1> QED
  BY <1>2, <1>7, <1>8

LEMMA KnownEffect ==
    ASSUME TypeInv, StageInv, NEW a \in Programs, Known(a),
           NEW mine, mine = [job[a] EXCEPT !.at = "settings"]
    PROVE  /\ TypeInv' /\ StageInv' /\ Beginning(a)
           /\ Kept(mine, job'[a]) /\ job'[a].old = mine.old
           /\ job'[a].contested <=> \E b \in Programs \ {a} : Changing(b, mine.plugin)
<1>1. job[a] \in Jobs /\ Stage(job[a], source)
  BY JobFacts
<1>2. job[a].at = "known" /\ Began(a, mine) /\ UNCHANGED <<source, dir, files, commands, history>>
  BY Zenon DEF Known
<1>3. mine \in Jobs
  BY <1>1 DEF Jobs, Stages
<1>4. Stage(mine, source)
  BY <1>1, <1>2 DEF Jobs, Stage, PassStage, CommandStage, CopyStage
<1> QED
  BY <1>2, <1>3, <1>4, BeganFinish

\* The command goes on with its files; the record of the plugin in hand is v.
Onward(j, k) ==
    /\ k.what = j.what /\ k.plugin = j.plugin /\ k.set = j.set /\ k.passing = j.passing
    /\ k.todo = j.todo /\ k.old = j.old /\ k.disturbed = j.disturbed
    /\ k.contested = j.contested
Recorded(j, k, v) == k.copy[j.item] = v /\ \A p \in Plugins \ {j.item} : k.copy[p] = j.copy[p]

\* The three ways on from a directory that is gone.
LEMMA ClearedJobs ==
    ASSUME TypeInv, StageInv, NEW a \in Programs, job[a].at = "clear"
    PROVE  /\ Cleared(a) \in Jobs /\ Stage(Cleared(a), source)
           /\ Onward(job[a], Cleared(a))
           /\ \/ /\ InPass(a) /\ source[job[a].item] = 0 /\ Cleared(a).at = "bundled"
                 /\ Recorded(job[a], Cleared(a), 0)
              \/ /\ ~InPass(a) /\ job[a].what = "uninstall"
                 /\ Cleared(a).at = "store" /\ Cleared(a).then = "settings"
                 /\ Recorded(job[a], Cleared(a), 0)
              \/ /\ InPass(a) => source[job[a].item] # 0
                 /\ ~InPass(a) => job[a].what # "uninstall"
                 /\ Cleared(a) = [job[a] EXCEPT !.at = "copy"]
<1> DEFINE j == job[a]
           zeroed == [j.copy EXCEPT ![j.item] = 0]
           forgotten == [j EXCEPT !.copy = zeroed, !.item = Nobody, !.version = 0]
<1>1. j \in Jobs /\ Stage(j, source)
  BY JobFacts
<1>2. j.item \in Plugins
  BY <1>1, PluginsAssumption DEF Stage, PassStage, CommandStage
<1>3. /\ zeroed \in Records /\ 0 \in 0 .. MaxVersion
      /\ zeroed[j.item] = 0 /\ \A p \in Plugins \ {j.item} : zeroed[p] = j.copy[p]
  <2>1. j.copy \in Records /\ 0 \in 0 .. MaxVersion
    BY <1>1, SizesAssumption DEF Jobs
  <2> QED
    BY <1>2, <2>1 DEF Records
<1>4. forgotten = [j EXCEPT !.copy[j.item] = 0, !.item = Nobody, !.version = 0]
  OBVIOUS
<1> HIDE DEF zeroed
<1>5. forgotten \in Jobs
  BY <1>1, <1>3 DEF Jobs
<1>6. CASE InPass(a) /\ source[j.item] = 0
  <2> DEFINE mine == [forgotten EXCEPT !.at = "bundled"]
  <2>1. Cleared(a) = mine
    BY <1>4, <1>6 DEF Cleared
  <2>2. mine \in Jobs
    BY <1>5 DEF Jobs, Stages
  <2>3. Stage(mine, source)
    BY <1>1, <1>5, <1>6 DEF Jobs, InPass, Stage, PassStage, CommandStage, CopyStage
  <2>4. mine.copy = zeroed /\ mine.at = "bundled"
    BY <1>1 DEF Jobs
  <2>5. Onward(j, mine)
    BY <1>1 DEF Jobs, Onward
  <2> HIDE DEF mine
  <2> QED
    BY <1>6, <2>1, <2>2, <2>3, <2>4, <2>5, <1>3 DEF Recorded
<1>7. CASE ~InPass(a) /\ j.what = "uninstall"
  <2> DEFINE mine == [forgotten EXCEPT !.at = "store", !.then = "settings"]
  <2>1. Cleared(a) = mine
    BY <1>4, <1>7 DEF Cleared
  <2>2. mine \in Jobs
    BY <1>5 DEF Jobs, Stages, Nexts
  <2>3. Stage(mine, source)
    BY <1>1, <1>5, <1>7 DEF Jobs, InPass, Stage, PassStage, CommandStage, CopyStage
  <2>4. mine.copy = zeroed /\ mine.at = "store" /\ mine.then = "settings"
    BY <1>1 DEF Jobs
  <2>5. Onward(j, mine)
    BY <1>1 DEF Jobs, Onward
  <2> HIDE DEF mine
  <2> QED
    BY <1>7, <2>1, <2>2, <2>3, <2>4, <2>5, <1>3 DEF Recorded
<1>8. CASE ~(InPass(a) /\ source[j.item] = 0) /\ ~(~InPass(a) /\ j.what = "uninstall")
  <2> DEFINE mine == [j EXCEPT !.at = "copy"]
  <2>1. Cleared(a) = mine
    BY <1>8 DEF Cleared
  <2>2. mine \in Jobs
    BY <1>1 DEF Jobs, Stages
  <2>3. Stage(mine, source)
    BY <1>1, <1>2, <1>8 DEF Jobs, InPass, Stage, PassStage, CommandStage, CopyStage
  <2>5. Onward(j, mine)
    BY <1>1 DEF Jobs, Onward
  <2> HIDE DEF mine
  <2> QED
    BY <1>8, <2>1, <2>2, <2>3, <2>5 DEF mine
<1> QED
  BY <1>6, <1>7, <1>8

LEMMA ClearEffect ==
    ASSUME TypeInv, StageInv, NEW a \in Programs, Clear(a)
    PROVE  /\ TypeInv' /\ StageInv' /\ Loudly(a, "dir", FALSE) /\ word' = word
           /\ \A b \in Programs \ {a} : job'[b].contested = job[b].contested
           /\ \E left \in SUBSET dir[job[a].item] :
                 /\ dir' = [dir EXCEPT ![job[a].item] = left]
                 /\ job'[a] = IF left = {} THEN Cleared(a) ELSE job[a]
                 /\ torn' = torn \/ (left = {} /\ Renewed(a))
<1>1. job[a] \in Jobs /\ Stage(job[a], source) /\ job[a].at = "clear"
  BY JobFacts DEF Clear
<1>2. Cleared(a) \in Jobs /\ Stage(Cleared(a), source)
  BY <1>1, ClearedJobs
<1>3. PICK left \in SUBSET dir[job[a].item] :
         /\ dir' = [dir EXCEPT ![job[a].item] = left]
         /\ job' = Touching(a, "dir", IF left = {} THEN Cleared(a) ELSE job[a])
         /\ IF left = {} THEN Renewed(a) ELSE UNCHANGED torn
  BY Zenon DEF Clear
<1>4. UNCHANGED <<source, files, commands, word>>
  BY DEF Clear
<1> DEFINE mine == IF left = {} THEN Cleared(a) ELSE job[a]
<1>5. mine \in Jobs /\ Stage(mine, source)
  BY <1>1, <1>2
<1>6. Writes(a, FALSE, Touching(a, "dir", mine), word)
  BY <1>3, <1>4 DEF Writes
<1>7. job[a].item \in Plugins
  BY <1>1, PluginsAssumption DEF Stage, PassStage, CommandStage
<1>8. dir' \in [Plugins -> SUBSET Files]
  BY <1>3, <1>7 DEF TypeInv
<1> HIDE DEF mine
<1>9. /\ TypeInv' /\ StageInv' /\ job'[a] = mine /\ Loudly(a, "dir", FALSE) /\ word' = word
      /\ \A b \in Programs \ {a} : job'[b].contested = job[b].contested
  <2>1. word \in [Plugins -> {"gone", "on", "off", "unknown"}] /\ registry' \in Records
        /\ settings' \in Enablings /\ source' = source /\ commands' = commands
        /\ torn' \subseteq Bundled
    BY <1>3, <1>4 DEF TypeInv, files, Renewed
  <2> QED
    BY <1>5, <1>6, <1>8, <2>1, LoudFinish
<1> QED
  BY <1>3, <1>9 DEF mine

LEMMA CopiedJobs ==
    ASSUME TypeInv, StageInv, NEW a \in Programs, job[a].at = "copy"
    PROVE  /\ Copied(a) \in Jobs /\ Stage(Copied(a), source)
           /\ Onward(job[a], Copied(a))
           /\ \/ /\ InPass(a) /\ Copied(a).at = "bundled"
                 /\ Recorded(job[a], Copied(a), job[a].version)
              \/ /\ ~InPass(a) /\ job[a].what = "update"
                 /\ Copied(a).at = "store" /\ Copied(a).then = "told"
                 /\ Recorded(job[a], Copied(a), job[a].version)
              \/ /\ ~InPass(a) /\ job[a].what = "install"
                 /\ Copied(a) = [job[a] EXCEPT !.landed = {}, !.at = "load"]
<1> DEFINE j == job[a]
           k == [j EXCEPT !.landed = {}]
           recorded == [j.copy EXCEPT ![j.item] = j.version]
           noted == [k EXCEPT !.copy = recorded, !.item = Nobody, !.version = 0]
<1>1. j \in Jobs /\ Stage(j, source)
  BY JobFacts
<1>2. j.item \in Plugins
  BY <1>1, PluginsAssumption DEF Stage, PassStage, CommandStage
<1>3. /\ recorded \in Records /\ 0 \in 0 .. MaxVersion
      /\ recorded[j.item] = j.version /\ \A p \in Plugins \ {j.item} : recorded[p] = j.copy[p]
  <2>1. j.copy \in Records /\ j.version \in 0 .. MaxVersion /\ 0 \in 0 .. MaxVersion
    BY <1>1, SizesAssumption DEF Jobs
  <2> QED
    BY <1>2, <2>1 DEF Records
<1>4. noted = [k EXCEPT !.copy[k.item] = k.version, !.item = Nobody, !.version = 0]
  <2>1. k.item = j.item /\ k.version = j.version /\ k.copy = j.copy
    BY <1>1 DEF Jobs
  <2> HIDE DEF k
  <2> QED
    BY <2>1
<1> HIDE DEF recorded
<1>5. /\ noted \in Jobs /\ noted.landed = {} /\ noted.copy = recorded
      /\ noted.item = Nobody /\ Onward(j, noted)
  BY <1>1, <1>3 DEF Jobs, Onward
<1>6. CASE InPass(a)
  <2> DEFINE mine == [noted EXCEPT !.at = "bundled"]
  <2>1. Copied(a) = mine
    BY <1>4, <1>6 DEF Copied
  <2>2. mine \in Jobs
    BY <1>5 DEF Jobs, Stages
  <2>3. Stage(mine, source)
    BY <1>1, <1>5, <1>6 DEF Jobs, InPass, Stage, PassStage, CommandStage, CopyStage
  <2>4. mine.copy = recorded /\ mine.landed = {} /\ mine.at = "bundled"
    BY <1>1 DEF Jobs
  <2>5. Onward(j, mine)
    BY <1>1 DEF Jobs, Onward
  <2> HIDE DEF mine
  <2> QED
    BY <1>6, <2>1, <2>2, <2>3, <2>4, <2>5, <1>3 DEF Recorded
<1>7. CASE ~InPass(a) /\ j.what = "update"
  <2> DEFINE mine == [noted EXCEPT !.at = "store", !.then = "told"]
  <2>1. Copied(a) = mine
    <3>1. k.what = "update"
      BY <1>1, <1>7 DEF Jobs
    <3>2. noted = [k EXCEPT !.copy[k.item] = k.version, !.item = Nobody, !.version = 0]
      BY <1>4
    <3> QED
      BY <1>7, <3>1, <3>2 DEF Copied
  <2>2. mine \in Jobs
    BY <1>5 DEF Jobs, Stages, Nexts
  <2>3. Stage(mine, source)
    BY <1>1, <1>5, <1>7 DEF Jobs, InPass, Stage, PassStage, CommandStage, CopyStage
  <2>4. mine.copy = recorded /\ mine.landed = {} /\ mine.at = "store" /\ mine.then = "told"
    BY <1>1 DEF Jobs
  <2>5. Onward(j, mine)
    BY <1>1 DEF Jobs, Onward
  <2> HIDE DEF mine
  <2> QED
    BY <1>7, <2>1, <2>2, <2>3, <2>4, <2>5, <1>3 DEF Recorded
<1>8. CASE ~InPass(a) /\ j.what # "update"
  <2> DEFINE mine == [j EXCEPT !.landed = {}, !.at = "load"]
  <2>1. Copied(a) = mine
    <3>1. Copied(a) = [k EXCEPT !.at = "load"]
      BY <1>1, <1>8 DEF Copied, Jobs
    <3> QED
      BY <1>1, <3>1 DEF Jobs
  <2>2. mine \in Jobs /\ j.what = "install"
    BY <1>1, <1>8 DEF Jobs, Stages, Stage, CommandStage, InPass
  <2>3. Stage(mine, source)
    BY <1>1, <1>2, <1>8, <2>2 DEF Jobs, InPass, Stage, PassStage, CommandStage, CopyStage
  <2>5. Onward(j, mine)
    BY <1>1 DEF Jobs, Onward
  <2> HIDE DEF mine
  <2> QED
    BY <1>8, <2>1, <2>2, <2>3, <2>5 DEF mine
<1> QED
  BY <1>6, <1>7, <1>8

\* What a program has copied once one more part has landed.
Further(j, part) == [j EXCEPT !.landed = @ \cup {part}]

LEMMA CopyEffect ==
    ASSUME TypeInv, StageInv, NEW a \in Programs, Copy(a)
    PROVE  /\ TypeInv' /\ StageInv' /\ Loudly(a, "dir", FALSE) /\ word' = word /\ torn' = torn
           /\ \A b \in Programs \ {a} : job'[b].contested = job[b].contested
           /\ \E part \in Parts \ job[a].landed :
                 /\ part = "checked" => "manifest" \in job[a].landed
                 /\ dir' = [dir EXCEPT ![job[a].item] =
                              Landed(dir[job[a].item], part, job[a].version)]
                 /\ job'[a] = IF job[a].landed \cup {part} = Parts THEN Copied(a)
                              ELSE Further(job[a], part)
<1>1. job[a] \in Jobs /\ Stage(job[a], source) /\ job[a].at = "copy"
  BY JobFacts DEF Copy
<1>2. Copied(a) \in Jobs /\ Stage(Copied(a), source)
  BY <1>1, CopiedJobs
<1>3. PICK part \in Parts \ job[a].landed :
         /\ part = "checked" => "manifest" \in job[a].landed
         /\ dir' = [dir EXCEPT ![job[a].item] = Landed(dir[job[a].item], part, job[a].version)]
         /\ job' = Touching(a, "dir", IF Further(job[a], part).landed = Parts THEN Copied(a)
                                      ELSE Further(job[a], part))
  BY Zenon DEF Copy, Further
<1>4. UNCHANGED <<source, files, commands, history>>
  BY DEF Copy
<1> DEFINE after == Landed(dir[job[a].item], part, job[a].version)
           mine == IF job[a].landed \cup {part} = Parts THEN Copied(a) ELSE Further(job[a], part)
<1>5. /\ Further(job[a], part) \in Jobs /\ Stage(Further(job[a], part), source)
      /\ Further(job[a], part).landed = job[a].landed \cup {part}
  <2>1. Further(job[a], part) \in Jobs
    BY <1>1 DEF Jobs, Further
  <2>2. Stage(Further(job[a], part), source)
    BY <1>1, <1>3 DEF Jobs, Further, Stage, PassStage, CommandStage, CopyStage
  <2> QED
    BY <1>1, <2>1, <2>2 DEF Jobs, Further
<1>6. Writes(a, FALSE, Touching(a, "dir", mine), word)
  <2>1. job' = Touching(a, "dir", mine)
    BY <1>3, <1>5
  <2> QED
    BY <1>4, <2>1 DEF Writes, history
<1>7. job[a].item \in Plugins /\ job[a].version \in Versions
  BY <1>1, PluginsAssumption, SizesAssumption
     DEF Jobs, Versions, Stage, PassStage, CommandStage, CopyStage
<1>8. after \in SUBSET Files
  <2>1. dir[job[a].item] \in SUBSET Files
    BY <1>7 DEF TypeInv
  <2>2. part \in {"manifest", "checked", "rest"}
    BY DEF Parts
  <2> QED
    BY <1>7, <2>1, <2>2 DEF Landed, Files, Parts
<1>9. dir' \in [Plugins -> SUBSET Files]
  <2> HIDE DEF after
  <2>1. dir' = [dir EXCEPT ![job[a].item] = after]
    BY <1>3 DEF after
  <2> QED
    BY <1>7, <1>8, <2>1 DEF TypeInv
<1>10. mine \in Jobs /\ Stage(mine, source)
  BY <1>2, <1>5
<1> HIDE DEF mine
<1>11. /\ TypeInv' /\ StageInv' /\ job'[a] = mine /\ Loudly(a, "dir", FALSE) /\ word' = word
       /\ \A b \in Programs \ {a} : job'[b].contested = job[b].contested
  <2>1. word \in [Plugins -> {"gone", "on", "off", "unknown"}] /\ registry' \in Records
        /\ settings' \in Enablings /\ source' = source /\ commands' = commands
        /\ torn' \subseteq Bundled
    BY <1>4 DEF TypeInv, files, history
  <2> QED
    BY <1>6, <1>9, <1>10, <2>1, LoudFinish
<1> QED
  BY <1>3, <1>4, <1>11 DEF mine, history

LEMMA CopyOverEffect ==
    ASSUME TypeInv, StageInv, NEW a \in Programs, CopyOver(a)
    PROVE  /\ TypeInv' /\ StageInv' /\ Loudly(a, "dir", FALSE) /\ word' = word /\ torn' = torn
           /\ \A b \in Programs \ {a} : job'[b].contested = job[b].contested
           /\ dir' = [dir EXCEPT ![job[a].item] = @ \ {<<"rest", job[a].version>>}]
           /\ job'[a] = job[a]
<1>1. job[a] \in Jobs /\ Stage(job[a], source) /\ job[a].at = "copy"
  BY JobFacts DEF CopyOver
<1>2. /\ dir' = [dir EXCEPT ![job[a].item] = @ \ {<<"rest", job[a].version>>}]
      /\ job' = Touching(a, "dir", job[a])
      /\ UNCHANGED <<source, files, commands, history>>
  BY Zenon DEF CopyOver
<1>3. Writes(a, FALSE, Touching(a, "dir", job[a]), word)
  BY <1>2 DEF Writes, history
<1>4. job[a].item \in Plugins
  BY <1>1, PluginsAssumption DEF Stage, PassStage, CommandStage
<1>5. dir' \in [Plugins -> SUBSET Files]
  BY <1>2, <1>4 DEF TypeInv
<1>6. word \in [Plugins -> {"gone", "on", "off", "unknown"}] /\ registry' \in Records
      /\ settings' \in Enablings /\ source' = source /\ commands' = commands
      /\ torn' \subseteq Bundled
  BY <1>2 DEF TypeInv, files, history
<1>7. /\ TypeInv' /\ StageInv' /\ job'[a] = job[a] /\ Loudly(a, "dir", FALSE) /\ word' = word
      /\ \A b \in Programs \ {a} : job'[b].contested = job[b].contested
  BY <1>1, <1>3, <1>5, <1>6, LoudFinish
<1> QED
  BY <1>2, <1>7 DEF history

LEMMA LoadEffect ==
    ASSUME TypeInv, StageInv, NEW a \in Programs, Load(a)
    PROVE  /\ TypeInv' /\ StageInv' /\ Quietly(a)
           /\ job'[a] = [job[a] EXCEPT !.at = "store", !.then = "settings", !.item = Nobody,
                           !.version = 0, !.old = RegistryOpen,
                           !.copy = [registry EXCEPT ![job[a].plugin] = job[a].version]]
<1> DEFINE recorded == [registry EXCEPT ![job[a].plugin] = job[a].version]
           mine == [job[a] EXCEPT !.at = "store", !.then = "settings", !.item = Nobody,
                           !.version = 0, !.copy = recorded, !.old = RegistryOpen]
<1>1. job[a] \in Jobs /\ Stage(job[a], source)
  BY JobFacts
<1>2. job[a].at = "load" /\ Does(a, mine) /\ UNCHANGED <<source, dir, files, commands, history>>
  BY Zenon DEF Load
<1>3. recorded \in Records /\ 0 \in 0 .. MaxVersion
  <2>1. registry \in Records /\ job[a].version \in 0 .. MaxVersion /\ 0 \in 0 .. MaxVersion
    BY <1>1, SizesAssumption DEF Jobs, TypeInv
  <2> QED
    BY <2>1 DEF Records
<1>4. RegistryOpen \in BOOLEAN
  BY DEF RegistryOpen
<1> HIDE DEF recorded
<1>5. mine \in Jobs
  BY <1>1, <1>3, <1>4 DEF Jobs, Stages, Nexts
<1>6. Stage(mine, source)
  BY <1>1, <1>2 DEF Jobs, Stage, PassStage, CommandStage, CopyStage
<1>7. commands' \in 0 .. MaxCommands
  BY <1>2 DEF TypeInv
<1> HIDE DEF mine
<1>8. TypeInv' /\ StageInv' /\ job'[a] = mine /\ Quietly(a)
  BY <1>2, <1>5, <1>6, <1>7, QuietFinish
<1>9. mine = [job[a] EXCEPT !.at = "store", !.then = "settings", !.item = Nobody,
                           !.version = 0, !.old = RegistryOpen, !.copy = recorded]
  BY <1>1 DEF Jobs, mine
<1> QED
  BY <1>8, <1>9 DEF recorded

LEMMA StoreEffect ==
    ASSUME TypeInv, StageInv, NEW a \in Programs, Store(a),
           NEW overtaken, overtaken = (job[a].old \/ RegistryOpen)
    PROVE  /\ TypeInv' /\ StageInv' /\ Loudly(a, "registry", overtaken)
           /\ overtaken \in BOOLEAN
           /\ job'[a] = [job[a] EXCEPT !.at = "fill", !.old = FALSE]
           /\ ~overtaken =>
                 word' = word /\ \A b \in Programs \ {a} : job'[b].contested = job[b].contested
           /\ overtaken => word' = [p \in Plugins |-> "unknown"]
<1> DEFINE mine == [job[a] EXCEPT !.at = "fill", !.old = FALSE]
<1>1. job[a] \in Jobs /\ Stage(job[a], source)
  BY JobFacts
<1>2. /\ job[a].at = "store" /\ registry' = NoRecords
      /\ Writes(a, overtaken, Touching(a, "registry", mine), word)
      /\ UNCHANGED <<source, dir, settings, commands, torn>>
  BY Zenon DEF Store
<1>3. overtaken \in BOOLEAN
  BY <1>1 DEF RegistryOpen, Jobs
<1>4. mine \in Jobs
  BY <1>1 DEF Jobs, Stages
<1>5. Stage(mine, source)
  BY <1>1, <1>2 DEF Jobs, Stage, PassStage, CommandStage, CopyStage
<1> HIDE DEF mine
<1>6. /\ TypeInv' /\ StageInv'
      /\ job'[a] = mine /\ Loudly(a, "registry", overtaken)
      /\ ~overtaken => word' = word
      /\ overtaken => word' = [p \in Plugins |-> "unknown"]
      /\ ~overtaken => \A b \in Programs \ {a} : job'[b].contested = job[b].contested
  <2>1. word \in [Plugins -> {"gone", "on", "off", "unknown"}] /\ registry' \in Records
        /\ settings' \in Enablings /\ source' = source /\ commands' = commands
        /\ torn' \subseteq Bundled
        /\ dir' \in [Plugins -> SUBSET Files]
    BY <1>2, SizesAssumption DEF TypeInv, NoRecords, Records
  <2> QED
    BY <1>2, <1>3, <1>4, <1>5, <2>1, LoudFinish
<1> QED
  BY <1>3, <1>6 DEF mine

\* What a program does that has rewritten the registry.
Filled(a) ==
    LET j == job[a]
    IN  IF j.then = "told" THEN Pass("list", Nobody)
        ELSE [j EXCEPT !.at = j.then, !.then = "off", !.copy = NoRecords, !.old = FALSE]
ToldOf(a) ==
    IF job[a].then = "told" /\ job[a].contested
    THEN [word EXCEPT ![job[a].plugin] = "unknown"] ELSE word

LEMMA FillEffect ==
    ASSUME TypeInv, StageInv, NEW a \in Programs, Fill(a)
    PROVE  /\ TypeInv' /\ StageInv' /\ Loudly(a, "registry", job[a].old)
           /\ job'[a] = Filled(a)
           /\ ~job[a].old =>
                 word' = ToldOf(a) /\ \A b \in Programs \ {a} : job'[b].contested = job[b].contested
           /\ job[a].old => word' = [p \in Plugins |-> "unknown"]
<1>1. job[a] \in Jobs /\ Stage(job[a], source)
  BY JobFacts
<1>2. /\ job[a].at = "fill" /\ registry' = job[a].copy
      /\ Writes(a, job[a].old, Touching(a, "registry", Filled(a)), ToldOf(a))
      /\ UNCHANGED <<source, dir, settings, commands, torn>>
  BY Zenon DEF Fill, Filled, ToldOf
<1>3. Filled(a) \in Jobs /\ Stage(Filled(a), source)
  <2>1. CASE job[a].then = "told"
    <3>1. Filled(a) = Pass("list", Nobody) /\ Pass("list", Nobody) \in Jobs
      BY <2>1, PassJobs DEF Filled, Whats
    <3>2. Stage(Pass("list", Nobody), source)
      BY NoneJobs DEF Pass, Off, Stage, PassStage, CommandStage, CopyStage
    <3> QED
      BY <3>1, <3>2
  <2>2. CASE job[a].then # "told"
    <3> DEFINE mine == [job[a] EXCEPT !.at = job[a].then, !.then = "off", !.copy = NoRecords,
                                      !.old = FALSE]
    <3>1. Filled(a) = mine
      BY <2>2 DEF Filled
    <3>2. NoRecords \in Records
      BY SizesAssumption DEF NoRecords, Records
    <3>3. mine \in Jobs
      BY <1>1, <1>2, <2>2, <3>2 DEF Jobs, Stages, Nexts
    <3>4. Stage(mine, source)
      BY <1>1, <1>2, <2>2 DEF Jobs, Stage, PassStage, CommandStage, CopyStage
    <3> QED
      BY <3>1, <3>3, <3>4
  <2> QED
    BY <2>1, <2>2
<1>4. ToldOf(a) \in [Plugins -> {"gone", "on", "off", "unknown"}]
  BY DEF TypeInv, ToldOf
<1>5. /\ TypeInv' /\ StageInv'
      /\ job'[a] = Filled(a) /\ Loudly(a, "registry", job[a].old)
      /\ ~job[a].old => word' = ToldOf(a)
      /\ job[a].old => word' = [p \in Plugins |-> "unknown"]
      /\ ~job[a].old => \A b \in Programs \ {a} : job'[b].contested = job[b].contested
  <2>1. /\ registry' \in Records /\ settings' \in Enablings /\ source' = source
        /\ commands' = commands /\ dir' \in [Plugins -> SUBSET Files] /\ job[a].old \in BOOLEAN
        /\ torn' \subseteq Bundled
    BY <1>1, <1>2 DEF TypeInv, Jobs
  <2> QED
    BY <1>2, <1>3, <1>4, <2>1, LoudFinish
<1> QED
  BY <1>5

LEMMA SettingsEffect ==
    ASSUME TypeInv, StageInv, NEW a \in Programs, Settings(a)
    PROVE  /\ TypeInv' /\ StageInv' /\ Quietly(a)
           /\ job'[a] = [job[a] EXCEPT !.at = "empty", !.old = SettingsOpen,
                           !.set = [settings EXCEPT ![job[a].plugin] = Wanted(job[a])]]
<1> DEFINE wanted == [settings EXCEPT ![job[a].plugin] = Wanted(job[a])]
           mine == [job[a] EXCEPT !.at = "empty", !.old = SettingsOpen, !.set = wanted]
<1>1. job[a] \in Jobs /\ Stage(job[a], source)
  BY JobFacts
<1>2. job[a].at = "settings" /\ Does(a, mine) /\ UNCHANGED <<source, dir, files, commands, history>>
  BY Zenon DEF Settings
<1>3. wanted \in Enablings
  <2>1. Wanted(job[a]) \in {"unset", "on", "off"}
    BY <1>1, <1>2 DEF Stage, PassStage, CommandStage, Wanted
  <2> QED
    BY <2>1 DEF TypeInv, Enablings
<1>4. SettingsOpen \in BOOLEAN
  BY DEF SettingsOpen
<1> HIDE DEF wanted
<1>5. mine \in Jobs
  BY <1>1, <1>3, <1>4 DEF Jobs, Stages
<1>6. Stage(mine, source)
  BY <1>1, <1>2 DEF Jobs, Stage, PassStage, CommandStage, CopyStage
<1>7. commands' \in 0 .. MaxCommands
  BY <1>2 DEF TypeInv
<1> HIDE DEF mine
<1>8. TypeInv' /\ StageInv' /\ job'[a] = mine /\ Quietly(a)
  BY <1>2, <1>5, <1>6, <1>7, QuietFinish
<1> QED
  BY <1>8 DEF mine, wanted

LEMMA EmptyEffect ==
    ASSUME TypeInv, StageInv, NEW a \in Programs, Empty(a),
           NEW overtaken, overtaken = (job[a].old \/ SettingsOpen)
    PROVE  /\ TypeInv' /\ StageInv' /\ Loudly(a, "settings", overtaken)
           /\ overtaken \in BOOLEAN
           /\ job'[a] = [job[a] EXCEPT !.at = "write", !.old = FALSE]
           /\ ~overtaken =>
                 word' = word /\ \A b \in Programs \ {a} : job'[b].contested = job[b].contested
           /\ overtaken => word' = [p \in Plugins |-> "unknown"]
<1> DEFINE mine == [job[a] EXCEPT !.at = "write", !.old = FALSE]
<1>1. job[a] \in Jobs /\ Stage(job[a], source)
  BY JobFacts
<1>2. /\ job[a].at = "empty" /\ settings' = NoSettings
      /\ Writes(a, overtaken, Touching(a, "settings", mine), word)
      /\ UNCHANGED <<source, dir, registry, commands, torn>>
  BY Zenon DEF Empty
<1>3. overtaken \in BOOLEAN
  BY <1>1 DEF SettingsOpen, Jobs
<1>4. mine \in Jobs
  BY <1>1 DEF Jobs, Stages
<1>5. Stage(mine, source)
  BY <1>1, <1>2 DEF Jobs, Stage, PassStage, CommandStage, CopyStage
<1> HIDE DEF mine
<1>6. /\ TypeInv' /\ StageInv'
      /\ job'[a] = mine /\ Loudly(a, "settings", overtaken)
      /\ ~overtaken => word' = word
      /\ overtaken => word' = [p \in Plugins |-> "unknown"]
      /\ ~overtaken => \A b \in Programs \ {a} : job'[b].contested = job[b].contested
  <2>1. word \in [Plugins -> {"gone", "on", "off", "unknown"}] /\ registry' \in Records
        /\ settings' \in Enablings /\ source' = source /\ commands' = commands
        /\ torn' \subseteq Bundled
        /\ dir' \in [Plugins -> SUBSET Files]
    BY <1>2 DEF TypeInv, NoSettings, Enablings
  <2> QED
    BY <1>2, <1>3, <1>4, <1>5, <2>1, LoudFinish
<1> QED
  BY <1>3, <1>6 DEF mine

LEMMA SaidType ==
    ASSUME TypeInv, StageInv, NEW a \in Programs, job[a].at = "write"
    PROVE  /\ Said(job[a]) \in {"gone", "on", "off", "unknown"} /\ job[a].plugin \in Plugins
           /\ job[a].what \in {"install", "uninstall", "enable", "disable"} /\ ~job[a].passing
<1>1. job[a] \in Jobs /\ Stage(job[a], source)
  BY JobFacts
<1>2. /\ job[a].plugin \in Plugins /\ ~job[a].passing
      /\ job[a].what \in {"install", "uninstall", "enable", "disable"}
  BY <1>1 DEF Stage, PassStage, CommandStage
<1>3. word[job[a].plugin] \in {"gone", "on", "off", "unknown"}
  BY <1>2 DEF TypeInv
<1>4. job[a].what \in {"enable", "disable"} => Wanted(job[a]) \in {"on", "off"}
  BY DEF Wanted
<1>5. Said(job[a]) \in {"gone", "on", "off", "unknown"}
  <2>1. CASE job[a].contested
    BY <2>1 DEF Said
  <2>2. CASE ~job[a].contested
    BY <1>2, <1>3, <1>4, <2>2 DEF Said
  <2> QED
    BY <2>1, <2>2
<1> QED
  BY <1>2, <1>5

LEMMA WriteEffect ==
    ASSUME TypeInv, StageInv, NEW a \in Programs, Write(a)
    PROVE  /\ TypeInv' /\ StageInv' /\ Loudly(a, "settings", job[a].old)
           /\ job'[a] = Pass("list", Nobody)
           /\ ~job[a].old =>
                 /\ word' = [word EXCEPT ![job[a].plugin] = Said(job[a])]
                 /\ \A b \in Programs \ {a} : job'[b].contested = job[b].contested
           /\ job[a].old => word' = [p \in Plugins |-> "unknown"]
<1> DEFINE mine == Pass("list", Nobody)
           said == [word EXCEPT ![job[a].plugin] = Said(job[a])]
<1>1. job[a] \in Jobs /\ Stage(job[a], source)
  BY JobFacts
<1>2. /\ job[a].at = "write" /\ settings' = job[a].set
      /\ Writes(a, job[a].old, Touching(a, "settings", mine), said)
      /\ UNCHANGED <<source, dir, registry, commands, torn>>
  BY Zenon DEF Write
<1>3. mine \in Jobs
  BY PassJobs DEF Whats
<1>4. Stage(mine, source)
  BY NoneJobs DEF Pass, Off, Stage, PassStage, CommandStage, CopyStage
<1>5. said \in [Plugins -> {"gone", "on", "off", "unknown"}]
  <2>1. Said(job[a]) \in {"gone", "on", "off", "unknown"}
    BY <1>2, SaidType
  <2> QED
    BY <2>1 DEF TypeInv
<1> HIDE DEF mine, said
<1>6. /\ TypeInv' /\ StageInv'
      /\ job'[a] = mine /\ Loudly(a, "settings", job[a].old)
      /\ ~job[a].old => word' = said
      /\ job[a].old => word' = [p \in Plugins |-> "unknown"]
      /\ ~job[a].old => \A b \in Programs \ {a} : job'[b].contested = job[b].contested
  <2>1. /\ registry' \in Records /\ settings' \in Enablings /\ source' = source
        /\ commands' = commands /\ dir' \in [Plugins -> SUBSET Files] /\ job[a].old \in BOOLEAN
        /\ torn' \subseteq Bundled
    BY <1>1, <1>2 DEF TypeInv, Jobs
  <2> QED
    BY <1>2, <1>3, <1>4, <1>5, <2>1, LoudFinish
<1> QED
  BY <1>6 DEF mine, said

Due == {p \in Bundled : NeedsSync(p)}

LEMMA SyncEffect ==
    ASSUME TypeInv, StageInv, NEW a \in Programs, Sync(a)
    PROVE  /\ TypeInv' /\ StageInv' /\ Quietly(a)
           /\ job'[a] = IF Due = {} THEN [job[a] EXCEPT !.at = "discover", !.disturbed = RegistryOpen]
                        ELSE [job[a] EXCEPT !.at = "bundled", !.todo = Due, !.copy = registry,
                                            !.old = RegistryOpen, !.disturbed = RegistryOpen]
<1>1. job[a] \in Jobs /\ Stage(job[a], source)
  BY JobFacts
<1> DEFINE mine == IF Due = {} THEN [job[a] EXCEPT !.at = "discover", !.disturbed = RegistryOpen]
                   ELSE [job[a] EXCEPT !.at = "bundled", !.todo = Due, !.copy = registry,
                                       !.old = RegistryOpen, !.disturbed = RegistryOpen]
<1>2. job[a].at = "sync" /\ Does(a, mine) /\ UNCHANGED <<source, dir, files, commands, history>>
  BY Zenon DEF Sync, Due
<1>3. Due \in SUBSET Bundled /\ RegistryOpen \in BOOLEAN /\ registry \in Records
  BY DEF Due, RegistryOpen, TypeInv
<1>4. mine \in Jobs
  BY <1>1, <1>3 DEF Jobs, Stages
<1>5. Stage(mine, source)
  <2>1. job[a].passing
    BY <1>1, <1>2 DEF Stage, CommandStage
  <2> QED
    BY <1>1, <1>2, <2>1 DEF Jobs, Stage, PassStage, CommandStage, CopyStage
<1>6. commands' \in 0 .. MaxCommands
  BY <1>2 DEF TypeInv
<1> HIDE DEF mine
<1>7. TypeInv' /\ StageInv' /\ job'[a] = mine /\ Quietly(a)
  BY <1>2, <1>4, <1>5, <1>6, QuietFinish
<1> QED
  BY <1>7 DEF mine

LEMMA SyncOneEffect ==
    ASSUME TypeInv, StageInv, NEW a \in Programs, NEW p \in Plugins, SyncOne(a, p)
    PROVE  /\ TypeInv' /\ StageInv' /\ Quietly(a)
           /\ job'[a] = [job[a] EXCEPT !.at = "clear", !.todo = @ \ {p}, !.item = p,
                                       !.version = source[p]]
<1>1. job[a] \in Jobs /\ Stage(job[a], source)
  BY JobFacts
<1> DEFINE mine == [job[a] EXCEPT !.at = "clear", !.todo = @ \ {p}, !.item = p, !.version = source[p]]
<1>2. job[a].at = "bundled" /\ p \in job[a].todo /\ Does(a, mine)
      /\ UNCHANGED <<source, dir, files, commands, history>>
  BY Zenon DEF SyncOne
<1>3. source[p] \in 0 .. MaxVersion /\ p \in Bundled
  BY <1>1, <1>2 DEF TypeInv, Records, Jobs
<1>4. mine \in Jobs
  BY <1>1, <1>3 DEF Jobs, Stages
<1>5. Stage(mine, source)
  <2>1. job[a].passing
    BY <1>1, <1>2 DEF Stage, CommandStage
  <2> QED
    BY <1>1, <1>2, <1>3, <2>1 DEF Jobs, Stage, PassStage, CommandStage, CopyStage
<1>6. commands' \in 0 .. MaxCommands
  BY <1>2 DEF TypeInv
<1> HIDE DEF mine
<1>7. TypeInv' /\ StageInv' /\ job'[a] = mine /\ Quietly(a)
  BY <1>2, <1>4, <1>5, <1>6, QuietFinish
<1> QED
  BY <1>7 DEF mine

LEMMA SyncedEffect ==
    ASSUME TypeInv, StageInv, NEW a \in Programs, Synced(a)
    PROVE  /\ TypeInv' /\ StageInv' /\ Quietly(a)
           /\ job'[a] = [job[a] EXCEPT !.at = "store", !.then = "discover"]
<1>1. job[a] \in Jobs /\ Stage(job[a], source)
  BY JobFacts
<1> DEFINE mine == [job[a] EXCEPT !.at = "store", !.then = "discover"]
<1>2. job[a].at = "bundled" /\ Does(a, mine) /\ UNCHANGED <<source, dir, files, commands, history>>
  BY Zenon DEF Synced
<1>4. mine \in Jobs
  BY <1>1 DEF Jobs, Stages, Nexts
<1>5. Stage(mine, source)
  BY <1>1, <1>2 DEF Jobs, Stage, PassStage, CommandStage, CopyStage
<1>6. commands' \in 0 .. MaxCommands
  BY <1>2 DEF TypeInv
<1> HIDE DEF mine
<1>7. TypeInv' /\ StageInv' /\ job'[a] = mine /\ Quietly(a)
  BY <1>2, <1>4, <1>5, <1>6, QuietFinish
<1> QED
  BY <1>7 DEF mine

\* The records that have a plugin behind them.
BackedRecords == [p \in Plugins |-> IF HasManifest(dir[p]) THEN registry[p] ELSE 0]

LEMMA DiscoverEffect ==
    ASSUME TypeInv, StageInv, NEW a \in Programs, Discover(a)
    PROVE  /\ TypeInv' /\ StageInv' /\ Quietly(a)
           /\ BackedRecords \in Records
           /\ \E outcome \in {"refused", "found"} :
                 job'[a] = IF BackedRecords = registry THEN [job[a] EXCEPT !.at = outcome]
                           ELSE [job[a] EXCEPT !.at = "store", !.then = outcome,
                                               !.copy = BackedRecords, !.old = RegistryOpen]
<1>1. job[a] \in Jobs /\ Stage(job[a], source)
  BY JobFacts
<1> DEFINE outcome == IF \E p \in Plugins : Broken(dir[p]) THEN "refused" ELSE "found"
           mine == IF BackedRecords = registry THEN [job[a] EXCEPT !.at = outcome]
                   ELSE [job[a] EXCEPT !.at = "store", !.then = outcome,
                                       !.copy = BackedRecords, !.old = RegistryOpen]
<1>2. job[a].at = "discover" /\ Does(a, mine) /\ UNCHANGED <<source, dir, files, commands, history>>
  BY Zenon DEF Discover, BackedRecords
<1>3. outcome \in {"refused", "found"}
  OBVIOUS
<1>4. BackedRecords \in Records /\ RegistryOpen \in BOOLEAN
  <2>1. \A p \in Plugins : registry[p] \in 0 .. MaxVersion
    BY DEF TypeInv, Records
  <2>2. 0 \in 0 .. MaxVersion
    BY SizesAssumption
  <2>3. \A p \in Plugins : (IF HasManifest(dir[p]) THEN registry[p] ELSE 0) \in 0 .. MaxVersion
    BY <2>1, <2>2
  <2> QED
    BY <2>3 DEF BackedRecords, Records, RegistryOpen
<1>5. job[a].passing
  BY <1>1, <1>2 DEF Stage, CommandStage
<1> HIDE DEF outcome
<1>6. mine \in Jobs
  BY <1>1, <1>3, <1>4 DEF Jobs, Stages, Nexts
<1>7. Stage(mine, source)
  <2>1. CASE BackedRecords = registry
    BY <1>1, <1>2, <1>3, <1>5, <2>1 DEF Jobs, Stage, PassStage, CommandStage, CopyStage
  <2>2. CASE BackedRecords # registry
    BY <1>1, <1>2, <1>3, <1>5, <2>2 DEF Jobs, Stage, PassStage, CommandStage, CopyStage
  <2> QED
    BY <2>1, <2>2
<1>8. commands' \in 0 .. MaxCommands
  BY <1>2 DEF TypeInv
<1> HIDE DEF mine
<1>9. TypeInv' /\ StageInv' /\ job'[a] = mine /\ Quietly(a)
  BY <1>2, <1>6, <1>7, <1>8, QuietFinish
<1> QED
  BY <1>3, <1>4, <1>9 DEF mine

LEMMA FoundEffect ==
    ASSUME TypeInv, StageInv, NEW a \in Programs, Found(a)
    PROVE  /\ TypeInv' /\ StageInv' /\ Quietly(a)
           /\ job'[a] = IF job[a].what = "list" THEN Ready
                        ELSE Asked(job[a].what, job[a].plugin, "known")
<1>1. job[a] \in Jobs /\ Stage(job[a], source)
  BY JobFacts
<1> DEFINE mine == IF job[a].what = "list" THEN Ready
                   ELSE Asked(job[a].what, job[a].plugin, "known")
<1>2. job[a].at = "found" /\ Does(a, mine) /\ UNCHANGED <<source, dir, files, commands, history>>
  BY Zenon DEF Found, Asked
<1>3. job[a].what = "list" \/ (job[a].what \in {"enable", "disable"} /\ job[a].plugin \in Plugins)
  BY <1>1, <1>2 DEF Stage, PassStage, CommandStage
<1>4. mine \in Jobs
  <2>1. job[a].what \in Whats /\ job[a].plugin \in Plugins \cup {Nobody}
    BY <1>1 DEF Jobs
  <2>2. Asked(job[a].what, job[a].plugin, "known") \in Jobs
    BY <2>1, NoneJobs DEF Jobs, Stages, Asked
  <2> QED
    BY <2>2, NoneJobs
<1>5. Stage(mine, source)
  BY <1>3, NoneJobs DEF Asked, Ready, Off, Jobs, Stage, PassStage, CommandStage, CopyStage
<1>6. commands' \in 0 .. MaxCommands
  BY <1>2 DEF TypeInv
<1> HIDE DEF mine
<1>7. TypeInv' /\ StageInv' /\ job'[a] = mine /\ Quietly(a)
  BY <1>2, <1>4, <1>5, <1>6, QuietFinish
<1> QED
  BY <1>7 DEF mine

\* What is said of the plugin of a command that ends before it is done.
Unsaid(a) == [p \in Plugins |-> IF Changing(a, p) THEN "unknown" ELSE word[p]]

LEMMA StopEffect ==
    ASSUME TypeInv, StageInv, NEW a \in Programs, Stop(a),
           NEW overtaken, overtaken = (job[a].at \in {"fill", "write"})
    PROVE  /\ TypeInv' /\ StageInv'
           /\ job'[a] = Off
           /\ \A b \in Programs \ {a} :
                 /\ Kept(job[b], job'[b])
                 /\ job'[b].old = job[b].old /\ job'[b].disturbed = job[b].disturbed
                 /\ job[b].contested => job'[b].contested
                 /\ overtaken => job'[b].contested \/ job[b].at \in {"off", "up"} \/ InPass(b)
           /\ ~overtaken =>
                 word' = Unsaid(a) /\ \A b \in Programs \ {a} : job'[b].contested = job[b].contested
           /\ overtaken => word' = [p \in Plugins |-> "unknown"]
<1> DEFINE doing == [job EXCEPT ![a] = Off]
<1>0. PICK said : said = Unsaid(a)
  OBVIOUS
<1>1. Writes(a, overtaken, doing, said) /\ UNCHANGED <<source, dir, files, commands>>
      /\ torn' = torn \cup ({job[a].item} \cap Bundled)
  BY <1>0, Zenon DEF Stop, Unsaid, Writes
<1>2. doing \in [Programs -> Jobs] /\ doing[a] = Off /\ \A b \in Programs \ {a} : doing[b] = job[b]
  BY NoneJobs DEF TypeInv
<1> HIDE DEF doing
<1>3. /\ job' \in [Programs -> Jobs]
      /\ job'[a] = doing[a]
      /\ \A b \in Programs \ {a} :
            /\ Kept(doing[b], job'[b])
            /\ job'[b].old = doing[b].old /\ job'[b].disturbed = doing[b].disturbed
            /\ doing[b].contested => job'[b].contested
            /\ overtaken => job'[b].contested \/ doing[b].at \in {"off", "up"} \/ InPass(b)
      /\ ~overtaken => job' = doing /\ word' = said
      /\ overtaken => word' = [p \in Plugins |-> "unknown"]
  <2>1. overtaken \in BOOLEAN
    OBVIOUS
  <2>2. Writes(a, overtaken, doing, said) /\ doing \in [Programs -> Jobs]
    BY <1>1, <1>2
  <2> QED
    BY ONLY TypeInv, <2>1, <2>2, WritesEffect
<1>4. Stage(Off, source)
  BY NoneJobs DEF Off, Jobs, Stage, PassStage, CommandStage, CopyStage
<1>5. word' \in [Plugins -> {"gone", "on", "off", "unknown"}]
  BY <1>0, <1>3 DEF Unsaid, TypeInv
<1>6. TypeInv'
  BY <1>1, <1>3, <1>5 DEF TypeInv, files, history
<1>7. StageInv'
  BY <1>1, <1>2, <1>3, <1>4, StageFinish
<1> QED
  BY <1>0, <1>2, <1>3, <1>6, <1>7

LEMMA PublishedEffect ==
    ASSUME TypeInv, StageInv, NEW p \in Plugins, Published(p)
    PROVE  /\ TypeInv' /\ StageInv' /\ \A q \in Bundled : source'[q] = source[q]
<1>1. /\ p \in External /\ source[p] < MaxVersion
      /\ \A a \in Programs :
            job[a].at \in {"clear", "copy"} /\ job[a].item = p => job[a].what = "uninstall"
      /\ source' = [source EXCEPT ![p] = @ + 1] /\ UNCHANGED <<dir, files, job, commands, history>>
  BY DEF Published
<1>2. source' \in Records /\ \A q \in Plugins \ {p} : source'[q] = source[q]
  BY <1>1, SizesAssumption DEF TypeInv, Records
<1>3. TypeInv'
  BY <1>1, <1>2 DEF TypeInv, files, history
<1>4. ASSUME NEW a \in Programs PROVE Stage(job'[a], source')
  <2>1. job[a] \in Jobs /\ Stage(job[a], source) /\ job'[a] = job[a]
    BY JobFacts, <1>1
  <2>2. job[a].at \in {"clear", "copy"} /\ (job[a].passing \/ job[a].what # "uninstall") =>
            job[a].item \in Plugins /\ job[a].item # p
    <3>1. CASE job[a].passing
      BY <1>1, <2>1, <3>1, PluginsAssumption DEF Stage, PassStage, External
    <3>2. CASE ~job[a].passing
      BY <1>1, <2>1, <3>2 DEF Stage, CommandStage
    <3> QED BY <3>1, <3>2
  <2> QED
    BY <1>2, <2>1, <2>2 DEF Stage, CopyStage
<1>5. \A q \in Bundled : q \in Plugins \ {p}
  BY <1>1, PluginsAssumption DEF External
<1> QED
  BY <1>2, <1>3, <1>4, <1>5 DEF StageInv

LEMMA UpgradedEffect ==
    ASSUME TypeInv, StageInv, NEW p \in Plugins, Upgraded(p)
    PROVE  /\ TypeInv' /\ StageInv'
           /\ \A a \in Programs : job[a].at = "off" /\ job[a].copy = NoRecords
           /\ \A q \in Plugins \ {p} : source'[q] = source[q]
           /\ p \in Bundled /\ source[p] # 0 /\ (source'[p] = 0 \/ source'[p] > source[p])
<1>1. PICK v \in {0} \cup (source[p] + 1 .. MaxVersion) : source' = [source EXCEPT ![p] = v]
  BY DEF Upgraded
<1>2. /\ p \in Bundled /\ source[p] # 0 /\ \A a \in Programs : job[a].at = "off"
      /\ UNCHANGED <<dir, files, job, history>>
      /\ commands < MaxCommands /\ commands' = commands + 1
  BY DEF Upgraded
<1>3. source[p] \in 0 .. MaxVersion /\ v \in 0 .. MaxVersion /\ (v = 0 \/ v > source[p])
  <2>1. source[p] \in 0 .. MaxVersion
    BY DEF TypeInv, Records
  <2> QED
    BY <2>1, <1>1, SizesAssumption
<1>4. source' \in Records /\ source'[p] = v /\ \A q \in Plugins \ {p} : source'[q] = source[q]
  BY <1>1, <1>3 DEF TypeInv, Records
<1>5. TypeInv'
  <2>1. commands' \in 0 .. MaxCommands
    BY <1>2, SizesAssumption DEF TypeInv
  <2> QED
    BY <1>2, <1>4, <2>1 DEF TypeInv, files, history
<1>6. ASSUME NEW a \in Programs PROVE Stage(job'[a], source') /\ job[a].copy = NoRecords
  <2>1. job[a] \in Jobs /\ Stage(job[a], source) /\ job'[a] = job[a] /\ job[a].at = "off"
    BY JobFacts, <1>2
  <2> QED
    BY <2>1 DEF Stage, CopyStage
<1> QED
  BY <1>2, <1>3, <1>4, <1>5, <1>6 DEF StageInv

-----------------------------------------------------------------------------
(* What a step may do to the records and the directory of a bundled plugin. *)

Copying(a, p) == job[a].at = "copy" /\ job[a].item = p

\* What is awaited lands, or is still awaited, or is given up.
Lands(a, p) ==
    \/ source[p] = 0 \/ p \in torn' \/ \A part \in Parts : Awaits(a, p, part)'
    \/ p \notin torn /\ ((\A part \in Parts : There(p, part)) => \A part \in Parts : There(p, part)')

Moves(a, p) ==
    /\ registry'[p] \in {registry[p], 0, job[a].copy[p]}
    /\ \/ job'[a].copy[p] \in {job[a].copy[p], registry[p], 0}
       \/ Copying(a, p) /\ job'[a].copy[p] = source[p]
    /\ Copying(a, p)' => Copying(a, p) \/ (dir'[p] = {} /\ \A part \in Parts : Awaits(a, p, part)')
    /\ \/ dir'[p] \subseteq dir[p]
       \/ Copying(a, p) /\ dir'[p] \subseteq dir[p] \cup Contents(source[p])
    /\ Lands(a, p)

LEMMA MovesKeep ==
    ASSUME TypeInv, StageInv, TypeInv', SourceInv, KeepInv, WholeInv, NEW a \in Programs,
           source' = source,
           \A b \in Programs \ {a} : Kept(job[b], job'[b]),
           \A p \in Bundled : Moves(a, p)
    PROVE  SourceInv' /\ KeepInv' /\ WholeInv'
<1> SUFFICES ASSUME NEW p \in Bundled, source[p] # 0
             PROVE  /\ registry'[p] <= source[p] /\ \A b \in Programs : job'[b].copy[p] <= source[p]
                    /\ Current(p)' => dir'[p] \subseteq Contents(source[p])
                    /\ Current(p)' => p \in torn' \/ \A part \in Parts : There(p, part)'
  BY DEF SourceInv, KeepInv, WholeInv
<1>1. p \in Plugins /\ source[p] \in Nat /\ 0 <= source[p]
  BY PluginsAssumption, SizesAssumption DEF TypeInv, Records
<1>2. registry[p] <= source[p] /\ \A b \in Programs : job[b].copy[p] <= source[p]
  BY DEF SourceInv
<1>3. Moves(a, p) /\ \A b \in Programs \ {a} :
         job'[b].copy = job[b].copy /\ job'[b].at = job[b].at /\ job'[b].item = job[b].item
  BY DEF Kept
<1>4. registry'[p] <= source[p]
  BY <1>1, <1>2, <1>3 DEF Moves
<1>5. ASSUME NEW b \in Programs PROVE job'[b].copy[p] <= source[p]
  <2>1. CASE b = a
    <3>1. job'[a].copy[p] \in {job[a].copy[p], registry[p], 0, source[p]}
      BY <1>3 DEF Moves
    <3> QED
      BY <1>1, <1>2, <2>1, <3>1
  <2>2. CASE b # a
    BY <1>2, <1>3, <2>2
  <2> QED
    BY <2>1, <2>2
<1>6. ASSUME Current(p)', ~Current(p)
      PROVE  dir'[p] = {} /\ \A part \in Parts : Awaits(a, p, part)'
  <2>1. ~Copying(a, p)
    BY <1>6 DEF Current, Copying
  <2>2. registry'[p] # source[p]
    BY <1>1, <1>3, <1>6 DEF Moves, Current
  <2>3. \A b \in Programs : job'[b].copy[p] # source[p]
    BY <1>1, <1>3, <1>6, <2>1 DEF Moves, Current
  <2>4. PICK b \in Programs : job'[b].at = "copy" /\ job'[b].item = p
    BY <1>6, <2>2, <2>3 DEF Current
  <2>5. b = a
    BY <1>3, <1>6, <2>4 DEF Current
  <2>6. Copying(a, p)'
    BY <2>4, <2>5 DEF Copying
  <2> QED
    BY <1>3, <2>1, <2>6 DEF Moves
<1>7. ASSUME Current(p)' PROVE dir'[p] \subseteq Contents(source[p])
  <2>1. CASE Current(p)
    <3>1. dir[p] \subseteq Contents(source[p])
      BY <2>1 DEF KeepInv
    <3> QED
      BY <1>3, <3>1 DEF Moves
  <2>2. CASE ~Current(p)
    BY <1>6, <1>7, <2>2
  <2> QED
    BY <2>1, <2>2
<1>8. ASSUME Current(p)', p \notin torn' PROVE \A part \in Parts : There(p, part)'
  <2>1. CASE \A part \in Parts : Awaits(a, p, part)'
    BY <2>1, Zenon DEF There
  <2>2. CASE ~\A part \in Parts : Awaits(a, p, part)'
    <3>1. Current(p)
      BY <1>6, <1>8, <2>2
    <3>2. Lands(a, p)
      BY <1>3 DEF Moves
    <3>3. p \notin torn /\ ((\A part \in Parts : There(p, part)) => \A part \in Parts : There(p, part)')
      BY <1>8, <2>2, <3>2, Zenon DEF Lands
    <3>4. \A part \in Parts : There(p, part)
      BY <3>1, <3>3 DEF WholeInv
    <3> QED
      BY <3>3, <3>4, Zenon
  <2> QED
    BY <2>1, <2>2, Zenon
<1> QED
  BY <1>4, <1>5, <1>7, <1>8, Zenon

\* A step that leaves the plugin alone, but for what it gives up.
LEMMA LandsBeside ==
    ASSUME NEW a \in Programs, NEW p, source' = source, dir'[p] = dir[p],
           \A b \in Programs \ {a} : Kept(job[b], job'[b]),
           job[a].item = p /\ job[a].at \in {"clear", "copy"} => p \in torn',
           p \in torn => p \in torn'
    PROVE  Lands(a, p)
<1> SUFFICES ASSUME p \notin torn', \A part \in Parts : There(p, part), NEW part \in Parts
             PROVE  There(p, part)'
  BY Zenon DEF Lands
<1>1. There(p, part)
  OBVIOUS
<1>2. CASE <<part, source[p]>> \in dir[p]
  BY <1>2 DEF There
<1>3. CASE \E b \in Programs : Awaits(b, p, part)
  <2>1. PICK b \in Programs : Awaits(b, p, part)
    BY <1>3
  <2>2. b # a
    BY <2>1 DEF Awaits
  <2>3. Awaits(b, p, part)'
    BY <2>1, <2>2 DEF Awaits, Kept
  <2> QED
    BY <2>3 DEF There
<1> QED
  BY <1>1, <1>2, <1>3 DEF There

\* A step that leaves the files of a pass alone leaves it as far as it was.
LEMMA PhaseKept ==
    ASSUME NEW b \in Programs, Kept(job[b], job'[b]), Phase(b),
           \A p \in Bundled : source'[p] = source[p],
           registry' = registry, dir' = dir
    PROVE  Phase(b)'
<1>1. /\ job'[b].at = job[b].at /\ job'[b].todo = job[b].todo /\ job'[b].item = job[b].item
      /\ job'[b].copy = job[b].copy /\ job'[b].then = job[b].then
      /\ job'[b].landed = job[b].landed /\ job'[b].version = job[b].version
  BY DEF Kept
<1>2. \A p \in Bundled : InPlace(p)' <=> InPlace(p)
  BY DEF InPlace
<1>3. \A p \in Bundled : Done(b, p)' <=> Done(b, p)
  BY <1>1, <1>2 DEF Done
<1>4. /\ Backed(registry)' <=> Backed(registry)
      /\ Backed(job[b].copy)' <=> Backed(job[b].copy)
  BY <1>1 DEF Backed
<1> QED
  BY <1>1, <1>2, <1>3, <1>4 DEF Phase

RepairInv == SourceInv /\ KeepInv /\ WholeInv /\ PhaseInv

LEMMA BesideRepairs ==
    ASSUME TypeInv, StageInv, TypeInv', RepairInv, NEW a \in Programs,
           UNCHANGED <<source, dir, registry>>, \A p \in Bundled : Lands(a, p),
           \A b \in Programs \ {a} : Kept(job[b], job'[b]) /\ job'[b].disturbed = job[b].disturbed,
           \A p \in Bundled : job'[a].copy[p] \in {job[a].copy[p], registry[p], 0},
           job'[a].at # "copy",
           job'[a].passing /\ ~job'[a].disturbed => Phase(a)'
    PROVE  RepairInv'
<1>1. \A p \in Bundled : Moves(a, p)
  BY DEF Moves, Copying
<1>2. SourceInv' /\ KeepInv' /\ WholeInv'
  BY <1>1, MovesKeep DEF RepairInv
<1>3. PhaseInv'
  <2> SUFFICES ASSUME NEW b \in Programs, job'[b].passing, ~job'[b].disturbed PROVE Phase(b)'
    BY DEF PhaseInv, InPass
  <2>1. CASE b = a
    BY <2>1
  <2>2. CASE b # a
    <3>1. Kept(job[b], job'[b]) /\ job'[b].disturbed = job[b].disturbed
      BY <2>2
    <3>2. job[b].passing /\ ~job[b].disturbed
      BY <3>1 DEF Kept
    <3>3. Phase(b)
      BY <3>2 DEF RepairInv, PhaseInv, InPass
    <3> QED
      BY <3>1, <3>3, PhaseKept
  <2> QED
    BY <2>1, <2>2
<1> QED
  BY <1>2, <1>3 DEF RepairInv

LEMMA LoudRepairs ==
    ASSUME TypeInv, StageInv, TypeInv', RepairInv, NEW a \in Programs, source' = source,
           NEW file, NEW overtaken, Loudly(a, file, overtaken),
           \A p \in Bundled : Moves(a, p),
           job'[a].passing /\ ~job'[a].disturbed => Phase(a)'
    PROVE  RepairInv'
<1>1. \A b \in Programs \ {a} : Kept(job[b], job'[b]) /\ job'[b].disturbed = InPass(b)
  BY DEF Loudly
<1>2. SourceInv' /\ KeepInv' /\ WholeInv'
  BY <1>1, MovesKeep DEF RepairInv
<1>3. PhaseInv'
  <2> SUFFICES ASSUME NEW b \in Programs, job'[b].passing, ~job'[b].disturbed PROVE Phase(b)'
    BY DEF PhaseInv, InPass
  <2>1. CASE b = a
    BY <2>1
  <2>2. CASE b # a
    <3>1. Kept(job[b], job'[b]) /\ job'[b].disturbed = InPass(b)
      BY <1>1, <2>2
    <3> QED
      BY <3>1 DEF Kept, InPass
  <2> QED
    BY <2>1, <2>2
<1> QED
  BY <1>2, <1>3 DEF RepairInv

LEMMA QuietOthers ==
    ASSUME NEW a \in Programs, Quietly(a)
    PROVE  \A b \in Programs \ {a} : Kept(job[b], job'[b]) /\ job'[b].disturbed = job[b].disturbed
BY KeptSame DEF Quietly

LEMMA QuietRepairs ==
    ASSUME TypeInv, StageInv, TypeInv', RepairInv, NEW a \in Programs,
           UNCHANGED <<source, dir, registry, history>>, job[a].at \notin {"clear", "copy"},
           \A b \in Programs \ {a} : Kept(job[b], job'[b]) /\ job'[b].disturbed = job[b].disturbed,
           \A p \in Bundled : job'[a].copy[p] \in {job[a].copy[p], registry[p], 0},
           job'[a].at # "copy",
           job'[a].passing /\ ~job'[a].disturbed => Phase(a)'
    PROVE  RepairInv'
<1>1. \A p \in Bundled : Lands(a, p)
  BY LandsBeside DEF history
<1> QED
  BY <1>1, BesideRepairs

LEMMA BundledRecords ==
    ASSUME TypeInv, NEW p \in Bundled
    PROVE  /\ p \in Plugins /\ NoRecords[p] = 0
           /\ registry[p] \in 0 .. MaxVersion /\ source[p] \in 0 .. MaxVersion
           /\ dir[p] \in SUBSET Files
BY PluginsAssumption DEF TypeInv, Records, NoRecords

\* The fields of a program that has just begun something.
LEMMA PassFields ==
    ASSUME NEW what, NEW p
    PROVE  /\ Pass(what, p).what = what /\ Pass(what, p).plugin = p /\ Pass(what, p).at = "sync"
           /\ Pass(what, p).copy = NoRecords /\ Pass(what, p).passing /\ ~Pass(what, p).old
           /\ ~Pass(what, p).contested
BY DEF Pass, Off

LEMMA AskedFields ==
    ASSUME NEW what, NEW p, NEW at
    PROVE  /\ Asked(what, p, at).what = what /\ Asked(what, p, at).plugin = p
           /\ Asked(what, p, at).at = at /\ Asked(what, p, at).copy = NoRecords
           /\ ~Asked(what, p, at).passing /\ ~Asked(what, p, at).old
           /\ ~Asked(what, p, at).contested
BY DEF Asked, Ready, Off

LEMMA IdleFields ==
    /\ Ready.at = "up" /\ ~Ready.passing /\ Ready.copy = NoRecords /\ Ready.plugin = Nobody
    /\ Off.at = "off" /\ ~Off.passing /\ Off.copy = NoRecords /\ Off.plugin = Nobody
BY DEF Ready, Off

LEMMA StartRepairs ==
    ASSUME TypeInv, StageInv, RepairInv, NEW a \in Programs, Start(a)
    PROVE  RepairInv'
<1>1. TypeInv' /\ Quietly(a) /\ job'[a] = Pass("list", Nobody)
  BY StartEffect
<1>2. UNCHANGED <<source, dir, registry, history>> /\ job[a].at \notin {"clear", "copy"}
  BY DEF Start, files, history
<1>3. job'[a].copy = NoRecords /\ job'[a].at = "sync"
  BY <1>1, PassFields
<1>4. Phase(a)'
  BY <1>3 DEF Phase
<1>5. \A p \in Bundled : job'[a].copy[p] = 0
  BY <1>3, BundledRecords
<1> QED
  BY <1>1, <1>2, <1>3, <1>4, <1>5, QuietOthers, QuietRepairs

LEMMA AskedRepairs ==
    ASSUME TypeInv, StageInv, RepairInv, NEW a \in Programs, NEW p \in Plugins, NEW what \in Asks,
           Command(a, what, p)
    PROVE  RepairInv'
<1>1. /\ TypeInv' /\ Quietly(a)
      /\ \/ job'[a] = Asked(what, p, "fetch")
         \/ job'[a] = Asked(what, p, "find")
         \/ job'[a] = Pass(what, p)
  BY CommandEffect
<1>2. UNCHANGED <<source, dir, registry, history>> /\ job[a].at \notin {"clear", "copy"}
  BY DEF Command, files, history
<1>3. /\ job'[a].copy = NoRecords /\ job'[a].at # "copy"
      /\ job'[a].passing => job'[a].at = "sync"
  BY <1>1, PassFields, AskedFields
<1>4. job'[a].passing => Phase(a)'
  BY <1>3 DEF Phase
<1>5. \A q \in Bundled : job'[a].copy[q] = 0
  BY <1>3, BundledRecords
<1> QED
  BY <1>1, <1>2, <1>3, <1>4, <1>5, QuietOthers, QuietRepairs

LEMMA CommandRepairs ==
    ASSUME TypeInv, StageInv, RepairInv, NEW a \in Programs,
           Fetch(a) \/ Find(a) \/ Known(a) \/ Load(a) \/ Settings(a)
    PROVE  RepairInv'
<1> DEFINE j == job[a]
<1>0. j \in Jobs /\ Stage(j, source)
  BY JobFacts
<1>1. /\ TypeInv' /\ UNCHANGED <<source, dir, registry, history>> /\ j.at \notin {"clear", "copy"}
      /\ \A b \in Programs \ {a} : Kept(job[b], job'[b]) /\ job'[b].disturbed = job[b].disturbed
      /\ ~job'[a].passing /\ job'[a].at # "copy"
      /\ \A p \in Bundled : job'[a].copy[p] \in {j.copy[p], registry[p], 0}
  <2>1. CASE Fetch(a)
    <3>1. PICK mine : mine = [j EXCEPT !.at = "clear", !.item = j.plugin, !.version = source[j.plugin]]
      OBVIOUS
    <3>2. TypeInv' /\ Beginning(a) /\ Kept(mine, job'[a])
      BY <2>1, <3>1, FetchEffect
    <3>3. ~j.passing
      BY <1>0, <2>1 DEF Fetch, Stage, PassStage
    <3>4. mine.copy = j.copy /\ mine.at = "clear" /\ mine.passing = j.passing
      BY <1>0, <3>1 DEF Jobs
    <3>5. UNCHANGED <<source, dir, registry, history>> /\ j.at \notin {"clear", "copy"}
      BY <2>1 DEF Fetch, files, history
    <3> QED
      BY <3>2, <3>3, <3>4, <3>5 DEF Beginning, Kept
  <2>2. CASE Find(a)
    <3>1. PICK found : found = [j EXCEPT !.copy = registry, !.old = RegistryOpen]
      OBVIOUS
    <3>2. /\ TypeInv'
          /\ \/ job'[a] = [found EXCEPT !.at = "fetch"] /\ Quietly(a)
             \/ Beginning(a) /\ Kept([found EXCEPT !.at = "clear", !.item = j.plugin], job'[a])
      BY <2>2, <3>1, FindEffect
    <3>3. ~j.passing
      BY <1>0, <2>2 DEF Find, Stage, PassStage
    <3>4. job'[a].copy = registry /\ job'[a].at # "copy" /\ job'[a].passing = j.passing
      BY <1>0, <3>1, <3>2 DEF Jobs, Kept
    <3>5. UNCHANGED <<source, dir, registry, history>> /\ j.at \notin {"clear", "copy"}
      BY <2>2 DEF Find, files, history
    <3>6. \A b \in Programs \ {a} : Kept(job[b], job'[b]) /\ job'[b].disturbed = job[b].disturbed
      BY <3>2, QuietOthers DEF Beginning
    <3> QED
      BY <3>2, <3>3, <3>4, <3>5, <3>6
  <2>3. CASE Known(a)
    <3>1. PICK mine : mine = [j EXCEPT !.at = "settings"]
      OBVIOUS
    <3>2. TypeInv' /\ Beginning(a) /\ Kept(mine, job'[a])
      BY <2>3, <3>1, KnownEffect
    <3>3. ~j.passing
      BY <1>0, <2>3 DEF Known, Stage, PassStage
    <3>4. mine.copy = j.copy /\ mine.at = "settings" /\ mine.passing = j.passing
      BY <1>0, <3>1 DEF Jobs
    <3>5. UNCHANGED <<source, dir, registry, history>> /\ j.at \notin {"clear", "copy"}
      BY <2>3 DEF Known, files, history
    <3> QED
      BY <3>2, <3>3, <3>4, <3>5 DEF Beginning, Kept
  <2>4. CASE Load(a)
    <3> DEFINE recorded == [registry EXCEPT ![j.plugin] = j.version]
    <3>1. /\ TypeInv' /\ Quietly(a)
          /\ job'[a] = [j EXCEPT !.at = "store", !.then = "settings", !.item = Nobody,
                           !.version = 0, !.old = RegistryOpen, !.copy = recorded]
      BY <2>4, LoadEffect
    <3>2. ~j.passing /\ j.plugin \in External
      BY <1>0, <2>4 DEF Load, Stage, PassStage, CommandStage
    <3>3. \A p \in Bundled : recorded[p] = registry[p]
      BY <3>2, PluginsAssumption DEF TypeInv, Records, External
    <3> HIDE DEF recorded
    <3>4. job'[a].copy = recorded /\ job'[a].at = "store" /\ job'[a].passing = j.passing
      BY <1>0, <3>1 DEF Jobs
    <3>5. UNCHANGED <<source, dir, registry, history>> /\ j.at \notin {"clear", "copy"}
      BY <2>4 DEF Load, files, history
    <3> QED
      BY <3>1, <3>2, <3>3, <3>4, <3>5, QuietOthers
  <2>5. CASE Settings(a)
    <3>1. /\ TypeInv' /\ Quietly(a)
          /\ job'[a] = [j EXCEPT !.at = "empty", !.old = SettingsOpen,
                           !.set = [settings EXCEPT ![j.plugin] = Wanted(j)]]
      BY <2>5, SettingsEffect
    <3>2. ~j.passing
      BY <1>0, <2>5 DEF Settings, Stage, PassStage
    <3>3. job'[a].copy = j.copy /\ job'[a].at = "empty" /\ job'[a].passing = j.passing
      BY <1>0, <3>1 DEF Jobs
    <3>4. UNCHANGED <<source, dir, registry, history>> /\ j.at \notin {"clear", "copy"}
      BY <2>5 DEF Settings, files, history
    <3> QED
      BY <3>1, <3>2, <3>3, <3>4, QuietOthers
  <2> QED
    BY <2>1, <2>2, <2>3, <2>4, <2>5
<1> QED
  BY <1>1, QuietRepairs

LEMMA StopRepairs ==
    ASSUME TypeInv, StageInv, RepairInv, NEW a \in Programs, Stop(a)
    PROVE  RepairInv'
<1>1. PICK overtaken : overtaken = (job[a].at \in {"fill", "write"})
  OBVIOUS
<1>2. /\ TypeInv' /\ job'[a] = Off
      /\ \A b \in Programs \ {a} : Kept(job[b], job'[b]) /\ job'[b].disturbed = job[b].disturbed
  BY <1>1, StopEffect
<1>3. UNCHANGED <<source, dir, registry>> /\ torn' = torn \cup ({job[a].item} \cap Bundled)
  BY DEF Stop, files, history
<1>4. ~job'[a].passing /\ job'[a].at # "copy" /\ job'[a].copy = NoRecords
  BY <1>2, NoneJobs DEF Off
<1>5. \A p \in Bundled : job'[a].copy[p] = 0
  BY <1>4, BundledRecords
<1>6. ASSUME NEW p \in Bundled PROVE Lands(a, p)
  BY <1>2, <1>3, LandsBeside
<1> QED
  BY <1>2, <1>3, <1>4, <1>5, <1>6, BesideRepairs

\* A plugin of the program that loads and is recorded at its version loads as that version.
LEMMA LoadsInPlace ==
    ASSUME TypeInv, KeepInv, NEW p \in Bundled, ~NeedsSync(p)
    PROVE  registry[p] = source[p] /\ InPlace(p)
<1>1. registry[p] = source[p] /\ (source[p] # 0 => Loads(dir[p]))
  BY DEF NeedsSync
<1>2. ASSUME source[p] # 0 PROVE LoadsAs(dir[p], source[p])
  <2>1. PICK v \in Versions : LoadsAs(dir[p], v)
    BY <1>1, <1>2 DEF Loads
  <2>2. dir[p] \subseteq Contents(source[p])
    BY <1>1, <1>2 DEF KeepInv, Current
  <2>3. <<"manifest", v>> \in Contents(source[p])
    BY <2>1, <2>2 DEF LoadsAs
  <2>4. v = source[p]
    BY <2>3 DEF Contents
  <2> QED
    BY <2>1, <2>4
<1> QED
  BY <1>1, <1>2 DEF InPlace

LEMMA SyncRepairs ==
    ASSUME TypeInv, StageInv, RepairInv, NEW a \in Programs, Sync(a)
    PROVE  RepairInv'
<1>0. job[a] \in Jobs
  BY JobFacts
<1>1. /\ TypeInv' /\ Quietly(a)
      /\ job'[a] = IF Due = {} THEN [job[a] EXCEPT !.at = "discover", !.disturbed = RegistryOpen]
                   ELSE [job[a] EXCEPT !.at = "bundled", !.todo = Due, !.copy = registry,
                                       !.old = RegistryOpen, !.disturbed = RegistryOpen]
  BY SyncEffect
<1>2. UNCHANGED <<source, dir, registry, history>> /\ job[a].at = "sync"
  BY DEF Sync, files, history
<1>3. ASSUME NEW p \in Bundled, p \notin Due PROVE registry[p] = source[p] /\ InPlace(p)
  BY <1>3, LoadsInPlace DEF Due, RepairInv
<1>4. CASE Due = {}
  <2>1. job'[a].at = "discover" /\ job'[a].copy = job[a].copy
    BY <1>0, <1>1, <1>4 DEF Jobs
  <2>2. \A p \in Bundled : registry'[p] = source'[p] /\ InPlace(p)'
    BY <1>2, <1>3, <1>4 DEF InPlace
  <2>3. Phase(a)'
    BY <2>1, <2>2 DEF Phase
  <2> QED
    BY <1>1, <1>2, <2>1, <2>3, QuietOthers, QuietRepairs
<1>5. CASE Due # {}
  <2>1. job'[a].at = "bundled" /\ job'[a].copy = registry /\ job'[a].todo = Due
    BY <1>0, <1>1, <1>5 DEF Jobs
  <2>2. \A p \in Bundled : p \in job'[a].todo \/ Done(a, p)'
    BY <1>2, <1>3, <2>1 DEF InPlace, Done
  <2>3. Phase(a)'
    BY <2>1, <2>2 DEF Phase
  <2> QED
    BY <1>1, <1>2, <2>1, <2>3, QuietOthers, QuietRepairs
<1> QED
  BY <1>4, <1>5

LEMMA SyncOneRepairs ==
    ASSUME TypeInv, StageInv, RepairInv, NEW a \in Programs,
           Synced(a) \/ \E p \in Plugins : SyncOne(a, p)
    PROVE  RepairInv'
<1>0. job[a] \in Jobs /\ Stage(job[a], source)
  BY JobFacts
<1>1. CASE Synced(a)
  <2>1. TypeInv' /\ Quietly(a) /\ job'[a] = [job[a] EXCEPT !.at = "store", !.then = "discover"]
    BY <1>1, SyncedEffect
  <2>2. UNCHANGED <<source, dir, registry, history>> /\ job[a].at = "bundled" /\ job[a].todo = {}
    BY <1>1 DEF Synced, files, history
  <2>3. /\ job'[a].at = "store" /\ job'[a].then = "discover" /\ job'[a].copy = job[a].copy
        /\ job'[a].passing = job[a].passing /\ job'[a].disturbed = job[a].disturbed
    BY <1>0, <2>1 DEF Jobs
  <2>4. ASSUME job'[a].passing, ~job'[a].disturbed PROVE Phase(a)'
    <3>1. Phase(a)
      BY <2>3, <2>4 DEF RepairInv, PhaseInv, InPass
    <3>2. \A p \in Bundled : Done(a, p)
      BY <2>2, <3>1 DEF Phase
    <3>3. \A p \in Bundled : Done(a, p)'
      BY <2>2, <2>3, <3>2 DEF Done, InPlace
    <3> QED
      BY <2>3, <3>3 DEF Phase
  <2> QED
    BY <2>1, <2>2, <2>3, <2>4, QuietOthers, QuietRepairs
<1>2. CASE \E p \in Plugins : SyncOne(a, p)
  <2>0. PICK p \in Plugins : SyncOne(a, p)
    BY <1>2
  <2>1. /\ TypeInv' /\ Quietly(a)
        /\ job'[a] = [job[a] EXCEPT !.at = "clear", !.todo = @ \ {p}, !.item = p, !.version = source[p]]
    BY <2>0, SyncOneEffect
  <2>2. UNCHANGED <<source, dir, registry, history>> /\ job[a].at = "bundled"
    BY <2>0 DEF SyncOne, files, history
  <2>3. /\ job'[a].at = "clear" /\ job'[a].item = p /\ job'[a].todo = job[a].todo \ {p}
        /\ job'[a].copy = job[a].copy
        /\ job'[a].passing = job[a].passing /\ job'[a].disturbed = job[a].disturbed
    BY <1>0, <2>1 DEF Jobs
  <2>4. ASSUME job'[a].passing, ~job'[a].disturbed PROVE Phase(a)'
    <3>1. Phase(a)
      BY <2>3, <2>4 DEF RepairInv, PhaseInv, InPass
    <3>2. \A q \in Bundled : q \in job[a].todo \/ Done(a, q)
      BY <2>2, <3>1 DEF Phase
    <3>3. \A q \in Bundled : Done(a, q) => Done(a, q)'
      BY <2>2, <2>3 DEF Done, InPlace
    <3>4. \A q \in Bundled : q \in job'[a].todo \/ q = job'[a].item \/ Done(a, q)'
      BY <2>3, <3>2, <3>3
    <3> QED
      BY <2>3, <3>4 DEF Phase
  <2> QED
    BY <2>1, <2>2, <2>3, <2>4, QuietOthers, QuietRepairs
<1> QED
  BY <1>1, <1>2

LEMMA DiscoverRepairs ==
    ASSUME TypeInv, StageInv, RepairInv, NEW a \in Programs, Discover(a)
    PROVE  RepairInv'
<1>0. job[a] \in Jobs /\ Stage(job[a], source)
  BY JobFacts
<1>1. TypeInv' /\ Quietly(a) /\ BackedRecords \in Records
  BY DiscoverEffect
<1>2. PICK outcome \in {"refused", "found"} :
         job'[a] = IF BackedRecords = registry THEN [job[a] EXCEPT !.at = outcome]
                   ELSE [job[a] EXCEPT !.at = "store", !.then = outcome,
                                       !.copy = BackedRecords, !.old = RegistryOpen]
  BY DiscoverEffect
<1>3. UNCHANGED <<source, dir, registry, history>> /\ job[a].at = "discover"
  BY DEF Discover, files, history
<1>4. \A p \in Plugins : BackedRecords[p] = IF HasManifest(dir[p]) THEN registry[p] ELSE 0
  BY DEF BackedRecords
<1>5. Backed(BackedRecords)
  BY <1>4 DEF Backed
<1>6. \A p \in Bundled : BackedRecords[p] \in {registry[p], 0}
  BY <1>4, PluginsAssumption
<1>7. ASSUME job[a].passing, ~job[a].disturbed
      PROVE  \A p \in Bundled : registry[p] = source[p] /\ InPlace(p)
  BY <1>3, <1>7 DEF RepairInv, PhaseInv, Phase, InPass
<1>8. CASE BackedRecords = registry
  <2>1. /\ job'[a].at = outcome /\ job'[a].copy = job[a].copy
        /\ job'[a].passing = job[a].passing /\ job'[a].disturbed = job[a].disturbed
    BY <1>0, <1>2, <1>8 DEF Jobs
  <2>2. ASSUME job'[a].passing, ~job'[a].disturbed PROVE Phase(a)'
    <3>1. \A p \in Bundled : registry'[p] = source'[p] /\ InPlace(p)'
      BY <1>3, <1>7, <2>1, <2>2 DEF InPlace
    <3>2. Backed(registry)'
      BY <1>3, <1>5, <1>8 DEF Backed
    <3> QED
      BY <2>1, <3>1, <3>2 DEF Phase
  <2> QED
    BY <1>1, <1>3, <2>1, <2>2, QuietOthers, QuietRepairs
<1>9. CASE BackedRecords # registry
  <2>1. /\ job'[a].at = "store" /\ job'[a].then = outcome /\ job'[a].copy = BackedRecords
        /\ job'[a].passing = job[a].passing /\ job'[a].disturbed = job[a].disturbed
    BY <1>0, <1>2, <1>9 DEF Jobs
  <2>2. ASSUME job'[a].passing, ~job'[a].disturbed PROVE Phase(a)'
    <3>1. ASSUME NEW p \in Bundled PROVE Done(a, p)'
      <4>1. registry[p] = source[p] /\ InPlace(p) /\ p \in Plugins /\ source[p] \in 0 .. MaxVersion
        BY <1>7, <2>1, <2>2, BundledRecords
      <4>2. source[p] # 0 => HasManifest(dir[p])
        BY <4>1 DEF InPlace, LoadsAs, HasManifest, Versions
      <4>3. BackedRecords[p] = source[p]
        BY <1>4, <4>1, <4>2
      <4> QED
        BY <1>3, <2>1, <4>1, <4>3 DEF Done, InPlace
    <3>2. Backed(job[a].copy)'
      BY <1>3, <1>5, <2>1 DEF Backed
    <3> QED
      BY <2>1, <3>1, <3>2 DEF Phase
  <2> QED
    BY <1>1, <1>3, <1>6, <2>1, <2>2, QuietOthers, QuietRepairs
<1> QED
  BY <1>8, <1>9

LEMMA FoundRepairs ==
    ASSUME TypeInv, StageInv, RepairInv, NEW a \in Programs, Found(a)
    PROVE  RepairInv'
<1>1. /\ TypeInv' /\ Quietly(a)
      /\ job'[a] = Ready \/ job'[a] = Asked(job[a].what, job[a].plugin, "known")
  BY FoundEffect
<1>2. UNCHANGED <<source, dir, registry, history>> /\ job[a].at \notin {"clear", "copy"}
  BY DEF Found, files, history
<1>3. job'[a].copy = NoRecords /\ job'[a].at # "copy" /\ ~job'[a].passing
  BY <1>1, IdleFields, AskedFields
<1>4. \A p \in Bundled : job'[a].copy[p] = 0
  BY <1>3, BundledRecords
<1> QED
  BY <1>1, <1>2, <1>3, <1>4, QuietOthers, QuietRepairs

\* What a pass was done with before a step on another plugin is still done.
LEMMA DoneKept ==
    ASSUME NEW a \in Programs, NEW p \in Bundled, Done(a, p), source' = source,
           job'[a].copy[p] = job[a].copy[p], dir'[p] = dir[p]
    PROVE  Done(a, p)'
BY DEF Done, InPlace

LEMMA ClearRepairs ==
    ASSUME TypeInv, StageInv, RepairInv, NEW a \in Programs, Clear(a)
    PROVE  RepairInv'
<1> DEFINE j == job[a]
<1>1. j \in Jobs /\ Stage(j, source) /\ j.at = "clear"
  BY JobFacts DEF Clear
<1>2. TypeInv' /\ Loudly(a, "dir", FALSE)
  BY ClearEffect
<1>3. PICK left \in SUBSET dir[j.item] :
         /\ dir' = [dir EXCEPT ![j.item] = left]
         /\ job'[a] = IF left = {} THEN Cleared(a) ELSE j
         /\ torn' = torn \/ (left = {} /\ Renewed(a))
  BY ClearEffect
<1>4. source' = source /\ registry' = registry
  BY DEF Clear, files, history
<1>5. j.item \in Plugins /\ (j.passing => j.item \in Bundled)
  BY <1>1, PluginsAssumption DEF Stage, PassStage, CommandStage
<1>6. /\ dir'[j.item] = left
      /\ \A p \in Plugins \ {j.item} : dir'[p] = dir[p]
      /\ \A p \in Plugins : dir'[p] \subseteq dir[p]
  <2>1. dir'[j.item] = left /\ \A p \in Plugins \ {j.item} : dir'[p] = dir[p]
    BY <1>3, <1>5 DEF TypeInv
  <2> QED
    BY <1>3, <2>1
<1>0. ASSUME NEW p \in Bundled, p # j.item PROVE Lands(a, p)
  <2>1. torn' = torn \/ torn' = torn \ {j.item}
    BY <1>3 DEF Renewed
  <2>2. dir'[p] = dir[p] /\ (p \in torn => p \in torn')
    BY <1>0, <1>6, <2>1, PluginsAssumption
  <2>3. \A b \in Programs \ {a} : Kept(job[b], job'[b])
    BY <1>2 DEF Loudly
  <2> QED
    BY <1>0, <1>4, <2>2, <2>3, LandsBeside
<1>7. ASSUME j.passing, ~j.disturbed
      PROVE  \A p \in Bundled : p \in j.todo \/ p = j.item \/ Done(a, p)
  BY <1>1, <1>7 DEF RepairInv, PhaseInv, Phase, InPass
<1>8. CASE left # {} \/ Cleared(a) = [j EXCEPT !.at = "copy"]
  <2>1. /\ job'[a].at \in {"clear", "copy"} /\ job'[a].copy = j.copy /\ job'[a].item = j.item
        /\ job'[a].todo = j.todo /\ job'[a].passing = j.passing /\ job'[a].disturbed = j.disturbed
        /\ job'[a].at = "copy" => left = {}
        /\ job'[a].landed = {}
    <3>1. CASE left # {}
      BY <1>1, <1>3, <3>1 DEF Stage, CopyStage
    <3>2. CASE left = {}
      BY <1>1, <1>3, <1>8, <3>2 DEF Jobs, Stage, CopyStage
    <3> QED
      BY <3>1, <3>2
  <2>2. ASSUME NEW p \in Bundled PROVE Moves(a, p)
    <3>1. p \in Plugins
      BY PluginsAssumption
    <3>2. p = j.item => \A part \in Parts : Awaits(a, p, part)'
      BY <2>1 DEF Awaits
    <3>3. Lands(a, p)
      BY <1>0, <3>2 DEF Lands
    <3>4. Copying(a, p)' => dir'[p] = {} /\ \A part \in Parts : Awaits(a, p, part)'
      BY <1>6, <2>1, <3>1, <3>2 DEF Copying
    <3> QED
      BY <1>4, <1>6, <2>1, <3>1, <3>3, <3>4 DEF Moves
  <2>3. ASSUME job'[a].passing, ~job'[a].disturbed PROVE Phase(a)'
    <3>1. ASSUME NEW p \in Bundled PROVE p \in job'[a].todo \/ p = job'[a].item \/ Done(a, p)'
      <4>1. CASE p \in j.todo \/ p = j.item
        BY <2>1, <4>1
      <4>2. CASE ~(p \in j.todo \/ p = j.item)
        <5>1. Done(a, p) /\ dir'[p] = dir[p]
          BY <1>6, <1>7, <2>1, <2>3, <4>2, PluginsAssumption
        <5> QED
          BY <1>4, <2>1, <5>1, DoneKept
      <4> QED
        BY <4>1, <4>2
    <3>2. job'[a].landed \X {job'[a].version} \subseteq dir'[job'[a].item]
      BY <2>1
    <3> QED
      BY <2>1, <3>1, <3>2 DEF Phase
  <2> QED
    BY <1>2, <1>4, <2>2, <2>3, LoudRepairs
<1>9. CASE left = {} /\ InPass(a) /\ source[j.item] = 0 /\ Cleared(a).at = "bundled"
           /\ Recorded(j, Cleared(a), 0)
  <2>1. /\ job'[a].at = "bundled" /\ Recorded(j, job'[a], 0)
        /\ job'[a].todo = j.todo /\ job'[a].passing = j.passing /\ job'[a].disturbed = j.disturbed
    BY <1>1, <1>3, <1>9, ClearedJobs DEF Onward
  <2>2. /\ job'[a].copy[j.item] = 0
        /\ \A p \in Plugins \ {j.item} : job'[a].copy[p] = j.copy[p]
    BY <2>1 DEF Recorded
  <2>3. ASSUME NEW p \in Bundled PROVE Moves(a, p)
    <3>1. p \in Plugins
      BY PluginsAssumption
    <3>2. Lands(a, p)
      BY <1>0, <1>9 DEF Lands
    <3> QED
      BY <1>4, <1>6, <2>1, <2>2, <3>1, <3>2 DEF Moves, Copying
  <2>4. ASSUME job'[a].passing, ~job'[a].disturbed PROVE Phase(a)'
    <3>1. ASSUME NEW p \in Bundled PROVE p \in job'[a].todo \/ Done(a, p)'
      <4>1. CASE p \in j.todo
        BY <2>1, <4>1
      <4>2. CASE p = j.item
        BY <1>4, <1>9, <2>2, <4>2 DEF Done, InPlace
      <4>3. CASE ~(p \in j.todo \/ p = j.item)
        <5>1. Done(a, p) /\ dir'[p] = dir[p] /\ job'[a].copy[p] = j.copy[p]
          BY <1>6, <1>7, <2>1, <2>2, <2>4, <4>3, PluginsAssumption
        <5> QED
          BY <1>4, <5>1, DoneKept
      <4> QED
        BY <4>1, <4>2, <4>3
    <3> QED
      BY <2>1, <3>1 DEF Phase
  <2> QED
    BY <1>2, <1>4, <2>3, <2>4, LoudRepairs
<1>10. CASE left = {} /\ ~InPass(a) /\ j.what = "uninstall" /\ Cleared(a).at = "store"
            /\ Recorded(j, Cleared(a), 0)
  <2>1. /\ job'[a].at = "store" /\ Recorded(j, job'[a], 0)
        /\ ~job'[a].passing
    BY <1>1, <1>3, <1>10, ClearedJobs DEF Onward, InPass
  <2>2. /\ job'[a].copy[j.item] = 0
        /\ \A p \in Plugins \ {j.item} : job'[a].copy[p] = j.copy[p]
    BY <2>1 DEF Recorded
  <2>3. ASSUME NEW p \in Bundled PROVE Moves(a, p)
    <3>1. p \in Plugins
      BY PluginsAssumption
    <3>2. p # j.item
      BY <1>1, <1>10 DEF InPass, Stage, CommandStage, External
    <3>3. Lands(a, p)
      BY <1>0, <3>2
    <3> QED
      BY <1>4, <1>6, <2>1, <2>2, <3>1, <3>3 DEF Moves, Copying
  <2> QED
    BY <1>2, <1>4, <2>1, <2>3, LoudRepairs
<1> QED
  BY <1>1, <1>8, <1>9, <1>10, ClearedJobs

\* The part may be the next to land, and what comes of it: what has landed stays, and the
\* parts are those of the version.
MayLand(landed, part) ==
    /\ landed \subseteq Parts /\ part \in Parts \ landed
    /\ "checked" \in landed => "manifest" \in landed
    /\ part = "checked" => "manifest" \in landed
HasLanded(d, v, landed, part) ==
    /\ Landed(d, part, v) \subseteq d \cup Contents(v)
    /\ landed \X {v} \subseteq d => (landed \cup {part}) \X {v} \subseteq Landed(d, part, v)
    /\ d = landed \X {v} => Landed(d, part, v) = (landed \cup {part}) \X {v}
    /\ part # "checked" \/ <<"manifest", v>> \in d => <<part, v>> \in Landed(d, part, v)
    /\ \A p \in Parts : <<p, v>> \in d =>
          <<p, v>> \in Landed(d, part, v) \/ (part = "manifest" /\ p = "checked")

LEMMA LandedHolds ==
    ASSUME NEW d, NEW v, NEW landed, NEW part, MayLand(landed, part)
    PROVE  HasLanded(d, v, landed, part)
<1> USE DEF MayLand, HasLanded
<1>1. part \in {"manifest", "checked", "rest"}
  BY DEF Parts
<1>2. CASE part = "manifest"
  <2>1. Landed(d, part, v) = (d \ ({"manifest", "checked"} \X Versions)) \cup {<<"manifest", v>>}
    BY <1>2 DEF Landed
  <2>2. landed \subseteq {"rest"}
    BY <1>2 DEF Parts
  <2> QED
    BY <1>2, <2>1, <2>2 DEF Parts, Contents
<1>3. CASE part = "checked"
  <2>1. Landed(d, part, v) = IF <<"manifest", v>> \in d THEN d \cup {<<"checked", v>>} ELSE d
    BY <1>3 DEF Landed
  <2> QED
    BY <1>3, <2>1 DEF Parts, Contents
<1>4. CASE part = "rest"
  <2>1. Landed(d, part, v) = d \cup {<<"rest", v>>}
    BY <1>4 DEF Landed
  <2> QED
    BY <1>4, <2>1 DEF Parts, Contents
<1> QED
  BY <1>1, <1>2, <1>3, <1>4

\* The others await what they awaited.
LEMMA AwaitsKept ==
    ASSUME NEW b \in Programs, Kept(job[b], job'[b]), NEW p, NEW part
    PROVE  Awaits(b, p, part)' <=> Awaits(b, p, part)
BY DEF Awaits, Kept

\* A part lands where all that was missing was awaited.
LEMMA CopyLands ==
    ASSUME TypeInv, StageInv, NEW a \in Programs, job[a].at = "copy", source' = source, torn' = torn,
           \A b \in Programs \ {a} : Kept(job[b], job'[b]),
           NEW p \in Bundled, p = job[a].item, NEW part \in Parts \ job[a].landed,
           part = "checked" => "manifest" \in job[a].landed,
           dir'[p] = Landed(dir[p], part, job[a].version),
           \/ job[a].landed \cup {part} = Parts
           \/ job'[a] = Further(job[a], part)
    PROVE  Lands(a, p)
<1> SUFFICES ASSUME \A q \in Parts : There(p, q), NEW q \in Parts, p \notin torn
             PROVE  There(p, q)'
  BY Zenon DEF Lands
<1>1. job[a] \in Jobs /\ Stage(job[a], source)
  BY JobFacts
<1> PICK landed : landed = job[a].landed
  OBVIOUS
<1> PICK v : v = source[p]
  OBVIOUS
<1>2. MayLand(landed, part) /\ job[a].version = v
  BY <1>1, PluginsAssumption DEF MayLand, Jobs, Stage, CopyStage, PassStage, CommandStage, External
<1>3. /\ part # "checked" => <<part, v>> \in dir'[p]
      /\ part = "checked" /\ <<"manifest", v>> \in dir[p] => <<part, v>> \in dir'[p]
      /\ \A r \in Parts : <<r, v>> \in dir[p] =>
            <<r, v>> \in dir'[p] \/ (part = "manifest" /\ r = "checked")
  <2>1. HasLanded(dir[p], v, landed, part)
    BY <1>2, LandedHolds
  <2>2. dir'[p] = Landed(dir[p], part, v)
    BY <1>2
  <2> QED
    BY <2>1, <2>2 DEF HasLanded
<1>4. \A b \in Programs \ {a}, r \in Parts : Awaits(b, p, r) => Awaits(b, p, r)'
  BY AwaitsKept
<1>5. \A r \in Parts \ landed : r # part => Awaits(a, p, r)'
  <2> SUFFICES ASSUME NEW r \in Parts \ landed, r # part PROVE Awaits(a, p, r)'
    OBVIOUS
  <2>1. job'[a] = Further(job[a], part)
    OBVIOUS
  <2>2. /\ job'[a].at = "copy" /\ job'[a].item = p /\ job'[a].landed = landed \cup {part}
    BY <1>1, <2>1 DEF Jobs, Further
  <2> QED
    BY <2>2 DEF Awaits
<1>6. \A r \in Parts : Awaits(a, p, r) => r \notin landed
  BY DEF Awaits
<1>7. CASE q = part /\ part # "checked"
  BY <1>3, <1>7 DEF There
<1>8. CASE q = part /\ part = "checked"
  <2>1. There(p, "manifest") /\ "manifest" \in Parts
    BY DEF Parts
  <2>2. CASE <<"manifest", v>> \in dir[p]
    BY <1>3, <1>8, <2>2 DEF There
  <2>3. CASE \E b \in Programs : Awaits(b, p, "manifest")
    <3>1. PICK b \in Programs : Awaits(b, p, "manifest")
      BY <2>3
    <3>2. b # a
      BY <1>6, <1>8, <2>1, <3>1
    <3>3. Awaits(b, p, "checked")
      BY <3>1, JobFacts DEF Awaits, Stage, CopyStage
    <3> QED
      BY <1>4, <1>8, <3>2, <3>3 DEF There
  <2> QED
    BY <2>1, <2>2, <2>3 DEF There
<1>9. CASE q # part
  <2>1. There(p, q)
    OBVIOUS
  <2>2. CASE \E b \in Programs \ {a} : Awaits(b, p, q)
    BY <1>4, <2>2 DEF There
  <2>3. CASE Awaits(a, p, q)
    BY <1>5, <1>6, <1>9, <2>3 DEF There
  <2>4. CASE <<q, v>> \in dir[p]
    <3>1. CASE part = "manifest" /\ q = "checked"
      <4>1. q \notin landed
        BY <1>2, <3>1 DEF MayLand
      <4> QED
        BY <1>5, <1>9, <4>1 DEF There
    <3>2. CASE ~(part = "manifest" /\ q = "checked")
      BY <1>3, <2>4, <3>2 DEF There
    <3> QED
      BY <3>1, <3>2
  <2> QED
    BY <2>1, <2>2, <2>3, <2>4 DEF There
<1> QED
  BY <1>7, <1>8, <1>9

LEMMA CopyRepairs ==
    ASSUME TypeInv, StageInv, RepairInv, NEW a \in Programs, Copy(a)
    PROVE  RepairInv'
<1> DEFINE j == job[a]
<1>1. j \in Jobs /\ Stage(j, source) /\ j.at = "copy"
  BY JobFacts DEF Copy
<1>2. TypeInv' /\ Loudly(a, "dir", FALSE) /\ torn' = torn
  BY CopyEffect
<1>3. PICK part \in Parts \ j.landed :
         /\ part = "checked" => "manifest" \in j.landed
         /\ dir' = [dir EXCEPT ![j.item] = Landed(dir[j.item], part, j.version)]
         /\ job'[a] = IF j.landed \cup {part} = Parts THEN Copied(a) ELSE Further(j, part)
  BY CopyEffect
<1> DEFINE after == Landed(dir[j.item], part, j.version)
<1>4. source' = source /\ registry' = registry
  BY DEF Copy, files
<1>5. j.item \in Plugins /\ (j.passing => j.item \in Bundled) /\ j.version = source[j.item]
      /\ j.version # 0
  BY <1>1, PluginsAssumption DEF Stage, PassStage, CommandStage, CopyStage
<1>6. /\ after \subseteq dir[j.item] \cup Contents(j.version)
      /\ j.landed \X {j.version} \subseteq dir[j.item] =>
            (j.landed \cup {part}) \X {j.version} \subseteq after
  <2>1. MayLand(j.landed, part)
    BY <1>1, <1>3 DEF MayLand, Jobs, Stage, CopyStage
  <2>2. HasLanded(dir[j.item], j.version, j.landed, part)
    BY <2>1, LandedHolds
  <2> QED
    BY <2>2 DEF HasLanded
<1>7. dir'[j.item] = after /\ \A p \in Plugins \ {j.item} : dir'[p] = dir[p]
  <2> HIDE DEF after
  <2>1. dir' = [dir EXCEPT ![j.item] = after]
    BY <1>3 DEF after
  <2> QED
    BY <1>5, <2>1 DEF TypeInv
<1>8. ASSUME j.passing, ~j.disturbed
      PROVE  /\ \A p \in Bundled : p \in j.todo \/ p = j.item \/ Done(a, p)
             /\ (j.landed \cup {part}) \X {j.version} \subseteq after
  BY <1>1, <1>6, <1>8 DEF RepairInv, PhaseInv, Phase, InPass
<1>9. \A b \in Programs \ {a} : Kept(job[b], job'[b])
  BY <1>2 DEF Loudly
<1>10. ASSUME NEW p \in Bundled
       PROVE  /\ \/ dir'[p] \subseteq dir[p]
                 \/ Copying(a, p) /\ dir'[p] \subseteq dir[p] \cup Contents(source[p])
              /\ Lands(a, p)
  <2>1. CASE p = j.item
    <3>1. Lands(a, p)
      <4>1. dir'[p] = Landed(dir[p], part, j.version)
        BY <1>7, <2>1
      <4> HIDE DEF after
      <4> QED
        BY <1>1, <1>2, <1>3, <1>4, <1>9, <2>1, <4>1, CopyLands
    <3> QED
      BY <1>1, <1>5, <1>6, <1>7, <2>1, <3>1 DEF Copying
  <2>2. CASE p # j.item
    <3>1. dir'[p] = dir[p]
      BY <1>7, <2>2, PluginsAssumption
    <3> QED
      BY <1>2, <1>4, <1>9, <2>2, <3>1, LandsBeside
  <2> QED
    BY <2>1, <2>2
<1> HIDE DEF after
<1>11. CASE j.landed \cup {part} # Parts
  <2>0. job'[a] = Further(j, part)
    BY <1>3, <1>11
  <2>1. /\ job'[a].at = "copy" /\ job'[a].item = j.item /\ job'[a].copy = j.copy
        /\ job'[a].todo = j.todo /\ job'[a].passing = j.passing /\ job'[a].disturbed = j.disturbed
        /\ job'[a].version = j.version /\ job'[a].landed = j.landed \cup {part}
    BY <1>1, <2>0 DEF Jobs, Further
  <2>2. ASSUME NEW p \in Bundled PROVE Moves(a, p)
    BY <1>1, <1>4, <1>10, <2>1 DEF Moves, Copying
  <2>3. ASSUME job'[a].passing, ~job'[a].disturbed PROVE Phase(a)'
    <3>1. ASSUME NEW p \in Bundled PROVE p \in job'[a].todo \/ p = job'[a].item \/ Done(a, p)'
      <4>1. CASE p \in j.todo \/ p = j.item
        BY <2>1, <4>1
      <4>2. CASE ~(p \in j.todo \/ p = j.item)
        <5>1. Done(a, p) /\ dir'[p] = dir[p]
          BY <1>7, <1>8, <2>1, <2>3, <4>2, PluginsAssumption
        <5> QED
          BY <1>4, <2>1, <5>1, DoneKept
      <4> QED
        BY <4>1, <4>2
    <3>2. job'[a].landed \X {job'[a].version} \subseteq dir'[job'[a].item]
      BY <1>7, <1>8, <2>1, <2>3
    <3> QED
      BY <2>1, <3>1, <3>2 DEF Phase
  <2> QED
    BY <1>2, <1>4, <2>2, <2>3, LoudRepairs
<1>12. CASE j.landed \cup {part} = Parts
  <2>1. job'[a] = Copied(a)
    BY <1>3, <1>12
  <2>2. CASE InPass(a) /\ Copied(a).at = "bundled"
             /\ Recorded(j, Copied(a), j.version)
    <3>1. /\ job'[a].at = "bundled" /\ Recorded(j, job'[a], j.version)
          /\ job'[a].todo = j.todo /\ job'[a].passing = j.passing /\ job'[a].disturbed = j.disturbed
      BY <1>1, <2>1, <2>2, CopiedJobs DEF Onward
    <3>2. /\ job'[a].copy[j.item] = j.version
          /\ \A p \in Plugins \ {j.item} : job'[a].copy[p] = j.copy[p]
      BY <3>1 DEF Recorded
    <3>3. ASSUME NEW p \in Bundled PROVE Moves(a, p)
      <4>1. CASE p = j.item
        BY <1>1, <1>4, <1>5, <1>10, <3>1, <3>2, <4>1 DEF Moves, Copying
      <4>2. CASE p # j.item
        BY <1>4, <1>10, <3>1, <3>2, <4>2, PluginsAssumption DEF Moves, Copying
      <4> QED
        BY <4>1, <4>2
    <3>4. ASSUME job'[a].passing, ~job'[a].disturbed PROVE Phase(a)'
      <4>1. ASSUME NEW p \in Bundled PROVE p \in job'[a].todo \/ Done(a, p)'
        <5>1. CASE p \in j.todo
          BY <3>1, <5>1
        <5>2. CASE p = j.item
          <6>1. Parts \X {source[p]} \subseteq dir'[p]
            BY <1>5, <1>7, <1>8, <1>12, <3>1, <3>4, <5>2
          <6>2. LoadsAs(dir'[p], source[p])
            BY <6>1 DEF LoadsAs, Parts
          <6> QED
            BY <1>4, <1>5, <3>2, <5>2, <6>2 DEF Done, InPlace
        <5>3. CASE ~(p \in j.todo \/ p = j.item)
          <6>1. Done(a, p) /\ dir'[p] = dir[p] /\ job'[a].copy[p] = j.copy[p]
            BY <1>7, <1>8, <3>1, <3>2, <3>4, <5>3, PluginsAssumption
          <6> QED
            BY <1>4, <6>1, DoneKept
        <5> QED
          BY <5>1, <5>2, <5>3
      <4> QED
        BY <3>1, <4>1 DEF Phase
    <3> QED
      BY <1>2, <1>4, <3>3, <3>4, LoudRepairs
  <2>3. CASE ~InPass(a) /\ Copied(a).at = "store"
             /\ Recorded(j, Copied(a), j.version)
    <3>1. /\ job'[a].at = "store" /\ Recorded(j, job'[a], j.version)
          /\ ~job'[a].passing
      BY <1>1, <2>1, <2>3, CopiedJobs DEF Onward, InPass
    <3>2. /\ job'[a].copy[j.item] = j.version
          /\ \A p \in Plugins \ {j.item} : job'[a].copy[p] = j.copy[p]
      BY <3>1 DEF Recorded
    <3>3. ASSUME NEW p \in Bundled PROVE Moves(a, p)
      <4>1. CASE p = j.item
        BY <1>1, <1>4, <1>5, <1>10, <3>1, <3>2, <4>1 DEF Moves, Copying
      <4>2. CASE p # j.item
        BY <1>4, <1>10, <3>1, <3>2, <4>2, PluginsAssumption DEF Moves, Copying
      <4> QED
        BY <4>1, <4>2
    <3> QED
      BY <1>2, <1>4, <3>1, <3>3, LoudRepairs
  <2>4. CASE ~InPass(a) /\ Copied(a) = [j EXCEPT !.landed = {}, !.at = "load"]
    <3>1. job'[a].at = "load" /\ job'[a].copy = j.copy /\ ~job'[a].passing
      BY <1>1, <2>1, <2>4 DEF Jobs, InPass
    <3>2. ASSUME NEW p \in Bundled PROVE Moves(a, p)
      BY <1>4, <1>10, <3>1 DEF Moves, Copying
    <3> QED
      BY <1>2, <1>4, <3>1, <3>2, LoudRepairs
  <2> QED
    BY <1>1, <2>2, <2>3, <2>4, CopiedJobs
<1> QED
  BY <1>11, <1>12

\* A file that is emptied is still awaited.
LEMMA CopyOverRepairs ==
    ASSUME TypeInv, StageInv, RepairInv, NEW a \in Programs, CopyOver(a)
    PROVE  RepairInv'
<1> DEFINE j == job[a]
<1>1. j \in Jobs /\ Stage(j, source) /\ j.at = "copy" /\ "rest" \notin j.landed
      /\ source' = source /\ registry' = registry
  BY JobFacts DEF CopyOver, files
<1>2. /\ TypeInv' /\ Loudly(a, "dir", FALSE) /\ torn' = torn /\ job'[a] = j
      /\ dir' = [dir EXCEPT ![j.item] = @ \ {<<"rest", j.version>>}]
  BY CopyOverEffect
<1>3. j.item \in Plugins
  BY <1>1, PluginsAssumption DEF Stage, PassStage, CommandStage
<1>4. /\ dir'[j.item] = dir[j.item] \ {<<"rest", j.version>>}
      /\ \A p \in Plugins \ {j.item} : dir'[p] = dir[p]
  BY <1>2, <1>3 DEF TypeInv
<1>5. \A b \in Programs \ {a} : Kept(job[b], job'[b])
  BY <1>2 DEF Loudly
<1>6. ASSUME NEW p \in Bundled PROVE Lands(a, p)
  <2>1. CASE p # j.item
    <3>1. dir'[p] = dir[p]
      BY <1>4, <2>1, PluginsAssumption
    <3> QED
      BY <1>1, <1>2, <1>5, <2>1, <3>1, LandsBeside
  <2>2. CASE p = j.item
    <3> SUFFICES ASSUME \A q \in Parts : There(p, q), NEW q \in Parts, p \notin torn
                 PROVE  There(p, q)'
      BY <1>2, Zenon DEF Lands
    <3>1. \A b \in Programs : Awaits(b, p, q) => Awaits(b, p, q)'
      BY <1>2, <1>5, AwaitsKept DEF Awaits
    <3>2. CASE \E b \in Programs : Awaits(b, p, q)
      BY <3>1, <3>2 DEF There
    <3>3. CASE q = "rest"
      BY <1>1, <1>2, <2>2, <3>3 DEF There, Awaits
    <3>4. CASE <<q, source[p]>> \in dir[p] /\ q # "rest"
      BY <1>1, <1>4, <2>2, <3>4 DEF There
    <3> QED
      BY <3>2, <3>3, <3>4 DEF There
  <2> QED
    BY <2>1, <2>2
<1>7. \A p \in Bundled : dir'[p] \subseteq dir[p]
  BY <1>4, PluginsAssumption
<1>8. ASSUME NEW p \in Bundled PROVE Moves(a, p)
  BY <1>1, <1>2, <1>6, <1>7 DEF Moves, Copying
<1>9. ASSUME job'[a].passing, ~job'[a].disturbed PROVE Phase(a)'
  <2>1. Phase(a)
    BY <1>2, <1>9 DEF RepairInv, PhaseInv, InPass
  <2>2. /\ \A p \in Bundled : p \in j.todo \/ p = j.item \/ Done(a, p)
        /\ j.landed \X {j.version} \subseteq dir[j.item]
    BY <1>1, <2>1 DEF Phase
  <2>3. ASSUME NEW p \in Bundled PROVE p \in j.todo \/ p = j.item \/ Done(a, p)'
    <3>1. CASE p \in j.todo \/ p = j.item
      BY <3>1
    <3>2. CASE ~(p \in j.todo \/ p = j.item)
      <4>1. Done(a, p) /\ dir'[p] = dir[p]
        BY <1>4, <2>2, <3>2, PluginsAssumption
      <4> QED
        BY <1>1, <1>2, <4>1, DoneKept
    <3> QED
      BY <3>1, <3>2
  <2>4. j.landed \X {j.version} \subseteq dir'[j.item]
    BY <1>1, <1>4, <2>2
  <2> QED
    BY <1>1, <1>2, <2>3, <2>4 DEF Phase
<1> QED
  BY <1>1, <1>2, <1>8, <1>9, LoudRepairs

\* A step on another file leaves the directories as they were.
LEMMA LoudLands ==
    ASSUME NEW a \in Programs, NEW file, NEW overtaken, Loudly(a, file, overtaken),
           UNCHANGED <<source, dir, torn>>, job[a].at \notin {"clear", "copy"}, NEW p
    PROVE  Lands(a, p)
BY LandsBeside DEF Loudly

LEMMA StoreRepairs ==
    ASSUME TypeInv, StageInv, RepairInv, NEW a \in Programs, Store(a)
    PROVE  RepairInv'
<1>1. PICK overtaken : overtaken = (job[a].old \/ RegistryOpen)
  OBVIOUS
<1>2. /\ TypeInv' /\ Loudly(a, "registry", overtaken)
      /\ job'[a] = [job[a] EXCEPT !.at = "fill", !.old = FALSE]
  BY <1>1, StoreEffect
<1>3. job[a] \in Jobs
  BY JobFacts
<1>4. /\ job'[a].at = "fill" /\ job'[a].copy = job[a].copy /\ job'[a].then = job[a].then
      /\ job'[a].passing = job[a].passing /\ job'[a].disturbed = job[a].disturbed
  BY <1>2, <1>3 DEF Jobs
<1>5. /\ source' = source /\ dir' = dir /\ torn' = torn /\ registry' = NoRecords
      /\ job[a].at = "store"
  BY DEF Store
<1>6. ASSUME NEW p \in Bundled PROVE Moves(a, p)
  <2>1. Lands(a, p)
    BY <1>2, <1>5, LoudLands
  <2> QED
    BY <1>4, <1>5, <2>1, BundledRecords DEF Moves, Copying
<1>7. ASSUME job'[a].passing, ~job'[a].disturbed PROVE Phase(a)'
  <2>1. Phase(a)
    BY <1>4, <1>7 DEF RepairInv, PhaseInv, InPass
  <2>2. /\ \A p \in Bundled : Done(a, p)'
        /\ job'[a].then \in {"found", "refused"} => Backed(job[a].copy)'
    BY <1>4, <1>5, <2>1 DEF Phase, Done, InPlace, Backed
  <2> QED
    BY <1>4, <2>2 DEF Phase
<1> QED
  BY <1>2, <1>5, <1>6, <1>7, LoudRepairs

LEMMA FillRepairs ==
    ASSUME TypeInv, StageInv, RepairInv, NEW a \in Programs, Fill(a)
    PROVE  RepairInv'
<1>1. TypeInv' /\ Loudly(a, "registry", job[a].old) /\ job'[a] = Filled(a)
  BY FillEffect
<1>2. job[a] \in Jobs /\ Stage(job[a], source)
  BY JobFacts
<1>3. /\ source' = source /\ dir' = dir /\ torn' = torn /\ registry' = job[a].copy
      /\ job[a].at = "fill"
  BY DEF Fill
<1>4. /\ job'[a].copy = NoRecords /\ job'[a].at \notin {"bundled", "clear", "copy", "store", "fill"}
      /\ job'[a].at = "sync" \/ (job'[a].at = job[a].then /\ job'[a].passing = job[a].passing
                                 /\ job'[a].disturbed = job[a].disturbed)
  <2>1. CASE job[a].then = "told"
    BY <1>1, <2>1, PassFields DEF Filled
  <2>2. CASE job[a].then # "told"
    BY <1>1, <1>2, <1>3, <2>2 DEF Filled, Jobs, Stage, PassStage, CommandStage
  <2> QED
    BY <2>1, <2>2
<1>5. ASSUME NEW p \in Bundled PROVE Moves(a, p)
  <2>1. Lands(a, p)
    BY <1>1, <1>3, LoudLands
  <2> QED
    BY <1>3, <1>4, <2>1, BundledRecords DEF Moves, Copying
<1>6. ASSUME job'[a].passing, ~job'[a].disturbed PROVE Phase(a)'
  <2>1. CASE job'[a].at = "sync"
    BY <2>1 DEF Phase
  <2>2. CASE job'[a].at # "sync"
    <3>1. Phase(a) /\ job'[a].at = job[a].then
      BY <1>4, <1>6, <2>2 DEF RepairInv, PhaseInv, InPass
    <3>2. \A p \in Bundled : Done(a, p)
      BY <1>3, <3>1 DEF Phase
    <3>3. \A p \in Bundled : registry'[p] = source'[p] /\ InPlace(p)'
      BY <1>3, <3>2 DEF Done, InPlace
    <3>4. job'[a].at \in {"found", "refused"} => Backed(job[a].copy)
      BY <1>3, <3>1 DEF Phase
    <3>5. job'[a].at \in {"found", "refused"} => Backed(registry)'
      BY <1>3, <3>4 DEF Backed
    <3> QED
      BY <1>4, <3>3, <3>5 DEF Phase
  <2> QED
    BY <2>1, <2>2
<1> QED
  BY <1>1, <1>3, <1>5, <1>6, LoudRepairs

LEMMA EmptyRepairs ==
    ASSUME TypeInv, StageInv, RepairInv, NEW a \in Programs, Empty(a)
    PROVE  RepairInv'
<1>1. PICK overtaken : overtaken = (job[a].old \/ SettingsOpen)
  OBVIOUS
<1>2. /\ TypeInv' /\ Loudly(a, "settings", overtaken)
      /\ job'[a] = [job[a] EXCEPT !.at = "write", !.old = FALSE]
  BY <1>1, EmptyEffect
<1>3. job[a] \in Jobs /\ Stage(job[a], source) /\ job[a].at = "empty"
  BY JobFacts DEF Empty
<1>4. job'[a].at = "write" /\ job'[a].copy = job[a].copy /\ ~job'[a].passing
  BY <1>2, <1>3 DEF Jobs, Stage, PassStage
<1>5. source' = source /\ dir' = dir /\ torn' = torn /\ registry' = registry
  BY DEF Empty
<1>6. ASSUME NEW p \in Bundled PROVE Moves(a, p)
  <2>1. Lands(a, p)
    BY <1>2, <1>3, <1>5, LoudLands
  <2> QED
    BY <1>4, <1>5, <2>1 DEF Moves, Copying
<1> QED
  BY <1>2, <1>4, <1>5, <1>6, LoudRepairs

LEMMA WriteRepairs ==
    ASSUME TypeInv, StageInv, RepairInv, NEW a \in Programs, Write(a)
    PROVE  RepairInv'
<1>1. TypeInv' /\ Loudly(a, "settings", job[a].old) /\ job'[a] = Pass("list", Nobody)
  BY WriteEffect
<1>2. job'[a].at = "sync" /\ job'[a].copy = NoRecords
  BY <1>1, PassFields
<1>3. /\ source' = source /\ dir' = dir /\ torn' = torn /\ registry' = registry
      /\ job[a].at = "write"
  BY DEF Write
<1>4. ASSUME NEW p \in Bundled PROVE Moves(a, p)
  <2>1. Lands(a, p)
    BY <1>1, <1>3, LoudLands
  <2> QED
    BY <1>2, <1>3, <2>1, BundledRecords DEF Moves, Copying
<1>5. Phase(a)'
  BY <1>2 DEF Phase
<1> QED
  BY <1>1, <1>3, <1>4, <1>5, LoudRepairs

\* What is said of the bundled plugins speaks of nothing else.
LEMMA SourcesPass ==
    ASSUME \A q \in Bundled : source'[q] = source[q], UNCHANGED <<registry, dir, job, torn>>,
           SourceInv, KeepInv, WholeInv
    PROVE  SourceInv' /\ KeepInv' /\ WholeInv'
<1>1. \A q \in Bundled : Current(q)' <=> Current(q)
  BY DEF Current
<1>2. \A b \in Programs : \A q, part : Awaits(b, q, part)' <=> Awaits(b, q, part)
  BY DEF Awaits
<1>3. \A q \in Bundled : \A part : There(q, part)' <=> There(q, part)
  BY <1>2 DEF There
<1>4. SourceInv' /\ KeepInv'
  BY <1>1 DEF SourceInv, KeepInv
<1>5. WholeInv'
  BY <1>1, <1>3 DEF WholeInv
<1> QED
  BY <1>4, <1>5

\* An external plugin's source is no bundled one's.
LEMMA PublishedRepairs ==
    ASSUME TypeInv, StageInv, RepairInv, NEW p \in Plugins, Published(p)
    PROVE  RepairInv'
<1>1. \A q \in Bundled : source'[q] = source[q]
  BY PublishedEffect
<1>2. registry' = registry /\ dir' = dir /\ job' = job /\ torn' = torn
  BY DEF Published, files, history
<1>3. SourceInv' /\ KeepInv' /\ WholeInv'
  BY <1>1, <1>2, SourcesPass DEF RepairInv
<1>4. PhaseInv'
  <2> SUFFICES ASSUME NEW b \in Programs, job'[b].passing, ~job'[b].disturbed PROVE Phase(b)'
    BY DEF PhaseInv, InPass
  <2>1. Phase(b)
    BY <1>2 DEF RepairInv, PhaseInv, InPass
  <2>2. Kept(job[b], job'[b])
    BY <1>2, KeptSame
  <2> QED
    BY <1>1, <1>2, <2>1, <2>2, PhaseKept
<1> QED
  BY <1>3, <1>4 DEF RepairInv

\* With all programs off, nothing but the registry can name a version.
LEMMA UpgradedRepairs ==
    ASSUME TypeInv, StageInv, RepairInv, NEW p \in Plugins, Upgraded(p)
    PROVE  RepairInv'
<1>1. /\ \A a \in Programs : job[a].at = "off" /\ job[a].copy = NoRecords
      /\ \A q \in Plugins \ {p} : source'[q] = source[q]
      /\ p \in Bundled /\ source[p] # 0 /\ (source'[p] = 0 \/ source'[p] > source[p])
      /\ TypeInv'
  BY UpgradedEffect
<1>2. registry' = registry /\ dir' = dir /\ job' = job /\ torn' = torn
  BY DEF Upgraded, files, history
<1>3. ASSUME NEW q \in Bundled, source'[q] # 0
      PROVE  /\ registry'[q] <= source'[q] /\ \A a \in Programs : job'[a].copy[q] <= source'[q]
             /\ Current(q)' => dir'[q] \subseteq Contents(source'[q])
             /\ Current(q)' => Current(q) /\ source'[q] = source[q] /\ source[q] # 0
  <2>1. /\ q \in Plugins /\ NoRecords[q] = 0 /\ registry[q] \in Nat
        /\ source[q] \in Nat /\ source'[q] \in Nat
    BY <1>1, BundledRecords, SizesAssumption DEF TypeInv, Records
  <2>2. \A a \in Programs : job'[a].copy[q] = 0 /\ job'[a].at # "copy"
    BY <1>1, <1>2, <2>1
  <2>3. source[q] # 0 /\ registry[q] <= source[q]
    <3>1. source[q] # 0
      BY <1>1, <1>3, <2>1
    <3> QED
      BY <3>1 DEF RepairInv, SourceInv
  <2>4. CASE q = p
    <3>1. registry'[q] < source'[q]
      BY <1>1, <1>2, <1>3, <2>1, <2>3, <2>4
    <3>2. registry'[q] <= source'[q] /\ registry'[q] # source'[q]
      BY <1>2, <2>1, <3>1
    <3>3. ~Current(q)'
      BY <1>3, <2>2, <3>2 DEF Current
    <3>4. \A a \in Programs : job'[a].copy[q] <= source'[q]
      BY <2>1, <2>2
    <3> QED
      BY <3>2, <3>3, <3>4
  <2>5. CASE q # p
    <3>1. source'[q] = source[q]
      BY <1>1, <2>1, <2>5
    <3>2. Current(q)' => Current(q)
      BY <1>2, <3>1 DEF Current
    <3>3. Current(q) => dir[q] \subseteq Contents(source[q])
      BY <2>3 DEF RepairInv, KeepInv
    <3> QED
      BY <1>2, <2>1, <2>2, <2>3, <3>1, <3>2, <3>3
  <2> QED
    BY <2>4, <2>5
<1>4. SourceInv' /\ KeepInv'
  BY <1>3 DEF SourceInv, KeepInv
<1>5. ASSUME NEW b \in Programs PROVE ~job'[b].passing
  BY <1>1, <1>2, JobFacts DEF Stage, PassStage
<1>6. ASSUME NEW q \in Bundled, source'[q] # 0, Current(q)', q \notin torn', NEW part \in Parts
      PROVE  There(q, part)'
  <2>1. Current(q) /\ source'[q] = source[q] /\ source[q] # 0
    BY <1>3, <1>6
  <2>2. There(q, part)
    BY <1>2, <1>6, <2>1 DEF RepairInv, WholeInv
  <2> QED
    BY <1>2, <2>1, <2>2 DEF There, Awaits
<1>7. WholeInv'
  BY <1>6, Zenon DEF WholeInv
<1> QED
  BY <1>4, <1>5, <1>7 DEF RepairInv, PhaseInv, InPass

-----------------------------------------------------------------------------
(* Theorems.                                                               *)

PassInv == TypeInv /\ StageInv /\ RepairInv

LEMMA InitPass == Init => PassInv
<1> SUFFICES ASSUME Init PROVE PassInv
  OBVIOUS
<1>1. NoRecords \in Records /\ NoSettings \in Enablings /\ source \in Records
  BY SizesAssumption DEF Init, NoRecords, NoSettings, Records, Enablings
<1>2. TypeInv
  BY <1>1, NoneJobs, SizesAssumption DEF Init, TypeInv
<1>3. \A a \in Programs : job[a] = Off
  BY DEF Init
<1>4. Stage(Off, source)
  BY DEF Off, Stage, PassStage, CommandStage, CopyStage
<1>5. StageInv
  BY <1>3, <1>4 DEF StageInv
<1>6. \A a \in Programs : job[a].copy = NoRecords /\ job[a].at = "off" /\ ~job[a].passing
  BY <1>3, IdleFields
<1>7. ASSUME NEW p \in Bundled PROVE registry[p] = 0 /\ source[p] = 1 /\ dir[p] = {}
                                     /\ \A a \in Programs : job[a].copy[p] = 0
  BY <1>6, BundledRecords, <1>2 DEF Init
<1>8. SourceInv /\ KeepInv /\ WholeInv
  <2>1. \A p \in Bundled : ~Current(p)
    BY <1>6, <1>7 DEF Current
  <2> QED
    BY <1>7, <2>1 DEF SourceInv, KeepInv, WholeInv
<1>9. PhaseInv
  BY <1>6 DEF PhaseInv, InPass
<1> QED
  BY <1>2, <1>5, <1>8, <1>9 DEF PassInv, RepairInv

\* A step of one program.
LEMMA StepPass ==
    ASSUME PassInv, NEW a \in Programs, Step(a)
    PROVE  PassInv'
<1> USE DEF PassInv
<1>1. CASE Start(a)
  BY <1>1, StartEffect, StartRepairs
<1>2. CASE Fetch(a) \/ Find(a) \/ Known(a) \/ Load(a) \/ Settings(a)
  <2>1. TypeInv' /\ StageInv'
    BY <1>2, FetchEffect, FindEffect, KnownEffect, LoadEffect, SettingsEffect
  <2> QED
    BY <1>2, <2>1, CommandRepairs
<1>3. CASE Clear(a)
  BY <1>3, ClearEffect, ClearRepairs
<1>4. CASE Copy(a) \/ CopyOver(a)
  BY <1>4, CopyEffect, CopyRepairs, CopyOverEffect, CopyOverRepairs
<1>5. CASE Store(a)
  BY <1>5, StoreEffect, StoreRepairs
<1>6. CASE Fill(a)
  BY <1>6, FillEffect, FillRepairs
<1>7. CASE Empty(a)
  BY <1>7, EmptyEffect, EmptyRepairs
<1>8. CASE Write(a)
  BY <1>8, WriteEffect, WriteRepairs
<1>9. CASE Sync(a)
  BY <1>9, SyncEffect, SyncRepairs
<1>10. CASE Synced(a) \/ \E p \in Plugins : SyncOne(a, p)
  BY <1>10, SyncedEffect, SyncOneEffect, SyncOneRepairs
<1>11. CASE Discover(a)
  BY <1>11, DiscoverEffect, DiscoverRepairs
<1>12. CASE Found(a)
  BY <1>12, FoundEffect, FoundRepairs
<1>13. CASE Stop(a)
  BY <1>13, StopEffect, StopRepairs
<1>14. CASE \E what \in {"install", "update", "uninstall", "enable", "disable"}, p \in Plugins :
               Command(a, what, p)
  <2>1. PICK what \in Asks, p \in Plugins : Command(a, what, p)
    BY <1>14 DEF Asks
  <2> QED
    BY <2>1, CommandEffect, AskedRepairs
<1> QED
  BY <1>1, <1>2, <1>3, <1>4, <1>5, <1>6, <1>7, <1>8, <1>9, <1>10, <1>11, <1>12, <1>13, <1>14 DEF Step

LEMMA NextPass == PassInv /\ [Next]_vars => PassInv'
<1> SUFFICES ASSUME PassInv, [Next]_vars PROVE PassInv'
  OBVIOUS
<1>1. CASE \E a \in Programs : Step(a)
  BY <1>1, StepPass
<1>2. ASSUME NEW p \in Plugins, Published(p) PROVE PassInv'
  BY <1>2, PublishedEffect, PublishedRepairs DEF PassInv
<1>3. ASSUME NEW p \in Plugins, Upgraded(p) PROVE PassInv'
  BY <1>3, UpgradedEffect, UpgradedRepairs DEF PassInv
<1>4. CASE UNCHANGED vars
  <2>1. UNCHANGED <<source, dir, registry, settings, job, commands, word, torn>>
    BY <1>4 DEF vars, files, history
  <2>2. TypeInv' /\ StageInv'
    BY <2>1 DEF PassInv, TypeInv, StageInv
  <2>3. SourceInv' /\ KeepInv' /\ WholeInv'
    BY <2>1, SourcesPass DEF PassInv, RepairInv
  <2>4. PhaseInv'
    <3> SUFFICES ASSUME NEW b \in Programs, job'[b].passing, ~job'[b].disturbed PROVE Phase(b)'
      BY DEF PhaseInv, InPass
    <3>1. Phase(b) /\ Kept(job[b], job'[b])
      BY <2>1, KeptSame DEF PassInv, RepairInv, PhaseInv, InPass
    <3> QED
      BY <2>1, <3>1, PhaseKept
  <2> QED
    BY <2>2, <2>3, <2>4 DEF PassInv, RepairInv
<1> QED
  BY <1>1, <1>2, <1>3, <1>4 DEF Next

\* The jobs and the files keep their types, whatever a program, a crash or a new version of
\* the plugins does to them.
THEOREM PluginTypeCorrect == Spec => []TypeOK
<1>1. PassInv => TypeOK
  <2> SUFFICES ASSUME PassInv PROVE TypeOK
    OBVIOUS
  <2>1. Files = UNION {Contents(v) : v \in Versions}
    <3> DEFINE all == UNION {Contents(v) : v \in Versions}
    <3>1. \A x : x \in Files => x \in all
      BY DEF Files, Contents
    <3>2. \A x : x \in all => x \in Files
      BY DEF Files, Contents
    <3> HIDE DEF all
    <3>3. Files = all
      BY <3>1, <3>2
    <3> QED
      BY <3>3 DEF all
  <2>2. ASSUME NEW a \in Programs
        PROVE  /\ job[a].copy \in [Plugins -> 0 .. MaxVersion] /\ job[a].landed \subseteq Parts
               /\ job[a].passing \in BOOLEAN /\ job[a].todo \subseteq Bundled
               /\ job[a].at \in {"clear", "copy"} => job[a].item \in Plugins
    <3>1. job[a] \in Jobs /\ Stage(job[a], source)
      BY JobFacts DEF PassInv
    <3> QED
      BY <3>1, PluginsAssumption DEF Jobs, Records, Stage, PassStage, CommandStage
  <2> QED
    BY <2>1, <2>2 DEF PassInv, TypeInv, TypeOK, Records, Enablings
<1> QED
  BY <1>1, InitPass, NextPass, PTL DEF Spec

\* A program that has looked over the plugins undisturbed leaves the bundled ones loading at
\* its own version, and no record without a plugin, whatever was left half done before it;
\* a bundled plugin that is not whole then is in the hands of some program, or its copy was
\* given up halfway (sync_bundled_plugins, discover_installed_plugins_with_failures).
THEOREM PassesRepair == Spec => []PassRepairs
<1>1. PassInv => PassRepairs
  <2> SUFFICES ASSUME PassInv, NEW a \in Programs,
                      job[a].at \in {"found", "refused"}, ~job[a].disturbed
               PROVE  /\ \A p \in Bundled :
                            /\ registry[p] = source[p]
                            /\ source[p] # 0 =>
                                  /\ LoadsAs(dir[p], source[p])
                                  /\ UnderWay(p) \/ p \in torn \/ dir[p] = Contents(source[p])
                      /\ \A p \in Plugins : registry[p] # 0 => HasManifest(dir[p])
    BY DEF PassRepairs
  <2>1. InPass(a)
    BY JobFacts DEF PassInv, Stage, CommandStage, InPass, TypeInv, Jobs
  <2>2. Phase(a)
    BY <2>1 DEF PassInv, RepairInv, PhaseInv
  <2>3. ASSUME NEW p \in Bundled, source[p] # 0, ~UnderWay(p), p \notin torn
        PROVE  dir[p] = Contents(source[p])
    <3>1. registry[p] = source[p]
      BY <2>2 DEF Phase
    <3>2. Current(p)
      BY <3>1 DEF Current
    <3>3. dir[p] \subseteq Contents(source[p])
      BY <2>3, <3>2 DEF PassInv, RepairInv, KeepInv
    <3>4. ASSUME NEW part \in Parts PROVE <<part, source[p]>> \in dir[p]
      <4>1. There(p, part)
        BY <2>3, <3>2 DEF PassInv, RepairInv, WholeInv
      <4>2. \A b \in Programs : ~Awaits(b, p, part)
        BY <2>3 DEF UnderWay, Awaits
      <4> QED
        BY <4>1, <4>2 DEF There
    <3> QED
      BY <3>3, <3>4 DEF Contents
  <2> QED
    BY <2>2, <2>3 DEF Phase, InPlace, Backed
<1> QED
  BY <1>1, InitPass, NextPass, PTL DEF Spec

-----------------------------------------------------------------------------
(* The last word holds.                                                    *)

\* Two programs that change a plugin know of each other.
RivalInv ==
    \A a, b \in Programs, p \in Plugins :
        a # b /\ Changing(a, p) /\ Changing(b, p) => job[a].contested

\* The files of the plugin are changed, its entry in the settings is to be.
Wrote(a) == job[a].at \in {"settings", "empty", "write"}

\* The record of the plugin is not to be lost.
Settled(p) ==
    \/ word[p] # "unknown" /\ \A a \in Programs : ~Changing(a, p)
    \/ \E a \in Programs :
          /\ Changing(a, p) /\ ~job[a].contested /\ Wrote(a)
          /\ job[a].what \in {"install", "uninstall"} \/ word[p] # "unknown"

\* The program has read the registry to write it.
Holder(a) ==
    LET j == job[a]
    IN  \/ j.at = "store" \/ j.at = "bundled"
        \/ j.at \in {"clear", "copy"} /\ (j.passing \/ j.what # "install")
        \/ j.at = "fetch" /\ j.what = "update"

\* Unless the file was written meanwhile, it differs in the record of the plugin that is
\* changed and of those that nobody vouches for.
Agrees(a, p) ==
    \/ Changing(a, p) \/ job[a].copy[p] = registry[p]
    \/ InPass(a) /\ job[a].at = "store" /\ ~Settled(p)
Held(a) ==
    /\ Holder(a) /\ ~job[a].old => ~RegistryOpen /\ \A p \in External : Agrees(a, p)
    /\ job[a].at = "fetch" /\ job[a].what = "update" => job[a].copy[job[a].plugin] # 0
HeldInv == \A a \in Programs : Held(a)

HeldSettings(a) ==
    /\ job[a].at \in {"empty", "write"} => job[a].set[job[a].plugin] = Wanted(job[a])
    /\ job[a].at = "empty" /\ ~job[a].old =>
          ~SettingsOpen /\ \A p \in Plugins \ {job[a].plugin} : job[a].set[p] = settings[p]
HeldSettingsInv == \A a \in Programs : HeldSettings(a)

\* What the files hold, or will when their writers are done.  An overtaken writer leaves
\* that open: its write casts doubt on every word.
WillRecord(r) ==
    IF RegistryOpen THEN \E a \in Programs : job[a].at = "fill" /\ r = job[a].copy
    ELSE r = registry
Sure == \A a \in Programs : job[a].at = "fill" => ~job[a].old
Absent(p) == dir[p] = {} /\ (Sure => \A r \in Records : WillRecord(r) => r[p] = 0)
Whole(p) == Sure => \A r \in Records : WillRecord(r) => r[p] # 0 /\ dir[p] = Contents(r[p])

WillEnable(s) ==
    IF SettingsOpen THEN \E a \in Programs : job[a].at = "write" /\ s = job[a].set
    ELSE s = settings
SettingsSure == \A a \in Programs : job[a].at = "write" => ~job[a].old
Enabled(p, state) == SettingsSure => \A s \in Enablings : WillEnable(s) => s[p] = state

\* A command that has its plugin for itself.
Change(a, p) ==
    LET j == job[a]
    IN  /\ j.at = "copy" => dir[p] = j.landed \X {j.version}
        /\ j.at = "load" => dir[p] = Contents(j.version)
        /\ j.at \in {"store", "fill"} /\ j.what = "uninstall" => j.copy[p] = 0 /\ dir[p] = {}
        /\ j.at \in {"store", "fill"} /\ j.what # "uninstall" =>
              j.copy[p] # 0 /\ dir[p] = Contents(j.copy[p])
        /\ Wrote(a) =>
              /\ j.what = "install" => Whole(p)
              /\ j.what = "uninstall" => Absent(p)
              /\ j.what \in {"enable", "disable"} =>
                    word[p] # "gone" /\ (word[p] # "unknown" => Whole(p))
        /\ j.what = "update" =>
              /\ j.at = "fill" \/ ~j.old => word[p] # "gone"
              /\ word[p] \in {"on", "off"} => Enabled(p, word[p])
ChangeInv ==
    \A a \in Programs, p \in External : Changing(a, p) /\ ~job[a].contested => Change(a, p)

\* A plugin that nobody changes.
Rest(p) ==
    /\ word[p] = "gone" => Absent(p) /\ Enabled(p, "unset")
    /\ word[p] \in {"on", "off"} => Whole(p) /\ Enabled(p, word[p])
WordInv == \A p \in External : (\A a \in Programs : ~Changing(a, p)) => Rest(p)

WordsInv == RivalInv /\ HeldInv /\ HeldSettingsInv /\ ChangeInv /\ WordInv

-----------------------------------------------------------------------------
(* What a step leaves alone.                                               *)

\* The others go on as before: their marks are only added to.
Beside(a) ==
    \A b \in Programs \ {a} :
        /\ Kept(job[b], job'[b])
        /\ job[b].old => job'[b].old
        /\ job[b].contested => job'[b].contested

LEMMA ChangingKept ==
    ASSUME NEW a \in Programs, Beside(a), NEW b \in Programs \ {a}, NEW p
    PROVE  Changing(b, p)' <=> Changing(b, p)
BY DEF Beside, Kept, Changing, InPass

LEMMA HolderKept ==
    ASSUME NEW b \in Programs, Kept(job[b], job'[b])
    PROVE  Holder(b)' <=> Holder(b)
BY DEF Kept, Holder

\* What is to be in installed.json stays so when neither it nor a writer of it changes.
LEMMA RegistryKept ==
    ASSUME registry' = registry,
           \A b \in Programs :
              /\ job'[b].at = "fill" <=> job[b].at = "fill"
              /\ job[b].at = "fill" => job'[b].copy = job[b].copy /\ (job[b].old => job'[b].old)
    PROVE  /\ RegistryOpen' <=> RegistryOpen
           /\ \A p \in External : dir'[p] = dir[p] =>
                 (Whole(p) => Whole(p)') /\ (Absent(p) => Absent(p)')
<1>1. RegistryOpen' <=> RegistryOpen
  BY DEF RegistryOpen
<1>2. Sure' => Sure
  BY DEF Sure
<1>3. \A r \in Records : WillRecord(r)' => WillRecord(r)
  BY <1>1 DEF WillRecord
<1> QED
  BY <1>1, <1>2, <1>3 DEF Whole, Absent

LEMMA SettingsKept ==
    ASSUME settings' = settings,
           \A b \in Programs :
              /\ job'[b].at = "write" <=> job[b].at = "write"
              /\ job[b].at = "write" => job'[b].set = job[b].set /\ (job[b].old => job'[b].old)
    PROVE  /\ SettingsOpen' <=> SettingsOpen
           /\ \A p \in External : \A s : Enabled(p, s) => Enabled(p, s)'
<1>1. SettingsOpen' <=> SettingsOpen
  BY DEF SettingsOpen
<1>2. SettingsSure' => SettingsSure
  BY DEF SettingsSure
<1>3. \A s \in Enablings : WillEnable(s)' => WillEnable(s)
  BY <1>1 DEF WillEnable
<1> QED
  BY <1>1, <1>2, <1>3 DEF Enabled

\* A plugin in the hands of two programs is contested by both.
LEMMA Rivals ==
    ASSUME RivalInv, TypeInv, NEW a \in Programs, NEW b \in Programs \ {a}, NEW p \in Plugins,
           Changing(a, p), Changing(b, p)
    PROVE  job[a].contested /\ job[b].contested
BY DEF RivalInv

LEMMA RivalsKept ==
    ASSUME RivalInv, NEW a \in Programs, Beside(a),
           \A p \in Plugins : Changing(a, p)' =>
              \A b \in Programs \ {a} : Changing(b, p) => job'[a].contested /\ job'[b].contested
    PROVE  RivalInv'
<1> SUFFICES ASSUME NEW b \in Programs, NEW c \in Programs, NEW p \in Plugins, b # c,
                    Changing(b, p)', Changing(c, p)'
             PROVE  job'[b].contested
  BY DEF RivalInv
<1>1. CASE b = a
  BY <1>1, ChangingKept
<1>2. CASE c = a
  BY <1>2, ChangingKept
<1>3. CASE b # a /\ c # a
  <2>1. Changing(b, p) /\ Changing(c, p)
    BY <1>3, ChangingKept
  <2> QED
    BY <1>3, <2>1 DEF RivalInv, Beside
<1> QED
  BY <1>1, <1>2, <1>3

\* A step after which the program changes no plugin that it did not change before.
LEMMA RivalsSame ==
    ASSUME RivalInv, TypeInv, NEW a \in Programs, Beside(a),
           \A p \in Plugins : Changing(a, p)' => Changing(a, p),
           job[a].contested /\ ~job'[a].passing /\ job'[a].at \notin {"off", "up"} =>
              job'[a].contested
    PROVE  RivalInv'
<1>1. ASSUME NEW p \in Plugins, Changing(a, p)', NEW b \in Programs \ {a}, Changing(b, p)
      PROVE  job'[a].contested /\ job'[b].contested
  <2>1. job[a].contested /\ job[b].contested
    BY <1>1, Rivals
  <2>2. ~job'[a].passing /\ job'[a].at \notin {"off", "up"}
    BY <1>1 DEF Changing, InPass
  <2> QED
    BY <2>1, <2>2 DEF Beside
<1> QED
  BY <1>1, RivalsKept

\* What nobody vouched for, nobody vouches for after a step that says nothing new of it.
LEMMA SettledKept ==
    ASSUME NEW a \in Programs, Beside(a), NEW p, word'[p] = word[p],
           Changing(a, p)' <=> Changing(a, p),
           Changing(a, p) => (job[a].contested => job'[a].contested)
                             /\ job'[a].what = job[a].what /\ (Wrote(a)' => Wrote(a)),
           Settled(p)'
    PROVE  Settled(p)
<1>1. CASE word'[p] # "unknown" /\ \A b \in Programs : ~Changing(b, p)'
  BY <1>1, ChangingKept DEF Settled
<1>2. CASE \E b \in Programs :
              /\ Changing(b, p)' /\ ~job'[b].contested /\ Wrote(b)'
              /\ job'[b].what \in {"install", "uninstall"} \/ word'[p] # "unknown"
  <2>1. PICK b \in Programs :
              /\ Changing(b, p)' /\ ~job'[b].contested /\ Wrote(b)'
              /\ job'[b].what \in {"install", "uninstall"} \/ word'[p] # "unknown"
    BY <1>2
  <2>2. CASE b = a
    BY <2>1, <2>2 DEF Settled
  <2>3. CASE b # a
    <3>1. Changing(b, p) /\ ~job[b].contested /\ Wrote(b) /\ job[b].what = job'[b].what
      BY <2>1, <2>3, ChangingKept DEF Beside, Kept, Wrote
    <3> QED
      BY <2>1, <3>1 DEF Settled
  <2> QED
    BY <2>2, <2>3
<1> QED
  BY <1>1, <1>2 DEF Settled

\* The others still differ from the registry in what they may differ in.
LEMMA HeldKept ==
    ASSUME NEW a \in Programs, Beside(a), registry' = registry, RegistryOpen' => RegistryOpen,
           \A p \in External : Settled(p)' => Settled(p),
           HeldInv, NEW b \in Programs \ {a}
    PROVE  Held(b)'
<1>1. Kept(job[b], job'[b]) /\ (job[b].old => job'[b].old)
  BY DEF Beside
<1>2. Held(b)
  BY DEF HeldInv
<1>3. Holder(b)' <=> Holder(b)
  BY <1>1, HolderKept
<1>4. ASSUME NEW p \in External, Agrees(b, p) PROVE Agrees(b, p)'
  BY <1>1, <1>4, ChangingKept DEF Agrees, Kept, InPass
<1> QED
  BY <1>1, <1>2, <1>3, <1>4 DEF Held, Kept

\* A step on the registry makes every other copy of it old.
LEMMA HeldOld ==
    ASSUME NEW a \in Programs, Beside(a), HeldInv, NEW b \in Programs \ {a},
           Holder(b) => job'[b].old
    PROVE  Held(b)'
<1>1. Kept(job[b], job'[b])
  BY DEF Beside
<1>2. Held(b)
  BY DEF HeldInv
<1>3. Holder(b)' <=> Holder(b)
  BY <1>1, HolderKept
<1> QED
  BY <1>1, <1>2, <1>3 DEF Held, Kept

LEMMA HeldSettingsKept ==
    ASSUME NEW a \in Programs, Beside(a), HeldSettingsInv, NEW b \in Programs \ {a},
           \/ settings' = settings /\ (SettingsOpen' => SettingsOpen)
           \/ job[b].at = "empty" => job'[b].old
    PROVE  HeldSettings(b)'
<1>1. Kept(job[b], job'[b]) /\ (job[b].old => job'[b].old)
  BY DEF Beside
<1>2. HeldSettings(b)
  BY DEF HeldSettingsInv
<1>3. Wanted(job'[b]) = Wanted(job[b])
  BY <1>1 DEF Kept, Wanted
<1> QED
  BY <1>1, <1>2, <1>3 DEF HeldSettings, Kept

\* A command on a plugin that the step leaves alone is where it was.
LEMMA ChangeKept ==
    ASSUME NEW b \in Programs, NEW p \in External,
           Changing(b, p), ~job[b].contested, Change(b, p),
           Kept(job[b], job'[b]), job[b].old => job'[b].old,
           word'[p] = word[p], dir'[p] = dir[p],
           Settled(p) => (Whole(p) => Whole(p)') /\ (Absent(p) => Absent(p)'),
           \A s : Enabled(p, s) => Enabled(p, s)'
    PROVE  Change(b, p)'
<1>1. /\ job'[b].what = job[b].what /\ job'[b].at = job[b].at /\ job'[b].copy = job[b].copy
      /\ job'[b].version = job[b].version /\ job'[b].landed = job[b].landed
  BY DEF Kept
<1>2. Wrote(b)' <=> Wrote(b)
  BY <1>1 DEF Wrote
<1>3. ASSUME Wrote(b)
      PROVE  /\ job[b].what = "install" => Whole(p)'
             /\ job[b].what = "uninstall" => Absent(p)'
             /\ job[b].what \in {"enable", "disable"} =>
                   word[p] # "gone" /\ (word[p] # "unknown" => Whole(p)')
  <2>1. job[b].what \in {"install", "uninstall"} \/ word[p] # "unknown" => Settled(p)
    BY <1>3 DEF Settled
  <2> QED
    BY <1>3, <2>1 DEF Change
<1>4. job[b].what = "update" =>
        /\ job[b].at = "fill" \/ ~job'[b].old => word[p] # "gone"
        /\ word[p] \in {"on", "off"} => Enabled(p, word[p])'
  BY DEF Change
<1> QED
  BY <1>1, <1>2, <1>3, <1>4 DEF Change

LEMMA RestKept ==
    ASSUME NEW p \in External, \A b \in Programs : ~Changing(b, p), Rest(p),
           word'[p] = word[p], dir'[p] = dir[p],
           Settled(p) => (Whole(p) => Whole(p)') /\ (Absent(p) => Absent(p)'),
           \A s : Enabled(p, s) => Enabled(p, s)'
    PROVE  Rest(p)'
<1>1. word[p] \in {"gone", "on", "off"} => Settled(p)
  BY DEF Settled
<1> QED
  BY <1>1 DEF Rest

\* A step that says nothing of the plugins that the program does not change.
LEMMA WordsKept ==
    ASSUME TypeInv, WordsInv, NEW a \in Programs, Beside(a),
           \A p \in External :
              ~Changing(a, p) /\ ~Changing(a, p)' =>
                 /\ word'[p] = word[p] /\ dir'[p] = dir[p]
                 /\ Settled(p) => (Whole(p) => Whole(p)') /\ (Absent(p) => Absent(p)')
                 /\ \A s : Enabled(p, s) => Enabled(p, s)',
           RivalInv',
           \A p \in External :
              /\ Changing(a, p)' /\ ~job'[a].contested => Change(a, p)'
              /\ /\ Changing(a, p) /\ ~Changing(a, p)'
                 /\ \A b \in Programs \ {a} : ~Changing(b, p)
                 => Rest(p)'
    PROVE  ChangeInv' /\ WordInv'
<1>1. ASSUME NEW b \in Programs, NEW p \in External, Changing(b, p)', ~job'[b].contested
      PROVE  Change(b, p)'
  <2>1. CASE b = a
    BY <1>1, <2>1
  <2>2. CASE b # a
    <3>1. Changing(b, p) /\ ~job[b].contested
      BY <1>1, <2>2, ChangingKept DEF Beside
    <3>2. p \in Plugins
      BY DEF External
    <3>3. ~Changing(a, p)
      BY <2>2, <3>1, <3>2, Rivals DEF WordsInv
    <3>4. ~Changing(a, p)'
      BY <1>1, <2>2, <3>2 DEF RivalInv
    <3>5. Change(b, p)
      BY <3>1 DEF WordsInv, ChangeInv
    <3>6. Kept(job[b], job'[b]) /\ (job[b].old => job'[b].old)
      BY <2>2 DEF Beside
    <3> QED
      BY <3>1, <3>3, <3>4, <3>5, <3>6, ChangeKept
  <2> QED
    BY <2>1, <2>2
<1>2. ASSUME NEW p \in External, \A b \in Programs : ~Changing(b, p)' PROVE Rest(p)'
  <2>1. \A b \in Programs \ {a} : ~Changing(b, p)
    BY <1>2, ChangingKept
  <2>2. CASE Changing(a, p)
    BY <1>2, <2>1, <2>2
  <2>3. CASE ~Changing(a, p)
    <3>1. \A b \in Programs : ~Changing(b, p)
      BY <2>1, <2>3
    <3>2. Rest(p)
      BY <3>1 DEF WordsInv, WordInv
    <3>3. ~Changing(a, p)'
      BY <1>2
    <3> QED
      BY <2>3, <3>1, <3>2, <3>3, RestKept
  <2> QED
    BY <2>2, <2>3
<1> QED
  BY <1>1, <1>2 DEF ChangeInv, WordInv

\* A step that casts doubt on every word leaves nothing to be shown of the others.
LEMMA WordsDoubted ==
    ASSUME TypeInv, NEW a \in Programs, Beside(a),
           word' = [p \in Plugins |-> "unknown"],
           \A b \in Programs \ {a} : job'[b].contested \/ job[b].at \in {"off", "up"} \/ InPass(b),
           \A p \in External : Changing(a, p)' /\ ~job'[a].contested => Change(a, p)'
    PROVE  ChangeInv' /\ WordInv'
<1>1. ASSUME NEW b \in Programs, NEW p \in External, Changing(b, p)', ~job'[b].contested
      PROVE  Change(b, p)'
  <2>1. CASE b = a
    BY <1>1, <2>1
  <2>2. CASE b # a
    <3>1. Changing(b, p)
      BY <1>1, <2>2, ChangingKept
    <3> QED
      BY <1>1, <2>2, <3>1 DEF Changing
  <2> QED
    BY <2>1, <2>2
<1>2. ASSUME NEW p \in External PROVE Rest(p)'
  <2>1. word'[p] = "unknown"
    BY DEF External
  <2> QED
    BY <2>1 DEF Rest
<1> QED
  BY <1>1, <1>2 DEF ChangeInv, WordInv

\* With every word in doubt, nobody but the program itself can vouch for a plugin.
LEMMA DoubtedSettled ==
    ASSUME TypeInv, NEW a \in Programs, Beside(a),
           word' = [q \in Plugins |-> "unknown"],
           \A b \in Programs \ {a} : job'[b].contested \/ job[b].at \in {"off", "up"} \/ InPass(b),
           NEW p \in External, Settled(p)'
    PROVE  /\ Changing(a, p)' /\ ~job'[a].contested /\ Wrote(a)'
           /\ job'[a].what \in {"install", "uninstall"}
<1>1. word'[p] = "unknown"
  BY DEF External
<1>2. PICK b \in Programs : /\ Changing(b, p)' /\ ~job'[b].contested /\ Wrote(b)'
                            /\ job'[b].what \in {"install", "uninstall"}
  BY <1>1 DEF Settled
<1>3. CASE b # a
  <2>1. Changing(b, p)
    BY <1>2, <1>3, ChangingKept
  <2> QED
    BY <1>2, <1>3, <2>1 DEF Changing
<1> QED
  BY <1>2, <1>3

LEMMA FilesKept ==
    ASSUME NEW a \in Programs, Beside(a), registry' = registry, settings' = settings,
           job[a].at \notin {"fill", "write"}, job'[a].at \notin {"fill", "write"}
    PROVE  /\ RegistryOpen' <=> RegistryOpen
           /\ SettingsOpen' <=> SettingsOpen
           /\ \A p \in External : dir'[p] = dir[p] =>
                 (Whole(p) => Whole(p)') /\ (Absent(p) => Absent(p)')
           /\ \A p \in External : \A s : Enabled(p, s) => Enabled(p, s)'
<1>1. ASSUME NEW b \in Programs
      PROVE  /\ job'[b].at = "fill" <=> job[b].at = "fill"
             /\ job[b].at = "fill" => job'[b].copy = job[b].copy /\ (job[b].old => job'[b].old)
             /\ job'[b].at = "write" <=> job[b].at = "write"
             /\ job[b].at = "write" => job'[b].set = job[b].set /\ (job[b].old => job'[b].old)
  BY DEF Beside, Kept
<1>2. /\ RegistryOpen' <=> RegistryOpen
      /\ \A p \in External : dir'[p] = dir[p] =>
            (Whole(p) => Whole(p)') /\ (Absent(p) => Absent(p)')
  BY <1>1, RegistryKept
<1>3. /\ SettingsOpen' <=> SettingsOpen
      /\ \A p \in External : \A s : Enabled(p, s) => Enabled(p, s)'
  BY <1>1, SettingsKept
<1> QED
  BY <1>2, <1>3

LEMMA QuietBeside == ASSUME NEW a \in Programs, Quietly(a) PROVE Beside(a)
BY KeptSame DEF Quietly, Beside

LEMMA BeginningBeside == ASSUME NEW a \in Programs, Beginning(a) PROVE Beside(a)
BY DEF Beginning, Beside

LEMMA LoudBeside ==
    ASSUME NEW a \in Programs, NEW file, NEW overtaken, Loudly(a, file, overtaken)
    PROVE  Beside(a)
BY DEF Loudly, Beside

\* A step that writes no file but those of the plugin that the program changes.
LEMMA PlainWords ==
    ASSUME TypeInv, WordsInv, NEW a \in Programs, Beside(a),
           UNCHANGED <<registry, settings, word>>,
           \A p \in External : ~Changing(a, p) => dir'[p] = dir[p],
           job[a].at \notin {"fill", "write"}, job'[a].at \notin {"fill", "write"},
           \A p \in Plugins : Changing(a, p)' <=> Changing(a, p),
           \A p \in Plugins : Changing(a, p) =>
              /\ job'[a].contested = job[a].contested
              /\ job'[a].what = job[a].what /\ (Wrote(a)' => Wrote(a)),
           Held(a)', HeldSettings(a)',
           \A p \in External : Changing(a, p)' /\ ~job'[a].contested => Change(a, p)'
    PROVE  WordsInv'
<1>1. Beside(a)
  OBVIOUS
<1>2. /\ RegistryOpen' <=> RegistryOpen
      /\ SettingsOpen' <=> SettingsOpen
      /\ \A p \in External : dir'[p] = dir[p] =>
            (Whole(p) => Whole(p)') /\ (Absent(p) => Absent(p)')
      /\ \A p \in External : \A s : Enabled(p, s) => Enabled(p, s)'
  BY <1>1, FilesKept
<1>3. RivalInv'
  <2>1. ASSUME NEW p \in Plugins, Changing(a, p)', NEW b \in Programs \ {a}, Changing(b, p)
        PROVE  job'[a].contested /\ job'[b].contested
    BY <1>1, <2>1, Rivals DEF WordsInv, Beside
  <2> QED
    BY <1>1, <2>1, RivalsKept DEF WordsInv
<1>4. ASSUME NEW p \in External, Settled(p)' PROVE Settled(p)
  <2>1. p \in Plugins
    BY DEF External
  <2> QED
    BY <1>1, <1>4, <2>1, SettledKept
<1>5. HeldInv'
  BY <1>1, <1>2, <1>4, HeldKept DEF HeldInv, WordsInv
<1>6. HeldSettingsInv'
  BY <1>1, <1>2, HeldSettingsKept DEF HeldSettingsInv, WordsInv
<1>7. \A p \in External : Changing(a, p)' <=> Changing(a, p)
  BY DEF External
<1>8. ChangeInv' /\ WordInv'
  BY <1>1, <1>2, <1>3, <1>7, WordsKept
<1> QED
  BY <1>3, <1>5, <1>6, <1>8 DEF WordsInv

\* A step of a program that changes no plugin.
LEMMA IdleWords ==
    ASSUME TypeInv, WordsInv, NEW a \in Programs, Quietly(a),
           UNCHANGED <<dir, registry, settings, word>>,
           \A p \in Plugins : ~Changing(a, p) /\ ~Changing(a, p)',
           job[a].at \notin {"fill", "write"}, job'[a].at \notin {"fill", "empty", "write"},
           Held(a)'
    PROVE  WordsInv'
<1>1. HeldSettings(a)'
  BY DEF HeldSettings
<1>2. \A p \in External : ~Changing(a, p)'
  BY DEF External
<1> QED
  BY <1>1, <1>2, QuietBeside, PlainWords

\* A copy of the registry as it stands.
LEMMA HeldCopy ==
    ASSUME NEW a \in Programs, registry' = registry, RegistryOpen' => RegistryOpen,
           ~job'[a].old /\ Holder(a)' =>
              ~RegistryOpen /\ \A p \in External : Changing(a, p)' \/ job'[a].copy[p] = registry[p],
           job'[a].at = "fetch" /\ job'[a].what = "update" => job'[a].copy[job'[a].plugin] # 0
    PROVE  Held(a)'
BY DEF Held, Agrees

\* Where a program is when it is in a pass, and when it is in none and changes nothing.
LEMMA NotChanging ==
    ASSUME NEW a \in Programs,
           job[a].passing \/ job[a].at \in {"off", "up", "fetch", "find", "known"}
    PROVE  \A p : ~Changing(a, p)
BY DEF Changing, InPass

LEMMA StartWords ==
    ASSUME TypeInv, StageInv, WordsInv, NEW a \in Programs,
           Start(a) \/ Found(a) \/ \E p \in Plugins, what \in Asks : Command(a, what, p)
    PROVE  WordsInv'
<1>1. /\ Quietly(a) /\ UNCHANGED <<dir, registry, settings, word>>
      /\ job[a].at \in {"off", "up", "found"}
      /\ \/ job'[a].at = "sync" /\ job'[a].passing
         \/ job'[a].at \in {"fetch", "find", "known", "up"} /\ ~job'[a].passing
      /\ ~(job'[a].at = "fetch" /\ job'[a].what = "update")
  <2>1. CASE Start(a)
    BY <2>1, StartEffect, PassFields DEF Start, files, history
  <2>2. CASE Found(a)
    <3>1. UNCHANGED <<dir, registry, settings, word>> /\ job[a].at = "found" /\ Quietly(a)
      BY <2>2, FoundEffect DEF Found, files, history
    <3>2. job'[a] = Ready \/ job'[a] = Asked(job[a].what, job[a].plugin, "known")
      BY <2>2, FoundEffect
    <3>3. job'[a].at \in {"known", "up"} /\ ~job'[a].passing
      BY <3>2, IdleFields, AskedFields
    <3> QED
      BY <3>1, <3>3
  <2>3. CASE \E p \in Plugins, what \in Asks : Command(a, what, p)
    <3>1. PICK p \in Plugins, what \in Asks : Command(a, what, p)
      BY <2>3
    <3>2. UNCHANGED <<dir, registry, settings, word>> /\ job[a].at = "up"
      BY <3>1 DEF Command, files, history
    <3> QED
      BY <3>1, <3>2, CommandEffect, PassFields, AskedFields
  <2> QED
    BY <2>1, <2>2, <2>3
<1>2. job[a].passing \/ job[a].at \in {"off", "up", "fetch", "find", "known"}
  BY <1>1, JobFacts DEF Stage, CommandStage
<1>3. ASSUME NEW p \in Plugins PROVE ~Changing(a, p) /\ ~Changing(a, p)'
  BY <1>1, <1>2 DEF Changing, InPass
<1>4. Held(a)'
  BY <1>1 DEF Held, Holder
<1> QED
  BY <1>1, <1>3, <1>4, IdleWords

\* The steps of a pass that read.
LEMMA PassWords ==
    ASSUME TypeInv, StageInv, WordsInv, NEW a \in Programs,
           Sync(a) \/ Synced(a) \/ \E p \in Plugins : SyncOne(a, p)
    PROVE  WordsInv'
<1>0. job[a] \in Jobs /\ Stage(job[a], source) /\ Held(a)
  BY JobFacts DEF WordsInv, HeldInv
<1>1. /\ Quietly(a) /\ UNCHANGED <<dir, registry, settings, word>>
      /\ job[a].at \in {"sync", "bundled"}
  BY SyncEffect, SyncedEffect, SyncOneEffect DEF Sync, Synced, SyncOne, files, history
<1>2. job[a].passing
  BY <1>0, <1>1 DEF Stage, CommandStage
<1>3. /\ job'[a].passing /\ job'[a].at \in {"discover", "bundled", "clear", "store"}
      /\ \/ job'[a].at = "discover"
         \/ job'[a].copy = registry /\ job'[a].old = RegistryOpen
         \/ job[a].at = "bundled" /\ job'[a].copy = job[a].copy /\ job'[a].old = job[a].old
  <2>1. CASE Sync(a)
    <3>1. CASE Due = {}
      <4>1. job'[a] = [job[a] EXCEPT !.at = "discover", !.disturbed = RegistryOpen]
        BY <2>1, <3>1, SyncEffect
      <4> QED
        BY <1>0, <1>2, <4>1 DEF Jobs
    <3>2. CASE Due # {}
      <4>1. job'[a] = [job[a] EXCEPT !.at = "bundled", !.todo = Due, !.copy = registry,
                                     !.old = RegistryOpen, !.disturbed = RegistryOpen]
        BY <2>1, <3>2, SyncEffect
      <4> QED
        BY <1>0, <1>2, <4>1 DEF Jobs
    <3> QED
      BY <3>1, <3>2
  <2>2. CASE Synced(a)
    <3>1. job'[a] = [job[a] EXCEPT !.at = "store", !.then = "discover"] /\ job[a].at = "bundled"
      BY <2>2, SyncedEffect DEF Synced
    <3> QED
      BY <1>0, <1>2, <3>1 DEF Jobs
  <2>3. CASE \E p \in Plugins : SyncOne(a, p)
    <3>1. PICK p \in Plugins : SyncOne(a, p)
      BY <2>3
    <3>2. /\ job'[a] = [job[a] EXCEPT !.at = "clear", !.todo = @ \ {p}, !.item = p,
                                      !.version = source[p]]
          /\ job[a].at = "bundled"
      BY <3>1, SyncOneEffect DEF SyncOne
    <3> QED
      BY <1>0, <1>2, <3>2 DEF Jobs
  <2> QED
    BY <2>1, <2>2, <2>3
<1>4. \A p : ~Changing(a, p) /\ ~Changing(a, p)'
  BY <1>2, <1>3 DEF Changing, InPass
<1>5. RegistryOpen' <=> RegistryOpen
  BY <1>1, <1>3, QuietBeside, FilesKept
<1>6. job[a].at = "bundled" /\ ~job[a].old =>
         ~RegistryOpen /\ \A p \in External : job[a].copy[p] = registry[p]
  BY <1>0, <1>4 DEF Held, Holder, Agrees
<1>7. Held(a)'
  <2>1. CASE job'[a].at = "discover"
    BY <2>1 DEF Held, Holder
  <2>2. CASE job'[a].copy = registry /\ job'[a].old = RegistryOpen
    BY <1>1, <1>3, <1>5, <2>2, HeldCopy
  <2>3. CASE job[a].at = "bundled" /\ job'[a].copy = job[a].copy /\ job'[a].old = job[a].old
    BY <1>1, <1>3, <1>5, <1>6, <2>3, HeldCopy
  <2> QED
    BY <1>3, <2>1, <2>2, <2>3
<1> QED
  BY <1>1, <1>3, <1>4, <1>7, IdleWords

\* A record without a plugin behind it is of a plugin that nobody vouches for.
LEMMA BackedSettled ==
    ASSUME TypeInv, StageInv, WordsInv, ~RegistryOpen,
           NEW p \in External, Settled(p), registry[p] # 0
    PROVE  HasManifest(dir[p])
<1>1. registry \in Records /\ p \in Plugins
  BY DEF TypeInv, External
<1>2. Sure /\ WillRecord(registry)
  BY DEF RegistryOpen, Sure, WillRecord
<1>3. ~Absent(p)
  BY <1>1, <1>2 DEF Absent
<1>4. Whole(p) => dir[p] = Contents(registry[p]) /\ registry[p] \in Versions
  BY <1>1, <1>2 DEF Whole, Records, Versions
<1>5. Whole(p) => HasManifest(dir[p])
  BY <1>4 DEF HasManifest, Contents, Parts
<1>6. CASE word[p] # "unknown" /\ \A a \in Programs : ~Changing(a, p)
  <2>1. Rest(p) /\ word[p] \in {"gone", "on", "off"}
    BY <1>1, <1>6 DEF WordsInv, WordInv, TypeInv
  <2> QED
    BY <1>3, <1>5, <2>1 DEF Rest
<1>7. CASE \E a \in Programs :
              /\ Changing(a, p) /\ ~job[a].contested /\ Wrote(a)
              /\ job[a].what \in {"install", "uninstall"} \/ word[p] # "unknown"
  <2>1. PICK a \in Programs :
              /\ Changing(a, p) /\ ~job[a].contested /\ Wrote(a)
              /\ job[a].what \in {"install", "uninstall"} \/ word[p] # "unknown"
    BY <1>7
  <2>2. Change(a, p)
    BY <2>1 DEF WordsInv, ChangeInv
  <2>3. job[a].what \in {"install", "uninstall", "enable", "disable"}
    BY <2>1, JobFacts DEF Wrote, Changing, InPass, Stage, CommandStage
  <2> QED
    BY <1>3, <1>5, <2>1, <2>2, <2>3 DEF Change
<1> QED
  BY <1>6, <1>7 DEF Settled

LEMMA DiscoverWords ==
    ASSUME TypeInv, StageInv, WordsInv, NEW a \in Programs, Discover(a)
    PROVE  WordsInv'
<1>0. job[a] \in Jobs /\ Stage(job[a], source)
  BY JobFacts
<1>1. Quietly(a) /\ BackedRecords \in Records
  BY DiscoverEffect
<1>2. PICK outcome \in {"refused", "found"} :
         job'[a] = IF BackedRecords = registry THEN [job[a] EXCEPT !.at = outcome]
                   ELSE [job[a] EXCEPT !.at = "store", !.then = outcome,
                                       !.copy = BackedRecords, !.old = RegistryOpen]
  BY DiscoverEffect
<1>3. UNCHANGED <<dir, registry, settings, word>> /\ job[a].at = "discover"
  BY DEF Discover, files, history
<1>4. job[a].passing
  BY <1>0, <1>3 DEF Stage, CommandStage
<1>5. /\ job'[a].passing /\ job'[a].at \in {"refused", "found", "store"}
      /\ job'[a].at = "store" => job'[a].copy = BackedRecords /\ job'[a].old = RegistryOpen
  <2>1. CASE BackedRecords = registry
    <3>1. job'[a] = [job[a] EXCEPT !.at = outcome]
      BY <1>2, <2>1
    <3> QED
      BY <1>0, <1>4, <3>1 DEF Jobs
  <2>2. CASE BackedRecords # registry
    <3>1. job'[a] = [job[a] EXCEPT !.at = "store", !.then = outcome,
                                   !.copy = BackedRecords, !.old = RegistryOpen]
      BY <1>2, <2>2
    <3> QED
      BY <1>0, <1>4, <3>1 DEF Jobs
  <2> QED
    BY <2>1, <2>2
<1>6. \A p : ~Changing(a, p) /\ ~Changing(a, p)'
  BY <1>3, <1>4, <1>5 DEF Changing, InPass
<1>7. RegistryOpen' <=> RegistryOpen
  BY <1>1, <1>3, <1>5, QuietBeside, FilesKept
<1>8. ASSUME ~RegistryOpen, job'[a].at = "store", NEW p \in External PROVE Agrees(a, p)'
  <2>1. p \in Plugins /\ BackedRecords[p] = IF HasManifest(dir[p]) THEN registry[p] ELSE 0
    BY DEF BackedRecords, External
  <2>2. CASE BackedRecords[p] = registry[p]
    BY <1>3, <1>5, <1>8, <2>2 DEF Agrees
  <2>3. CASE BackedRecords[p] # registry[p]
    <3>1. ~Settled(p)
      BY <1>8, <2>1, <2>3, BackedSettled
    <3>2. Settled(p)' => Settled(p)
      <4>1. Beside(a) /\ word'[p] = word[p]
        BY <1>1, <1>3, QuietBeside
      <4> QED
        BY <1>6, <4>1, SettledKept
    <3> QED
      BY <1>5, <1>8, <3>1, <3>2 DEF Agrees, InPass
  <2> QED
    BY <2>2, <2>3
<1>9. Held(a)'
  BY <1>5, <1>7, <1>8 DEF Held, Holder
<1> QED
  BY <1>1, <1>3, <1>5, <1>6, <1>9, IdleWords

\* An update takes the registry before it fetches.
LEMMA FoundUpdateWords ==
    ASSUME TypeInv, StageInv, WordsInv, NEW a \in Programs, Find(a), Quietly(a),
           job'[a] = [[job[a] EXCEPT !.copy = registry, !.old = RegistryOpen] EXCEPT !.at = "fetch"]
    PROVE  WordsInv'
<1>0. job[a] \in Jobs /\ Stage(job[a], source)
  BY JobFacts
<1>1. /\ UNCHANGED <<dir, registry, settings, word>>
      /\ job[a].at = "find" /\ registry[job[a].plugin] # 0
  BY DEF Find, files, history
<1>2. /\ ~job[a].passing /\ job'[a].passing = job[a].passing /\ job'[a].at = "fetch"
      /\ job'[a].copy = registry /\ job'[a].old = RegistryOpen /\ job'[a].plugin = job[a].plugin
  BY <1>0, <1>1 DEF Jobs, Stage, PassStage
<1>3. \A p : ~Changing(a, p) /\ ~Changing(a, p)'
  BY <1>1, <1>2 DEF Changing
<1>4. RegistryOpen' <=> RegistryOpen
  BY <1>1, <1>2, QuietBeside, FilesKept
<1>5. Held(a)'
  BY <1>1, <1>2, <1>4, HeldCopy
<1> QED
  BY <1>1, <1>2, <1>3, <1>5, IdleWords

LEMMA LoadWords ==
    ASSUME TypeInv, StageInv, WordsInv, NEW a \in Programs, Load(a)
    PROVE  WordsInv'
<1> DEFINE j == job[a]
           recorded == [registry EXCEPT ![j.plugin] = j.version]
<1>0. j \in Jobs /\ Stage(j, source) /\ j.at = "load"
  BY JobFacts DEF Load
<1>1. Quietly(a) /\ UNCHANGED <<dir, registry, settings, word>>
  BY LoadEffect DEF Load, files, history
<1>2. /\ ~j.passing /\ j.plugin \in Plugins /\ j.what = "install" /\ j.version # 0
  BY <1>0 DEF Stage, PassStage, CommandStage
<1>3. /\ recorded[j.plugin] = j.version
      /\ \A p \in Plugins \ {j.plugin} : recorded[p] = registry[p]
  BY <1>2 DEF TypeInv, Records
<1>4. job'[a] = [j EXCEPT !.at = "store", !.then = "settings", !.item = Nobody,
                          !.version = 0, !.old = RegistryOpen, !.copy = recorded]
  BY LoadEffect
<1> HIDE DEF recorded
<1>5. /\ job'[a].at = "store" /\ job'[a].copy = recorded /\ job'[a].old = RegistryOpen
      /\ job'[a].what = j.what /\ job'[a].plugin = j.plugin /\ job'[a].passing = j.passing
      /\ job'[a].contested = j.contested
  BY <1>0, <1>4 DEF Jobs
<1>6. \A p : Changing(a, p)' <=> Changing(a, p)
  BY <1>0, <1>2, <1>5 DEF Changing, InPass
<1>7. \A p : Changing(a, p) <=> p = j.plugin
  BY <1>0, <1>2 DEF Changing, InPass
<1>8. RegistryOpen' <=> RegistryOpen
  BY <1>0, <1>1, <1>5, QuietBeside, FilesKept
<1>9. \A p \in External : Changing(a, p)' \/ job'[a].copy[p] = registry[p]
  BY <1>3, <1>5, <1>6, <1>7 DEF External
<1>10. Held(a)'
  BY <1>1, <1>5, <1>8, <1>9, HeldCopy
<1>11. HeldSettings(a)' /\ ~Wrote(a)'
  BY <1>5 DEF HeldSettings, Wrote
<1>12. ASSUME NEW p \in External, Changing(a, p)', ~job'[a].contested PROVE Change(a, p)'
  <2>1. p = j.plugin /\ Change(a, p)
    BY <1>5, <1>6, <1>7, <1>12 DEF WordsInv, ChangeInv
  <2>2. dir[p] = Contents(j.version)
    BY <1>0, <2>1 DEF Change
  <2> QED
    BY <1>1, <1>2, <1>3, <1>5, <1>11, <2>1, <2>2 DEF Change
<1> QED
  BY <1>0, <1>1, <1>5, <1>6, <1>10, <1>11, <1>12, QuietBeside, PlainWords

LEMMA SettingsWords ==
    ASSUME TypeInv, StageInv, WordsInv, NEW a \in Programs, Settings(a)
    PROVE  WordsInv'
<1> DEFINE j == job[a]
           wanted == [settings EXCEPT ![j.plugin] = Wanted(j)]
<1>0. j \in Jobs /\ Stage(j, source) /\ j.at = "settings"
  BY JobFacts DEF Settings
<1>1. Quietly(a) /\ UNCHANGED <<dir, registry, settings, word>>
  BY SettingsEffect DEF Settings, files, history
<1>2. ~j.passing /\ j.plugin \in Plugins /\ j.what # "update"
  BY <1>0 DEF Stage, PassStage, CommandStage
<1>3. /\ wanted[j.plugin] = Wanted(j)
      /\ \A p \in Plugins \ {j.plugin} : wanted[p] = settings[p]
  BY <1>2 DEF TypeInv, Enablings
<1>4. job'[a] = [j EXCEPT !.at = "empty", !.old = SettingsOpen, !.set = wanted]
  BY SettingsEffect
<1> HIDE DEF wanted
<1>5. /\ job'[a].at = "empty" /\ job'[a].set = wanted /\ job'[a].old = SettingsOpen
      /\ job'[a].what = j.what /\ job'[a].plugin = j.plugin /\ job'[a].passing = j.passing
      /\ job'[a].contested = j.contested
  BY <1>0, <1>4 DEF Jobs
<1>6. \A p : Changing(a, p)' <=> Changing(a, p)
  BY <1>0, <1>2, <1>5 DEF Changing, InPass
<1>7. /\ SettingsOpen' <=> SettingsOpen
      /\ \A p \in External : (Whole(p) => Whole(p)') /\ (Absent(p) => Absent(p)')
  BY <1>0, <1>1, <1>5, QuietBeside, FilesKept
<1>8. Held(a)' /\ Wrote(a) /\ Wrote(a)'
  BY <1>0, <1>5 DEF Held, Holder, Wrote
<1>9. HeldSettings(a)'
  <2>1. Wanted(job'[a]) = Wanted(j)
    BY <1>5 DEF Wanted
  <2> QED
    BY <1>1, <1>3, <1>5, <1>7, <2>1 DEF HeldSettings
<1>10. ASSUME NEW p \in External, Changing(a, p)', ~job'[a].contested PROVE Change(a, p)'
  <2>1. Change(a, p)
    BY <1>5, <1>6, <1>10 DEF WordsInv, ChangeInv
  <2> QED
    BY <1>1, <1>2, <1>5, <1>7, <1>8, <2>1 DEF Change
<1> QED
  BY <1>0, <1>1, <1>5, <1>6, <1>8, <1>9, <1>10, QuietBeside, PlainWords

\* A program begins to change its plugin.
LEMMA BeganWords ==
    ASSUME TypeInv, WordsInv, NEW a \in Programs, Beginning(a),
           UNCHANGED <<dir, registry, settings, word>>,
           NEW q \in Plugins, q = job'[a].plugin,
           \A p : ~Changing(a, p), \A p : Changing(a, p)' <=> p = q,
           job'[a].contested <=> \E b \in Programs \ {a} : Changing(b, q),
           job[a].at \notin {"fill", "write"}, job'[a].at \notin {"fill", "empty", "write"},
           Wrote(a)' => job'[a].what \notin {"install", "uninstall"},
           Held(a)',
           q \in External /\ Rest(q) /\ ~job'[a].contested => Change(a, q)'
    PROVE  WordsInv'
<1>1. Beside(a)
  BY BeginningBeside
<1>2. /\ RegistryOpen' <=> RegistryOpen
      /\ SettingsOpen' <=> SettingsOpen
      /\ \A p \in External : (Whole(p) => Whole(p)') /\ (Absent(p) => Absent(p)')
      /\ \A p \in External : \A s : Enabled(p, s) => Enabled(p, s)'
  BY <1>1, FilesKept
<1>3. \A b \in Programs \ {a} : Changing(b, q) => job'[a].contested /\ job'[b].contested
  BY DEF Beginning
<1>4. RivalInv'
  BY <1>1, <1>3, RivalsKept DEF WordsInv
<1>5. ASSUME NEW p \in External, Settled(p)' PROVE Settled(p)
  <2>1. p \in Plugins
    BY DEF External
  <2>2. CASE p # q
    BY <1>1, <1>5, <2>1, <2>2, SettledKept
  <2>3. CASE p = q
    <3>1. Changing(a, q)'
      OBVIOUS
    <3>2. PICK b \in Programs :
             /\ Changing(b, q)' /\ ~job'[b].contested /\ Wrote(b)'
             /\ job'[b].what \in {"install", "uninstall"} \/ word[q] # "unknown"
      BY <1>5, <2>3, <3>1 DEF Settled
    <3>3. b = a
      BY <1>1, <1>3, <3>2, ChangingKept
    <3>4. word[q] # "unknown" /\ \A c \in Programs : ~Changing(c, q)
      BY <3>2, <3>3
    <3> QED
      BY <2>3, <3>4 DEF Settled
  <2> QED
    BY <2>2, <2>3
<1>6. HeldInv'
  BY <1>1, <1>2, <1>5, HeldKept DEF HeldInv, WordsInv
<1>7. HeldSettingsInv'
  <2>1. HeldSettings(a)'
    BY DEF HeldSettings
  <2> QED
    BY <1>1, <1>2, <2>1, HeldSettingsKept DEF HeldSettingsInv, WordsInv
<1>8. ASSUME NEW p \in External, Changing(a, p)', ~job'[a].contested PROVE Change(a, p)'
  <2>1. p = q /\ \A b \in Programs : ~Changing(b, q)
    BY <1>8
  <2>2. Rest(q)
    BY <2>1 DEF WordsInv, WordInv
  <2> QED
    BY <1>8, <2>1, <2>2
<1>9. ChangeInv' /\ WordInv'
  BY <1>1, <1>2, <1>4, <1>8, WordsKept
<1> QED
  BY <1>4, <1>6, <1>7, <1>9 DEF WordsInv

LEMMA FetchWords ==
    ASSUME TypeInv, StageInv, WordsInv, NEW a \in Programs, Fetch(a)
    PROVE  WordsInv'
<1> DEFINE j == job[a]
<1>0. j \in Jobs /\ Stage(j, source) /\ j.at = "fetch"
  BY JobFacts DEF Fetch
<1>1. PICK mine : mine = [j EXCEPT !.at = "clear", !.item = j.plugin, !.version = source[j.plugin]]
  OBVIOUS
<1>2. /\ Beginning(a) /\ Kept(mine, job'[a]) /\ job'[a].old = mine.old
      /\ job'[a].contested <=> \E b \in Programs \ {a} : Changing(b, mine.plugin)
      /\ UNCHANGED <<dir, registry, settings, word>>
  BY <1>1, FetchEffect DEF Fetch, files, history
<1>3. ~j.passing /\ j.plugin \in Plugins /\ j.what \in {"install", "update"}
  BY <1>0 DEF Stage, PassStage, CommandStage
<1>4. /\ mine.at = "clear" /\ mine.plugin = j.plugin /\ mine.what = j.what /\ mine.copy = j.copy
      /\ mine.passing = j.passing /\ mine.old = j.old
  BY <1>0, <1>1 DEF Jobs
<1>5. /\ job'[a].at = "clear" /\ job'[a].plugin = j.plugin /\ job'[a].what = j.what
      /\ job'[a].copy = j.copy /\ job'[a].passing = j.passing /\ job'[a].old = j.old
  BY <1>2, <1>4 DEF Kept
<1>6. \A p : ~Changing(a, p) /\ (Changing(a, p)' <=> p = j.plugin)
  BY <1>0, <1>3, <1>5 DEF Changing, InPass
<1>7. RegistryOpen' <=> RegistryOpen
  BY <1>0, <1>2, <1>5, BeginningBeside, FilesKept
<1>8. Held(a)
  BY DEF WordsInv, HeldInv
<1>9. j.what = "update" /\ ~j.old => ~RegistryOpen /\ \A p \in External : j.copy[p] = registry[p]
  BY <1>0, <1>3, <1>6, <1>8 DEF Held, Holder, Agrees, InPass
<1>10. Held(a)'
  BY <1>2, <1>3, <1>5, <1>7, <1>9, HeldCopy DEF Holder
<1>11. ~Wrote(a)'
  BY <1>5 DEF Wrote
<1> PICK q \in Plugins : q = j.plugin
  BY <1>3
<1>12. ASSUME q \in External, Rest(q), j.what = "update"
       PROVE  /\ ~j.old => word[q] # "gone"
              /\ word[q] \in {"on", "off"} => Enabled(q, word[q])'
  <2>1. ASSUME ~j.old PROVE word[q] # "gone"
    <3>1. ~RegistryOpen /\ registry[q] # 0 /\ registry \in Records
      BY <1>0, <1>8, <1>9, <1>12, <2>1 DEF Held, TypeInv
    <3>2. Sure /\ WillRecord(registry)
      BY <3>1 DEF RegistryOpen, Sure, WillRecord
    <3>3. ~Absent(q)
      BY <3>1, <3>2 DEF Absent
    <3> QED
      BY <1>12, <3>3 DEF Rest
  <2>2. \A s : Enabled(q, s) => Enabled(q, s)'
    BY <1>0, <1>2, <1>5, <1>12, BeginningBeside, FilesKept
  <2> QED
    BY <1>2, <1>12, <2>1, <2>2 DEF Rest
<1>13. q \in External /\ Rest(q) => Change(a, q)'
  BY <1>2, <1>5, <1>11, <1>12 DEF Change
<1> QED
  BY <1>0, <1>2, <1>4, <1>5, <1>6, <1>10, <1>11, <1>13, BeganWords

LEMMA FindWords ==
    ASSUME TypeInv, StageInv, WordsInv, NEW a \in Programs, Find(a)
    PROVE  WordsInv'
<1> DEFINE j == job[a]
<1>0. j \in Jobs /\ Stage(j, source) /\ j.at = "find"
  BY JobFacts DEF Find
<1>1. PICK found : found = [j EXCEPT !.copy = registry, !.old = RegistryOpen]
  OBVIOUS
<1>2. \/ job'[a] = [found EXCEPT !.at = "fetch"] /\ Quietly(a)
      \/ /\ j.what = "uninstall" /\ j.plugin \in External /\ Beginning(a)
         /\ Kept([found EXCEPT !.at = "clear", !.item = j.plugin], job'[a])
         /\ job'[a].old = RegistryOpen
         /\ job'[a].contested <=> \E b \in Programs \ {a} : Changing(b, j.plugin)
  BY <1>1, FindEffect
<1>3. CASE job'[a] = [found EXCEPT !.at = "fetch"] /\ Quietly(a)
  BY <1>1, <1>3, FoundUpdateWords
<1>4. CASE /\ j.what = "uninstall" /\ j.plugin \in External /\ Beginning(a)
           /\ Kept([found EXCEPT !.at = "clear", !.item = j.plugin], job'[a])
           /\ job'[a].old = RegistryOpen
           /\ job'[a].contested <=> \E b \in Programs \ {a} : Changing(b, j.plugin)
  <2>1. UNCHANGED <<dir, registry, settings, word>>
    BY DEF Find, files, history
  <2>2. ~j.passing /\ j.plugin \in Plugins
    BY <1>0 DEF Stage, PassStage, CommandStage
  <2>3. PICK mine : mine = [found EXCEPT !.at = "clear", !.item = j.plugin]
    OBVIOUS
  <2>4. /\ mine.at = "clear" /\ mine.plugin = j.plugin /\ mine.what = j.what
        /\ mine.copy = registry /\ mine.passing = j.passing
    BY <1>0, <1>1, <2>3 DEF Jobs
  <2>5. /\ job'[a].at = "clear" /\ job'[a].plugin = j.plugin /\ job'[a].what = "uninstall"
        /\ job'[a].copy = registry /\ job'[a].passing = j.passing /\ job'[a].old = RegistryOpen
    BY <1>4, <2>3, <2>4 DEF Kept
  <2>6. \A p : ~Changing(a, p) /\ (Changing(a, p)' <=> p = j.plugin)
    BY <1>0, <2>2, <2>5 DEF Changing, InPass
  <2>7. RegistryOpen' <=> RegistryOpen
    BY <1>0, <1>4, <2>1, <2>5, BeginningBeside, FilesKept
  <2>8. Held(a)'
    BY <2>1, <2>5, <2>7, HeldCopy
  <2>9. ~Wrote(a)'
    BY <2>5 DEF Wrote
  <2>10. Change(a, j.plugin)'
    BY <2>5, <2>9 DEF Change
  <2> QED
    BY <1>0, <1>4, <2>1, <2>2, <2>5, <2>6, <2>8, <2>9, <2>10, BeganWords
<1> QED
  BY <1>2, <1>3, <1>4

LEMMA KnownWords ==
    ASSUME TypeInv, StageInv, WordsInv, NEW a \in Programs, Known(a)
    PROVE  WordsInv'
<1> DEFINE j == job[a]
<1>0. j \in Jobs /\ Stage(j, source) /\ j.at = "known" /\ Loads(dir[j.plugin])
  BY JobFacts DEF Known
<1>1. PICK mine : mine = [j EXCEPT !.at = "settings"]
  OBVIOUS
<1>2. /\ Beginning(a) /\ Kept(mine, job'[a])
      /\ job'[a].contested <=> \E b \in Programs \ {a} : Changing(b, mine.plugin)
      /\ UNCHANGED <<dir, registry, settings, word>>
  BY <1>1, KnownEffect DEF Known, files, history
<1>3. ~j.passing /\ j.plugin \in Plugins /\ j.what \in {"enable", "disable"}
  BY <1>0 DEF Stage, PassStage, CommandStage
<1>4. mine.at = "settings" /\ mine.plugin = j.plugin /\ mine.what = j.what /\ mine.passing = j.passing
  BY <1>0, <1>1 DEF Jobs
<1>5. /\ job'[a].at = "settings" /\ job'[a].plugin = j.plugin /\ job'[a].what = j.what
      /\ job'[a].passing = j.passing
  BY <1>2, <1>4 DEF Kept
<1>6. \A p : ~Changing(a, p) /\ (Changing(a, p)' <=> p = j.plugin)
  BY <1>0, <1>3, <1>5 DEF Changing, InPass
<1>7. Held(a)'
  BY <1>5 DEF Held, Holder
<1> PICK q \in Plugins : q = j.plugin
  BY <1>3
<1>8. ASSUME q \in External, Rest(q) PROVE Change(a, q)'
  <2>1. dir[q] # {}
    <3>1. PICK v \in Versions : LoadsAs(dir[q], v)
      BY <1>0 DEF Loads
    <3>2. <<"manifest", v>> \in dir[q]
      BY <3>1 DEF LoadsAs
    <3> QED
      BY <3>2
  <2>2. word[q] # "gone" /\ word[q] \in {"gone", "on", "off", "unknown"}
    BY <1>3, <1>8, <2>1 DEF Rest, Absent, TypeInv
  <2>3. Whole(q) => Whole(q)'
    BY <1>0, <1>2, <1>5, <1>8, BeginningBeside, FilesKept
  <2>4. word[q] # "unknown" => Whole(q)'
    BY <1>2, <1>8, <2>2, <2>3 DEF Rest
  <2> QED
    BY <1>2, <1>3, <1>5, <2>2, <2>4 DEF Change
<1> QED
  BY <1>0, <1>2, <1>3, <1>4, <1>5, <1>6, <1>7, <1>8, BeganWords

\* What a program that clears or copies the directory of its plugin goes on with.
LEMMA DirStage ==
    ASSUME TypeInv, StageInv, NEW a \in Programs, job[a].at \in {"clear", "copy"}
    PROVE  /\ job[a].item \in Plugins
           /\ \A p \in External : Changing(a, p) <=> ~job[a].passing /\ p = job[a].plugin
           /\ \A p \in External : p = job[a].item => ~job[a].passing /\ p = job[a].plugin
           /\ ~job[a].passing => job[a].item = job[a].plugin /\ job[a].plugin \in Plugins
                                 /\ job[a].what \in {"install", "update", "uninstall"}
BY JobFacts, PluginsAssumption
   DEF Changing, InPass, External, Stage, PassStage, CommandStage

LEMMA DirWords ==
    ASSUME TypeInv, StageInv, WordsInv, NEW a \in Programs, job[a].at \in {"clear", "copy"},
           Beside(a), UNCHANGED <<registry, settings, word>>,
           \A p \in Plugins \ {job[a].item} : dir'[p] = dir[p],
           Onward(job[a], job'[a]),
           job'[a].at \in {"clear", "copy", "load", "store", "bundled"},
           job'[a].at = "load" => job[a].what = "install",
           \A p \in Plugins \ {job[a].item} : job'[a].copy[p] = job[a].copy[p],
           Holder(a)' => Holder(a), job'[a].at = "bundled" => job[a].passing,
           NEW q, q = job[a].plugin,
           ~job[a].passing => /\ job'[a].at # "bundled"
                              /\ q \in External /\ ~job[a].contested => Change(a, q)'
    PROVE  WordsInv'
<1>1. /\ \A p \in External : Changing(a, p) <=> ~job[a].passing /\ p = q
      /\ \A p \in External : p = job[a].item => ~job[a].passing /\ p = q
      /\ ~job[a].passing => job[a].item = q
  BY DirStage
<1>2. /\ job'[a].what = job[a].what /\ job'[a].plugin = q /\ job'[a].old = job[a].old
      /\ job'[a].passing = job[a].passing /\ job'[a].contested = job[a].contested
  BY DEF Onward
<1>3. \A p : Changing(a, p)' <=> Changing(a, p)
  BY <1>2 DEF Changing, InPass
<1>4. \A p \in External : ~Changing(a, p) => dir'[p] = dir[p] /\ job'[a].copy[p] = job[a].copy[p]
  BY <1>1 DEF External
<1>5. RegistryOpen' <=> RegistryOpen
  BY FilesKept
<1>6. Holder(a) /\ ~job[a].old =>
         ~RegistryOpen /\ \A p \in External : Changing(a, p) \/ job[a].copy[p] = registry[p]
  BY DEF WordsInv, HeldInv, Held, Agrees
<1>7. Held(a)'
  BY <1>2, <1>3, <1>4, <1>5, <1>6, HeldCopy
<1>8. HeldSettings(a)' /\ ~Wrote(a)'
  BY DEF HeldSettings, Wrote
<1>9. ASSUME NEW p \in External, Changing(a, p)', ~job'[a].contested PROVE Change(a, p)'
  BY <1>1, <1>2, <1>3, <1>9
<1> QED
  BY <1>2, <1>3, <1>4, <1>7, <1>8, <1>9, PlainWords

\* The command on the plugin that is cleared or copied, but for its directory.
LEMMA DirChange ==
    ASSUME TypeInv, StageInv, WordsInv, NEW a \in Programs, job[a].at \in {"clear", "copy"},
           Beside(a), UNCHANGED <<registry, settings, word>>, Onward(job[a], job'[a]),
           job'[a].at \in {"clear", "copy", "load", "store"},
           NEW p \in External, Changing(a, p), ~job[a].contested
    PROVE  /\ ~Wrote(a)'
           /\ job[a].what = "update" =>
                 /\ job'[a].at = "fill" \/ ~job'[a].old => word'[p] # "gone"
                 /\ word'[p] \in {"on", "off"} => Enabled(p, word[p])'
<1>1. Change(a, p)
  BY DEF WordsInv, ChangeInv
<1>2. job'[a].old = job[a].old
  BY DEF Onward
<1>3. \A s : Enabled(p, s) => Enabled(p, s)'
  BY FilesKept
<1> QED
  BY <1>1, <1>2, <1>3 DEF Change, Wrote

LEMMA ClearWords ==
    ASSUME TypeInv, StageInv, WordsInv, NEW a \in Programs, Clear(a)
    PROVE  WordsInv'
<1> DEFINE j == job[a]
<1>1. j \in Jobs /\ j.at = "clear" /\ j.landed = {} /\ UNCHANGED <<registry, settings, word>>
  BY JobFacts DEF Clear, files, Stage, CopyStage
<1>2. Beside(a)
  BY ClearEffect, LoudBeside
<1>3. PICK left \in SUBSET dir[j.item] :
         /\ dir' = [dir EXCEPT ![j.item] = left]
         /\ job'[a] = IF left = {} THEN Cleared(a) ELSE j
  BY ClearEffect
<1>4. /\ j.item \in Plugins
      /\ ~j.passing => j.item = j.plugin /\ j.what \in {"install", "update", "uninstall"}
  BY <1>1, DirStage
<1>5. dir'[j.item] = left /\ \A p \in Plugins \ {j.item} : dir'[p] = dir[p]
  BY <1>3, <1>4 DEF TypeInv
<1>6. /\ Onward(j, job'[a]) /\ job'[a].at \in {"clear", "copy", "store", "bundled"}
      /\ \A p \in Plugins \ {j.item} : job'[a].copy[p] = j.copy[p]
      /\ job'[a].at = "copy" => /\ left = {} /\ (~j.passing => j.what # "uninstall")
                                /\ job'[a].landed = {}
      /\ job'[a].at = "bundled" => j.passing
      /\ job'[a].at = "store" => ~j.passing /\ j.what = "uninstall" /\ left = {}
                                 /\ job'[a].copy[j.item] = 0
  <2>1. CASE left # {}
    BY <1>1, <1>3, <2>1 DEF Onward
  <2>2. CASE left = {}
    <3>1. job'[a] = Cleared(a)
      BY <1>3, <2>2
    <3>2. CASE /\ InPass(a) => source[j.item] # 0
               /\ ~InPass(a) => j.what # "uninstall"
               /\ Cleared(a) = [j EXCEPT !.at = "copy"]
      BY <1>1, <2>2, <3>1, <3>2 DEF Jobs, InPass, Onward
    <3>3. CASE /\ InPass(a) /\ source[j.item] = 0 /\ Cleared(a).at = "bundled"
               /\ Recorded(j, Cleared(a), 0)
      BY <1>1, <3>1, <3>3, ClearedJobs DEF InPass, Recorded
    <3>4. CASE /\ ~InPass(a) /\ j.what = "uninstall"
               /\ Cleared(a).at = "store" /\ Cleared(a).then = "settings"
               /\ Recorded(j, Cleared(a), 0)
      BY <1>1, <2>2, <3>1, <3>4, ClearedJobs DEF InPass, Recorded
    <3> QED
      BY <1>1, <3>2, <3>3, <3>4, ClearedJobs
  <2> QED
    BY <2>1, <2>2
<1>7. Holder(a)' => Holder(a)
  BY <1>1, <1>6 DEF Holder, Onward
<1> PICK p : p = j.plugin
  OBVIOUS
<1>8. ASSUME ~j.passing, p \in External, ~j.contested PROVE Change(a, p)'
  <2>1. Changing(a, p) /\ p = j.item
    BY <1>1, <1>4, <1>8, DirStage
  <2>2. job'[a].at # "bundled" /\ job'[a].plugin = p /\ job'[a].what = j.what
    BY <1>6, <1>8 DEF Onward
  <2>3. /\ ~Wrote(a)'
        /\ j.what = "update" =>
              /\ job'[a].at = "fill" \/ ~job'[a].old => word'[p] # "gone"
              /\ word'[p] \in {"on", "off"} => Enabled(p, word[p])'
    BY <1>1, <1>2, <1>6, <1>8, <2>1, <2>2, DirChange
  <2>4. job'[a].at = "copy" => dir'[p] = job'[a].landed \X {job'[a].version}
    BY <1>5, <1>6, <2>1
  <2> QED
    BY <1>5, <1>6, <2>1, <2>2, <2>3, <2>4 DEF Change
<1> QED
  BY <1>1, <1>2, <1>5, <1>6, <1>7, <1>8, DirWords

LEMMA CopyWords ==
    ASSUME TypeInv, StageInv, WordsInv, NEW a \in Programs, Copy(a)
    PROVE  WordsInv'
<1> DEFINE j == job[a]
<1>1. j \in Jobs /\ j.at = "copy" /\ UNCHANGED <<registry, settings, word>>
  BY JobFacts DEF Copy, files, history
<1>2. Beside(a)
  BY CopyEffect, LoudBeside
<1>3. PICK part \in Parts \ j.landed :
         /\ part = "checked" => "manifest" \in j.landed
         /\ dir' = [dir EXCEPT ![j.item] = Landed(dir[j.item], part, j.version)]
         /\ job'[a] = IF j.landed \cup {part} = Parts THEN Copied(a) ELSE Further(j, part)
  BY CopyEffect
<1> DEFINE after == Landed(dir[j.item], part, j.version)
           landed == j.landed \cup {part}
<1>4. /\ j.item \in Plugins
      /\ ~j.passing => j.item = j.plugin /\ j.what \in {"install", "update"} /\ j.version # 0
  BY <1>1, DirStage, JobFacts DEF Stage, CommandStage, CopyStage
<1>5. dir[j.item] = j.landed \X {j.version} => after = landed \X {j.version}
  <2>1. MayLand(j.landed, part)
    BY <1>1, <1>3, JobFacts DEF MayLand, Jobs, Stage, CopyStage
  <2>2. HasLanded(dir[j.item], j.version, j.landed, part)
    BY <2>1, LandedHolds
  <2> QED
    BY <2>2 DEF HasLanded
<1>6. dir' = [dir EXCEPT ![j.item] = after]
      /\ job'[a] = IF landed = Parts THEN Copied(a) ELSE Further(j, part)
  BY <1>3
<1> HIDE DEF after
<1>7. dir'[j.item] = after /\ \A p \in Plugins \ {j.item} : dir'[p] = dir[p]
  BY <1>4, <1>6 DEF TypeInv
<1>8. /\ Onward(j, job'[a]) /\ job'[a].at \in {"copy", "load", "store", "bundled"}
      /\ \A p \in Plugins \ {j.item} : job'[a].copy[p] = j.copy[p]
      /\ job'[a].at \in {"copy", "load"} => job'[a].version = j.version
      /\ job'[a].at = "copy" => job'[a].landed = landed
      /\ job'[a].at # "copy" => landed = Parts
      /\ job'[a].at = "load" => ~j.passing /\ j.what = "install"
      /\ job'[a].at = "bundled" => j.passing
      /\ job'[a].at = "store" => ~j.passing /\ j.what = "update" /\ job'[a].copy[j.item] = j.version
  <2>1. CASE landed # Parts
    <3>1. job'[a] = Further(j, part)
      BY <1>6, <2>1
    <3> QED
      BY <1>1, <2>1, <3>1 DEF Jobs, Further, Onward
  <2>2. CASE landed = Parts
    <3>1. job'[a] = Copied(a)
      BY <1>6, <2>2
    <3>2. CASE ~InPass(a) /\ j.what = "install" /\ Copied(a) = [j EXCEPT !.landed = {}, !.at = "load"]
      BY <1>1, <2>2, <3>1, <3>2 DEF Jobs, InPass, Onward
    <3>3. CASE InPass(a) /\ Copied(a).at = "bundled" /\ Recorded(j, Copied(a), j.version)
      BY <1>1, <2>2, <3>1, <3>3, CopiedJobs DEF InPass, Recorded
    <3>4. CASE /\ ~InPass(a) /\ j.what = "update"
               /\ Copied(a).at = "store" /\ Copied(a).then = "told"
               /\ Recorded(j, Copied(a), j.version)
      BY <1>1, <2>2, <3>1, <3>4, CopiedJobs DEF InPass, Recorded
    <3> QED
      BY <1>1, <3>2, <3>3, <3>4, CopiedJobs
  <2> QED
    BY <2>1, <2>2
<1>9. Holder(a)' => Holder(a)
  BY <1>1, <1>8 DEF Holder, Onward
<1> PICK p : p = j.plugin
  OBVIOUS
<1>10. ASSUME ~j.passing, p \in External, ~j.contested PROVE Change(a, p)'
  <2>1. Changing(a, p) /\ p = j.item
    BY <1>1, <1>4, <1>10, DirStage
  <2>2. job'[a].at # "bundled" /\ job'[a].plugin = p /\ job'[a].what = j.what
    BY <1>8, <1>10 DEF Onward
  <2>3. /\ ~Wrote(a)'
        /\ j.what = "update" =>
              /\ job'[a].at = "fill" \/ ~job'[a].old => word'[p] # "gone"
              /\ word'[p] \in {"on", "off"} => Enabled(p, word[p])'
    BY <1>1, <1>2, <1>8, <1>10, <2>1, <2>2, DirChange
  <2>4. dir[p] = j.landed \X {j.version}
    BY <1>1, <1>10, <2>1 DEF WordsInv, ChangeInv, Change
  <2>5. dir'[p] = landed \X {j.version}
    BY <1>5, <1>7, <2>1, <2>4
  <2>6. job'[a].at # "copy" => dir'[p] = Contents(j.version)
    BY <1>8, <2>5 DEF Contents
  <2> QED
    BY <1>4, <1>8, <1>10, <2>1, <2>2, <2>3, <2>5, <2>6 DEF Change
<1> QED
  BY <1>1, <1>2, <1>7, <1>8, <1>9, <1>10, DirWords

LEMMA CopyOverWords ==
    ASSUME TypeInv, StageInv, WordsInv, NEW a \in Programs, CopyOver(a)
    PROVE  WordsInv'
<1> DEFINE j == job[a]
<1>1. /\ j \in Jobs /\ j.at = "copy" /\ UNCHANGED <<registry, settings, word>>
      /\ "rest" \notin j.landed /\ <<"rest", j.version>> \in dir[j.item]
  BY JobFacts DEF CopyOver, files, history
<1>2. Beside(a) /\ job'[a] = j
  BY CopyOverEffect, LoudBeside
<1>3. j.item \in Plugins /\ (~j.passing => j.item = j.plugin)
  BY <1>1, DirStage
<1>4. \A p \in Plugins \ {j.item} : dir'[p] = dir[p]
  BY <1>3, CopyOverEffect DEF TypeInv
<1>5. Onward(j, job'[a]) /\ (Holder(a)' => Holder(a))
  BY <1>1, <1>2 DEF Onward, Holder
<1> PICK p : p = j.plugin
  OBVIOUS
<1>6. ASSUME ~j.passing, p \in External, ~j.contested PROVE Change(a, p)'
  <2>1. Changing(a, p) /\ p = j.item
    BY <1>1, <1>3, <1>6, DirStage
  <2>2. dir[p] = j.landed \X {j.version}
    BY <1>1, <1>6, <2>1 DEF WordsInv, ChangeInv, Change
  <2> QED
    BY <1>1, <2>1, <2>2
<1> QED
  BY <1>1, <1>2, <1>4, <1>5, <1>6, DirWords

\* A step on the registry leaves the settings and who writes them alone, and makes every
\* copy of the registry but the program's own an old one.
LEMMA RegistryStep ==
    ASSUME TypeInv, WordsInv, NEW a \in Programs, NEW overtaken, Loudly(a, "registry", overtaken),
           settings' = settings, ~Holder(a)', job'[a].at # "fetch",
           job[a].at # "write", job'[a].at \notin {"empty", "write"}
    PROVE  /\ HeldInv' /\ HeldSettingsInv'
           /\ \A p \in External : \A s : Enabled(p, s) => Enabled(p, s)'
<1>1. Beside(a)
  BY LoudBeside
<1>2. \A b \in Programs \ {a} : Holder(b) => job'[b].old
  BY DEF Loudly, Holder, Holds
<1>3. HeldInv'
  <2>1. Held(a)'
    BY DEF Held
  <2> QED
    BY <1>1, <1>2, <2>1, HeldOld DEF HeldInv, WordsInv
<1>4. \A b \in Programs :
         /\ job'[b].at = "write" <=> job[b].at = "write"
         /\ job[b].at = "write" => job'[b].set = job[b].set /\ (job[b].old => job'[b].old)
  BY <1>1 DEF Beside, Kept
<1>5. /\ SettingsOpen' <=> SettingsOpen
      /\ \A p \in External : \A s : Enabled(p, s) => Enabled(p, s)'
  BY <1>4, SettingsKept
<1>6. HeldSettingsInv'
  <2>1. HeldSettings(a)'
    BY DEF HeldSettings
  <2> QED
    BY <1>1, <1>5, <2>1, HeldSettingsKept DEF HeldSettingsInv, WordsInv
<1> QED
  BY <1>3, <1>5, <1>6

LEMMA StoreWords ==
    ASSUME TypeInv, StageInv, WordsInv, NEW a \in Programs, Store(a)
    PROVE  WordsInv'
<1> DEFINE j == job[a]
<1>0. j \in Jobs /\ Stage(j, source)
  BY JobFacts
<1>1. PICK overtaken : overtaken = (j.old \/ RegistryOpen)
  OBVIOUS
<1>2. /\ Loudly(a, "registry", overtaken) /\ overtaken \in BOOLEAN
      /\ job'[a] = [j EXCEPT !.at = "fill", !.old = FALSE]
      /\ ~overtaken => word' = word
      /\ overtaken => word' = [p \in Plugins |-> "unknown"]
  BY <1>1, StoreEffect
<1>3. /\ dir' = dir /\ settings' = settings /\ j.at = "store"
  BY DEF Store
<1>4. /\ job'[a].at = "fill" /\ ~job'[a].old /\ job'[a].copy = j.copy /\ job'[a].what = j.what
      /\ job'[a].plugin = j.plugin /\ job'[a].passing = j.passing
      /\ job'[a].contested = j.contested
  BY <1>0, <1>2 DEF Jobs
<1>5. \A p : Changing(a, p)' <=> Changing(a, p)
  BY <1>3, <1>4 DEF Changing, InPass
<1>6. Beside(a)
  BY <1>2, LoudBeside
<1>7. /\ HeldInv' /\ HeldSettingsInv'
      /\ \A p \in External : \A s : Enabled(p, s) => Enabled(p, s)'
  <2>1. ~Holder(a)'
    BY <1>4 DEF Holder
  <2> QED
    BY <1>2, <1>3, <1>4, <2>1, RegistryStep
<1>8. RivalInv'
  BY <1>4, <1>5, <1>6, RivalsSame DEF WordsInv
<1>9. ASSUME NEW p \in External, Changing(a, p)', ~job'[a].contested PROVE Change(a, p)'
  <2>1. Change(a, p) /\ ~Wrote(a)'
    BY <1>4, <1>5, <1>9 DEF WordsInv, ChangeInv, Wrote
  <2>2. j.what = "update" =>
           word'[p] # "gone" /\ (word'[p] \in {"on", "off"} => Enabled(p, word[p])')
    <3>1. CASE overtaken
      <4>1. word'[p] = "unknown"
        BY <1>2, <3>1 DEF External
      <4> QED
        BY <4>1
    <3>2. CASE ~overtaken
      BY <1>1, <1>2, <1>7, <2>1, <3>2 DEF Change
    <3> QED
      BY <3>1, <3>2
  <2> QED
    BY <1>3, <1>4, <2>1, <2>2 DEF Change
<1>10. ChangeInv' /\ WordInv'
  <2>1. CASE overtaken
    <3>1. \A b \in Programs \ {a} : job'[b].contested \/ job[b].at \in {"off", "up"} \/ InPass(b)
      BY <1>2, <2>1 DEF Loudly
    <3> QED
      BY <1>2, <1>6, <1>9, <2>1, <3>1, WordsDoubted
  <2>2. CASE ~overtaken
    <3>1. ~j.old /\ ~RegistryOpen /\ word' = word
      BY <1>1, <1>2, <2>2
    <3>2. \A p \in External : Agrees(a, p)
      BY <1>3, <3>1 DEF WordsInv, HeldInv, Held, Holder
    <3>3. registry \in Records /\ Sure /\ WillRecord(registry)
      BY <3>1 DEF TypeInv, Sure, RegistryOpen, WillRecord
    <3>4. \A r \in Records : WillRecord(r)' => r = j.copy
      <4>1. \A b \in Programs : job'[b].at = "fill" => b = a
        BY <1>6, <3>1 DEF Beside, Kept, RegistryOpen
      <4>2. RegistryOpen'
        BY <1>4 DEF RegistryOpen
      <4> QED
        BY <1>4, <4>1, <4>2 DEF WillRecord
    <3>5. ASSUME NEW p \in External, ~Changing(a, p), Settled(p)
          PROVE  (Whole(p) => Whole(p)') /\ (Absent(p) => Absent(p)')
      <4>1. j.copy[p] = registry[p]
        BY <3>2, <3>5 DEF Agrees
      <4> QED
        BY <1>3, <3>3, <3>4, <4>1 DEF Whole, Absent
    <3> QED
      BY <1>3, <1>5, <1>6, <1>7, <1>8, <1>9, <3>1, <3>5, WordsKept
  <2> QED
    BY <1>2, <2>1, <2>2
<1> QED
  BY <1>7, <1>8, <1>10 DEF WordsInv

LEMMA FillWords ==
    ASSUME TypeInv, StageInv, WordsInv, NEW a \in Programs, Fill(a)
    PROVE  WordsInv'
<1> DEFINE j == job[a]
<1>0. j \in Jobs /\ Stage(j, source)
  BY JobFacts
<1>1. /\ Loudly(a, "registry", j.old) /\ job'[a] = Filled(a)
      /\ ~j.old => word' = ToldOf(a)
      /\ j.old => word' = [p \in Plugins |-> "unknown"]
  BY FillEffect
<1>2. dir' = dir /\ settings' = settings /\ registry' = j.copy /\ j.at = "fill"
  BY DEF Fill
<1>3. Beside(a)
  BY <1>1, LoudBeside
<1>4. /\ job'[a].at \in {"sync", "settings", "discover", "found", "refused"}
      /\ \/ job'[a].passing
         \/ /\ ~j.passing /\ job'[a].at = "settings" /\ job'[a].plugin = j.plugin
            /\ job'[a].what = j.what /\ j.what \in {"install", "uninstall"}
            /\ job'[a].contested = j.contested /\ j.then # "told"
      /\ ~j.passing /\ job'[a].passing => j.then = "told" /\ j.what = "update"
  <2>1. CASE j.then = "told"
    <3>1. job'[a] = Pass("list", Nobody)
      BY <1>1, <2>1 DEF Filled
    <3> QED
      BY <1>0, <1>2, <2>1, <3>1, PassFields DEF Stage, CommandStage
  <2>2. CASE j.then # "told"
    <3>1. job'[a] = [j EXCEPT !.at = j.then, !.then = "off", !.copy = NoRecords, !.old = FALSE]
      BY <1>1, <2>2 DEF Filled
    <3> QED
      BY <1>0, <1>2, <2>2, <3>1 DEF Jobs, Stage, PassStage, CommandStage
  <2> QED
    BY <2>1, <2>2
<1>5. \A p : Changing(a, p)' =>
         /\ Changing(a, p) /\ ~job'[a].passing /\ ~j.passing /\ job'[a].at = "settings"
         /\ job'[a].what = j.what /\ j.what \in {"install", "uninstall"}
         /\ job'[a].contested = j.contested
  BY <1>2, <1>4 DEF Changing, InPass
<1>6. \A p : Changing(a, p) /\ ~Changing(a, p)' => j.then = "told" /\ j.what = "update" /\ p = j.plugin
  BY <1>2, <1>4 DEF Changing, InPass
<1>7. /\ HeldInv' /\ HeldSettingsInv'
      /\ \A p \in External : \A s : Enabled(p, s) => Enabled(p, s)'
  <2>1. ~Holder(a)'
    BY <1>4 DEF Holder
  <2> QED
    BY <1>1, <1>2, <1>4, <2>1, RegistryStep
<1>8. RivalInv'
  <2>1. j.contested /\ ~job'[a].passing /\ job'[a].at \notin {"off", "up"} => job'[a].contested
    BY <1>4
  <2> QED
    BY <1>3, <1>5, <2>1, RivalsSame DEF WordsInv
<1>9. \* Another that is writing the registry was overtaken.
      Sure' => \A r \in Records : WillRecord(r)' => r = j.copy
  <2> SUFFICES ASSUME Sure', NEW r \in Records, WillRecord(r)' PROVE r = j.copy
    OBVIOUS
  <2>1. ASSUME NEW b \in Programs, job'[b].at = "fill" PROVE FALSE
    <3>1. b # a /\ job[b].at = "fill"
      BY <1>3, <1>4, <2>1 DEF Beside, Kept
    <3>2. job'[b].old
      BY <1>1, <3>1 DEF Loudly, Holds
    <3> QED
      BY <2>1, <3>2 DEF Sure
  <2> QED
    BY <1>2, <2>1 DEF WillRecord, RegistryOpen
<1>10. ASSUME NEW p \in External, Changing(a, p), ~j.contested
       PROVE  /\ j.what = "uninstall" => Absent(p)'
              /\ j.what # "uninstall" => Whole(p)'
              /\ j.what = "update" => /\ word[p] # "gone"
                                      /\ word[p] \in {"on", "off"} => Enabled(p, word[p])
  <2>1. Change(a, p)
    BY <1>10 DEF WordsInv, ChangeInv
  <2> QED
    BY <1>2, <1>9, <2>1 DEF Change, Absent, Whole
<1>11. ASSUME NEW p \in External, Changing(a, p)', ~job'[a].contested PROVE Change(a, p)'
  <2>1. /\ job'[a].at = "settings" /\ job'[a].what = j.what /\ j.what \in {"install", "uninstall"}
        /\ Changing(a, p) /\ ~j.contested
    BY <1>5, <1>11
  <2> QED
    BY <1>10, <2>1 DEF Change
<1>12. ChangeInv' /\ WordInv'
  <2>1. CASE j.old
    <3>1. \A b \in Programs \ {a} : job'[b].contested \/ job[b].at \in {"off", "up"} \/ InPass(b)
      BY <1>1, <2>1 DEF Loudly
    <3> QED
      BY <1>1, <1>3, <1>11, <2>1, <3>1, WordsDoubted
  <2>2. CASE ~j.old
    <3>1. word' = ToldOf(a)
      BY <1>1, <2>2
    <3>2. ASSUME NEW p \in External, ~Changing(a, p) PROVE word'[p] = word[p]
      <4>1. p \in Plugins /\ (j.then = "told" => p # j.plugin)
        BY <1>0, <1>2, <3>2 DEF Changing, InPass, Stage, PassStage, CommandStage, External
      <4> QED
        BY <3>1, <4>1 DEF ToldOf, TypeInv
    <3>3. ASSUME NEW p \in External
          PROVE  (Whole(p) => Whole(p)') /\ (Absent(p) => Absent(p)')
      <4>1. j.copy \in Records /\ WillRecord(j.copy)
        BY <1>0, <1>2 DEF Jobs, WillRecord, RegistryOpen
      <4>2. Sure' => Sure
        <5> SUFFICES ASSUME Sure', NEW b \in Programs, job[b].at = "fill" PROVE ~job[b].old
          BY DEF Sure
        <5>1. CASE b = a
          BY <2>2, <5>1
        <5>2. CASE b # a
          <6>1. job'[b].at = "fill" /\ job'[b].old
            BY <1>1, <5>2 DEF Loudly, Holds, Kept
          <6> QED
            BY <6>1 DEF Sure
        <5> QED
          BY <5>1, <5>2
      <4> QED
        BY <1>2, <1>9, <4>1, <4>2 DEF Whole, Absent
    <3>4. ASSUME NEW p \in External, Changing(a, p), ~Changing(a, p)' PROVE Rest(p)'
      <4>1. j.then = "told" /\ j.what = "update" /\ p = j.plugin /\ p \in Plugins
        BY <1>6, <3>4 DEF External
      <4>2. CASE j.contested
        <5>1. word'[p] = "unknown"
          BY <3>1, <4>1, <4>2 DEF ToldOf, TypeInv
        <5> QED
          BY <5>1 DEF Rest
      <4>3. CASE ~j.contested
        <5>1. word'[p] = word[p]
          BY <3>1, <4>1, <4>3 DEF ToldOf
        <5> QED
          BY <1>7, <1>10, <3>4, <4>1, <4>3, <5>1 DEF Rest
      <4> QED
        BY <4>2, <4>3
    <3> QED
      BY <1>2, <1>3, <1>7, <1>8, <1>11, <3>2, <3>3, <3>4, WordsKept
  <2> QED
    BY <1>0, <2>1, <2>2 DEF Jobs
<1> QED
  BY <1>7, <1>8, <1>12 DEF WordsInv

\* A step on the settings leaves the registry and who writes it alone.
LEMMA SettingsStep ==
    ASSUME TypeInv, WordsInv, NEW a \in Programs, NEW overtaken, Loudly(a, "settings", overtaken),
           registry' = registry, dir' = dir,
           job[a].at \notin {"fill"}, ~Holder(a)', job'[a].at \notin {"fetch", "fill"},
           HeldSettings(a)', \A p \in External : Settled(p)' => Settled(p)
    PROVE  /\ HeldInv' /\ HeldSettingsInv'
           /\ \A p \in External : (Whole(p) => Whole(p)') /\ (Absent(p) => Absent(p)')
<1>1. Beside(a)
  BY LoudBeside
<1>2. \A b \in Programs :
         /\ job'[b].at = "fill" <=> job[b].at = "fill"
         /\ job[b].at = "fill" => job'[b].copy = job[b].copy /\ (job[b].old => job'[b].old)
  BY <1>1 DEF Beside, Kept
<1>3. /\ RegistryOpen' <=> RegistryOpen
      /\ \A p \in External : (Whole(p) => Whole(p)') /\ (Absent(p) => Absent(p)')
  BY <1>2, RegistryKept
<1>4. HeldInv'
  <2>1. Held(a)'
    BY DEF Held
  <2> QED
    BY <1>1, <1>3, <2>1, HeldKept DEF HeldInv, WordsInv
<1>5. HeldSettingsInv'
  <2>1. \A b \in Programs \ {a} : job[b].at = "empty" => job'[b].old
    BY DEF Loudly, Holds
  <2> QED
    BY <1>1, <2>1, HeldSettingsKept DEF HeldSettingsInv, WordsInv
<1> QED
  BY <1>3, <1>4, <1>5

LEMMA EmptyWords ==
    ASSUME TypeInv, StageInv, WordsInv, NEW a \in Programs, Empty(a)
    PROVE  WordsInv'
<1> DEFINE j == job[a]
<1>0. j \in Jobs /\ Stage(j, source)
  BY JobFacts
<1>1. PICK overtaken : overtaken = (j.old \/ SettingsOpen)
  OBVIOUS
<1>2. /\ Loudly(a, "settings", overtaken) /\ overtaken \in BOOLEAN
      /\ job'[a] = [j EXCEPT !.at = "write", !.old = FALSE]
      /\ ~overtaken => word' = word
      /\ overtaken => word' = [p \in Plugins |-> "unknown"]
  BY <1>1, EmptyEffect
<1>3. dir' = dir /\ registry' = registry /\ j.at = "empty"
  BY DEF Empty
<1>4. /\ job'[a].at = "write" /\ ~job'[a].old /\ job'[a].set = j.set /\ job'[a].what = j.what
      /\ job'[a].plugin = j.plugin /\ job'[a].passing = j.passing
      /\ job'[a].contested = j.contested
  BY <1>0, <1>2 DEF Jobs
<1>5. ~j.passing /\ j.plugin \in Plugins /\ j.what # "update"
  BY <1>0, <1>3 DEF Stage, PassStage, CommandStage
<1>6. \A p : (Changing(a, p)' <=> Changing(a, p)) /\ (Changing(a, p) <=> p = j.plugin)
  BY <1>3, <1>4, <1>5 DEF Changing, InPass
<1>7. Beside(a) /\ Wrote(a) /\ Wrote(a)'
  BY <1>2, <1>3, <1>4, LoudBeside DEF Wrote
<1>8. overtaken =>
         \A b \in Programs \ {a} : job'[b].contested \/ job[b].at \in {"off", "up"} \/ InPass(b)
  BY <1>2 DEF Loudly
<1>9. ASSUME NEW p \in External, Settled(p)' PROVE Settled(p)
  <2>1. CASE overtaken
    <3>1. Changing(a, p)' /\ ~job'[a].contested /\ job'[a].what \in {"install", "uninstall"}
      BY <1>2, <1>7, <1>8, <1>9, <2>1, DoubtedSettled
    <3> QED
      BY <1>4, <1>6, <1>7, <3>1 DEF Settled
  <2>2. CASE ~overtaken
    <3>1. word'[p] = word[p]
      BY <1>2, <2>2
    <3> QED
      BY <1>4, <1>6, <1>7, <1>9, <3>1, SettledKept
  <2> QED
    BY <1>2, <2>1, <2>2
<1>10. HeldSettings(a)
  BY DEF WordsInv, HeldSettingsInv
<1>11. HeldSettings(a)'
  <2>1. Wanted(job'[a]) = Wanted(j)
    BY <1>4 DEF Wanted
  <2> QED
    BY <1>3, <1>4, <1>10, <2>1 DEF HeldSettings
<1>12. /\ HeldInv' /\ HeldSettingsInv'
       /\ \A p \in External : (Whole(p) => Whole(p)') /\ (Absent(p) => Absent(p)')
  <2>1. ~Holder(a)'
    BY <1>4 DEF Holder
  <2> QED
    BY <1>2, <1>3, <1>4, <1>9, <1>11, <2>1, SettingsStep
<1>13. RivalInv'
  BY <1>4, <1>6, <1>7, RivalsSame DEF WordsInv
<1>14. ASSUME NEW p \in External, Changing(a, p)', ~job'[a].contested PROVE Change(a, p)'
  <2>1. Change(a, p)
    BY <1>4, <1>6, <1>14 DEF WordsInv, ChangeInv
  <2>2. word'[p] \in {word[p], "unknown"}
    BY <1>2 DEF External
  <2> QED
    BY <1>4, <1>5, <1>7, <1>12, <2>1, <2>2 DEF Change
<1>15. ChangeInv' /\ WordInv'
  <2>1. CASE overtaken
    BY <1>2, <1>7, <1>8, <1>14, <2>1, WordsDoubted
  <2>2. CASE ~overtaken
    <3>1. ~j.old /\ ~SettingsOpen /\ word' = word
      BY <1>1, <1>2, <2>2
    <3>2. \A p \in Plugins \ {j.plugin} : j.set[p] = settings[p]
      BY <1>3, <1>10, <3>1 DEF HeldSettings
    <3>3. settings \in Enablings /\ SettingsSure /\ WillEnable(settings)
      BY <3>1 DEF TypeInv, SettingsSure, SettingsOpen, WillEnable
    <3>4. \A s \in Enablings : WillEnable(s)' => s = j.set
      <4>1. \A b \in Programs : job'[b].at = "write" => b = a
        BY <1>7, <3>1 DEF Beside, Kept, SettingsOpen
      <4>2. SettingsOpen'
        BY <1>4 DEF SettingsOpen
      <4> QED
        BY <1>4, <4>1, <4>2 DEF WillEnable
    <3>5. ASSUME NEW p \in External, ~Changing(a, p), NEW state, Enabled(p, state)
          PROVE  Enabled(p, state)'
      <4>1. j.set[p] = settings[p]
        BY <1>6, <3>2, <3>5 DEF External
      <4> QED
        BY <3>3, <3>4, <3>5, <4>1 DEF Enabled
    <3> QED
      BY <1>3, <1>6, <1>7, <1>12, <1>13, <1>14, <3>1, <3>5, WordsKept
  <2> QED
    BY <1>2, <2>1, <2>2
<1> QED
  BY <1>12, <1>13, <1>15 DEF WordsInv

\* Only an uncontested command that was to settle its plugin, or found it settled, says so.
LEMMA SaidSettles ==
    ASSUME TypeInv, StageInv, WordsInv, NEW a \in Programs, job[a].at = "write", Beside(a),
           job'[a].passing, NEW p \in External,
           Changing(a, p) => word'[p] = Said(job[a]), ~Changing(a, p) => word'[p] = word[p],
           Settled(p)'
    PROVE  Settled(p)
<1>1. ~Changing(a, p)'
  BY DEF Changing, InPass
<1>2. CASE ~Changing(a, p)
  BY <1>1, <1>2, SettledKept
<1>3. CASE Changing(a, p)
  <2>1. p \in Plugins /\ job[a].plugin = p
    BY <1>3 DEF External, Changing
  <2>2. job[a].what \in {"install", "uninstall", "enable", "disable"}
    BY <1>3, JobFacts DEF Changing, InPass, Stage, CommandStage
  <2>3. ~job[a].contested /\ word'[p] # "unknown"
    <3>1. CASE word'[p] # "unknown"
      BY <1>3, <3>1 DEF Said
    <3>2. CASE \E b \in Programs : Changing(b, p)' /\ ~job'[b].contested
      <4>1. PICK b \in Programs : Changing(b, p)' /\ ~job'[b].contested
        BY <3>2
      <4>2. b # a
        BY <1>1, <4>1
      <4>3. Changing(b, p) /\ ~job[b].contested
        BY <4>1, <4>2, ChangingKept DEF Beside
      <4> QED
        BY <1>3, <2>1, <4>2, <4>3, Rivals DEF WordsInv
    <3> QED
      BY <3>1, <3>2 DEF Settled
  <2>4. job[a].what \in {"install", "uninstall"} \/ word[p] # "unknown"
    BY <1>3, <2>1, <2>2, <2>3 DEF Said
  <2> QED
    BY <1>3, <2>3, <2>4 DEF Settled, Wrote
<1> QED
  BY <1>2, <1>3

LEMMA WriteWords ==
    ASSUME TypeInv, StageInv, WordsInv, NEW a \in Programs, Write(a)
    PROVE  WordsInv'
<1> DEFINE j == job[a]
<1>0. j \in Jobs /\ Stage(j, source)
  BY JobFacts
<1>1. /\ Loudly(a, "settings", j.old) /\ job'[a] = Pass("list", Nobody)
      /\ ~j.old => word' = [word EXCEPT ![j.plugin] = Said(j)]
      /\ j.old => word' = [p \in Plugins |-> "unknown"]
  BY WriteEffect
<1>2. dir' = dir /\ registry' = registry /\ settings' = j.set /\ j.at = "write"
  BY DEF Write
<1>3. job'[a].at = "sync" /\ job'[a].passing
  BY <1>1, PassFields
<1>4. /\ ~j.passing /\ j.plugin \in Plugins
      /\ j.what \in {"install", "uninstall", "enable", "disable"}
  BY <1>0, <1>2 DEF Stage, PassStage, CommandStage
<1>5. \A p : ~Changing(a, p)' /\ (Changing(a, p) <=> p = j.plugin)
  BY <1>2, <1>3, <1>4 DEF Changing, InPass
<1>6. Beside(a)
  BY <1>1, LoudBeside
<1>7. j.old =>
         \A b \in Programs \ {a} : job'[b].contested \/ job[b].at \in {"off", "up"} \/ InPass(b)
  BY <1>1 DEF Loudly
<1>8. ASSUME ~j.old, NEW p \in External
      PROVE  /\ Changing(a, p) => word'[p] = Said(j)
             /\ ~Changing(a, p) => word'[p] = word[p]
  BY <1>1, <1>4, <1>5, <1>8 DEF External, TypeInv
<1>9. ASSUME NEW p \in External, Settled(p)' PROVE Settled(p)
  <2>1. CASE j.old
    <3>1. Changing(a, p)'
      BY <1>1, <1>6, <1>7, <1>9, <2>1, DoubtedSettled
    <3> QED
      BY <1>5, <3>1
  <2>2. CASE ~j.old
    BY <1>2, <1>3, <1>6, <1>8, <1>9, <2>2, SaidSettles
  <2> QED
    BY <1>0, <2>1, <2>2 DEF Jobs
<1>10. /\ HeldInv' /\ HeldSettingsInv'
       /\ \A p \in External : (Whole(p) => Whole(p)') /\ (Absent(p) => Absent(p)')
  <2>1. ~Holder(a)' /\ HeldSettings(a)'
    BY <1>3 DEF Holder, HeldSettings
  <2> QED
    BY <1>1, <1>2, <1>3, <1>9, <2>1, SettingsStep
<1>11. RivalInv'
  BY <1>3, <1>5, <1>6, RivalsSame DEF WordsInv
<1>12. \* Another that is writing the settings was overtaken.
       SettingsSure' => \A s \in Enablings : WillEnable(s)' => s = j.set
  <2> SUFFICES ASSUME SettingsSure', NEW s \in Enablings, WillEnable(s)' PROVE s = j.set
    OBVIOUS
  <2>1. ASSUME NEW b \in Programs, job'[b].at = "write" PROVE FALSE
    <3>1. b # a /\ job[b].at = "write"
      BY <1>3, <1>6, <2>1 DEF Beside, Kept
    <3>2. job'[b].old
      BY <1>1, <3>1 DEF Loudly, Holds
    <3> QED
      BY <2>1, <3>2 DEF SettingsSure
  <2> QED
    BY <1>2, <2>1 DEF WillEnable, SettingsOpen
<1>13. ChangeInv' /\ WordInv'
  <2>1. CASE j.old
    BY <1>1, <1>5, <1>6, <1>7, <2>1, WordsDoubted
  <2>2. CASE ~j.old
    <3>1. ASSUME NEW p \in External, NEW state, Enabled(p, state) PROVE Enabled(p, state)'
      <4>1. j.set \in Enablings /\ WillEnable(j.set)
        BY <1>0, <1>2 DEF Jobs, WillEnable, SettingsOpen
      <4>2. SettingsSure' => SettingsSure
        <5> SUFFICES ASSUME SettingsSure', NEW b \in Programs, job[b].at = "write"
                     PROVE  ~job[b].old
          BY DEF SettingsSure
        <5>1. CASE b = a
          BY <2>2, <5>1
        <5>2. CASE b # a
          <6>1. job'[b].at = "write" /\ job'[b].old
            BY <1>1, <5>2 DEF Loudly, Holds, Kept
          <6> QED
            BY <6>1 DEF SettingsSure
        <5> QED
          BY <5>1, <5>2
      <4> QED
        BY <1>12, <3>1, <4>1, <4>2 DEF Enabled
    <3>2. ASSUME NEW p \in External, Changing(a, p) PROVE Rest(p)'
      <4>1. word'[p] = Said(j) /\ p = j.plugin
        BY <1>5, <1>8, <2>2, <3>2
      <4>2. CASE j.contested
        BY <4>1, <4>2 DEF Said, Rest
      <4>3. CASE ~j.contested
        <5>1. Change(a, p) /\ Wrote(a)
          BY <1>2, <3>2, <4>3 DEF WordsInv, ChangeInv, Wrote
        <5> PICK state : state = Wanted(j)
          OBVIOUS
        <5>2. Enabled(p, state)'
          <6>1. j.set[p] = state
            BY <1>2, <4>1 DEF WordsInv, HeldSettingsInv, HeldSettings
          <6> QED
            BY <1>12, <6>1 DEF Enabled
        <5>3. /\ j.what = "install" => word'[p] = "on" /\ state = "on"
              /\ j.what = "uninstall" => word'[p] = "gone" /\ state = "unset"
              /\ j.what \in {"enable", "disable"} =>
                    IF word[p] \in {"on", "off"} THEN word'[p] = state /\ state \in {"on", "off"}
                    ELSE word'[p] = word[p]
          BY <4>1, <4>3 DEF Said, Wanted
        <5>4. CASE j.what \in {"install", "uninstall"}
          BY <1>10, <5>1, <5>2, <5>3, <5>4 DEF Change, Rest
        <5>5. CASE j.what \in {"enable", "disable"}
          BY <1>10, <5>1, <5>2, <5>3, <5>5 DEF Change, Rest
        <5> QED
          BY <1>4, <5>4, <5>5
      <4> QED
        BY <4>2, <4>3
    <3> QED
      BY <1>2, <1>5, <1>6, <1>8, <1>10, <1>11, <2>2, <3>1, <3>2, WordsKept
  <2> QED
    BY <1>0, <2>1, <2>2 DEF Jobs
<1> QED
  BY <1>10, <1>11, <1>13 DEF WordsInv

LEMMA StopWords ==
    ASSUME TypeInv, StageInv, WordsInv, NEW a \in Programs, Stop(a)
    PROVE  WordsInv'
<1>1. PICK overtaken : overtaken = (job[a].at \in {"fill", "write"})
  OBVIOUS
<1>2. /\ Beside(a) /\ job'[a] = Off
      /\ overtaken =>
            \A b \in Programs \ {a} : job'[b].contested \/ job[b].at \in {"off", "up"} \/ InPass(b)
      /\ ~overtaken => word' = Unsaid(a)
      /\ overtaken => word' = [p \in Plugins |-> "unknown"]
  BY <1>1, StopEffect DEF Beside
<1>3. UNCHANGED <<dir, registry, settings>>
  BY DEF Stop, files, history
<1>4. \A p : ~Changing(a, p)'
  BY <1>2, IdleFields DEF Changing
<1>5. ASSUME ~overtaken, NEW p \in External
      PROVE  word'[p] = IF Changing(a, p) THEN "unknown" ELSE word[p]
  BY <1>2, <1>5 DEF Unsaid, External
<1>6. RegistryOpen' => RegistryOpen
  BY <1>2, IdleFields DEF RegistryOpen, Beside, Kept
<1>7. SettingsOpen' => SettingsOpen
  BY <1>2, IdleFields DEF SettingsOpen, Beside, Kept
<1>8. RivalInv'
  BY <1>2, <1>4, IdleFields, RivalsSame DEF WordsInv
<1>9. ASSUME NEW p \in External, Settled(p)' PROVE Settled(p)
  <2>1. CASE overtaken
    <3>1. Changing(a, p)'
      BY <1>2, <1>9, <2>1, DoubtedSettled
    <3> QED
      BY <1>4, <3>1
  <2>2. CASE ~overtaken /\ ~Changing(a, p)
    BY <1>2, <1>4, <1>5, <1>9, <2>2, SettledKept
  <2>3. CASE ~overtaken /\ Changing(a, p)
    <3>1. word'[p] = "unknown" /\ p \in Plugins
      BY <1>5, <2>3 DEF External
    <3>2. PICK b \in Programs : Changing(b, p)' /\ ~job'[b].contested
      BY <1>9, <3>1 DEF Settled
    <3>3. b # a /\ Changing(b, p) /\ ~job[b].contested
      BY <1>2, <1>4, <3>2, ChangingKept DEF Beside
    <3> QED
      BY <2>3, <3>1, <3>3, Rivals DEF WordsInv
  <2> QED
    BY <2>1, <2>2, <2>3
<1>10. Held(a)' /\ HeldSettings(a)'
  BY <1>2, IdleFields DEF Held, Holder, HeldSettings
<1>11. HeldInv'
  BY <1>2, <1>3, <1>6, <1>9, <1>10, HeldKept DEF HeldInv, WordsInv
<1>12. HeldSettingsInv'
  BY <1>2, <1>3, <1>7, <1>10, HeldSettingsKept DEF HeldSettingsInv, WordsInv
<1>13. ChangeInv' /\ WordInv'
  <2>1. CASE overtaken
    BY <1>2, <1>4, <2>1, WordsDoubted
  <2>2. CASE ~overtaken
    <3>1. /\ \A p \in External : (Whole(p) => Whole(p)') /\ (Absent(p) => Absent(p)')
          /\ \A p \in External : \A s : Enabled(p, s) => Enabled(p, s)'
      BY <1>1, <1>2, <1>3, <2>2, IdleFields, FilesKept
    <3>2. ASSUME NEW p \in External, Changing(a, p) PROVE Rest(p)'
      BY <1>5, <2>2, <3>2 DEF Rest
    <3>3. \A p \in External : ~Changing(a, p) => word'[p] = word[p]
      BY <1>5, <2>2
    <3> QED
      BY <1>2, <1>3, <1>4, <1>8, <3>1, <3>2, <3>3, WordsKept
  <2> QED
    BY <2>1, <2>2
<1> QED
  BY <1>8, <1>11, <1>12, <1>13 DEF WordsInv

\* Nothing of what is said above speaks of the sources.
LEMMA SourcesWords ==
    ASSUME WordsInv, UNCHANGED <<dir, registry, settings, job, word>>
    PROVE  WordsInv'
<1>1. \A a : InPass(a)' = InPass(a)
  BY DEF InPass
<1>2. \A a, p : Changing(a, p)' = Changing(a, p)
  BY <1>1 DEF Changing
<1>3. RegistryOpen' = RegistryOpen /\ Sure' = Sure
  BY DEF RegistryOpen, Sure
<1>4. SettingsOpen' = SettingsOpen /\ SettingsSure' = SettingsSure
  BY DEF SettingsOpen, SettingsSure
<1>5. \A r : WillRecord(r)' = WillRecord(r)
  BY <1>3 DEF WillRecord
<1>6. \A s : WillEnable(s)' = WillEnable(s)
  BY <1>4 DEF WillEnable
<1>7. \A p : Whole(p)' = Whole(p) /\ Absent(p)' = Absent(p)
  BY <1>3, <1>5 DEF Whole, Absent
<1>8. \A p, s : Enabled(p, s)' = Enabled(p, s)
  BY <1>4, <1>6 DEF Enabled
<1>9. \A a : Wrote(a)' = Wrote(a) /\ Holder(a)' = Holder(a)
  BY DEF Wrote, Holder
<1>10. \A p : Settled(p)' = Settled(p)
  BY <1>2, <1>9 DEF Settled
<1>11. \A a, p : Agrees(a, p)' = Agrees(a, p)
  BY <1>1, <1>2, <1>10 DEF Agrees
<1>12. RivalInv'
  BY <1>2 DEF WordsInv, RivalInv
<1>13. HeldInv'
  BY <1>3, <1>9, <1>11 DEF WordsInv, HeldInv, Held
<1>14. HeldSettingsInv'
  BY <1>4 DEF WordsInv, HeldSettingsInv, HeldSettings
<1>15. ChangeInv'
  <2> SUFFICES ASSUME NEW a \in Programs, NEW p \in External,
                      Changing(a, p), ~job[a].contested
               PROVE  Change(a, p)'
    BY <1>2 DEF ChangeInv
  <2>1. Change(a, p)
    BY DEF WordsInv, ChangeInv
  <2>2. Enabled(p, word[p])' = Enabled(p, word[p])
    <3>1. PICK s : s = word[p]
      OBVIOUS
    <3> QED
      BY <1>8, <3>1 DEF Enabled
  <2> QED
    BY <1>7, <1>9, <2>1, <2>2 DEF Change
<1>16. WordInv'
  <2> SUFFICES ASSUME NEW p \in External, \A a \in Programs : ~Changing(a, p)
               PROVE  Rest(p)'
    BY <1>2 DEF WordInv
  <2>1. Rest(p)
    BY DEF WordsInv, WordInv
  <2>2. Enabled(p, word[p])' = Enabled(p, word[p])
    <3>1. PICK s : s = word[p]
      OBVIOUS
    <3> QED
      BY <1>8, <3>1 DEF Enabled
  <2> QED
    BY <1>7, <1>8, <2>1, <2>2 DEF Rest
<1> QED
  BY <1>12, <1>13, <1>14, <1>15, <1>16 DEF WordsInv

LEMMA StepWords ==
    ASSUME TypeInv, StageInv, WordsInv, NEW a \in Programs, Step(a)
    PROVE  WordsInv'
<1>1. CASE \/ Start(a) \/ Found(a)
           \/ \E what \in {"install", "update", "uninstall", "enable", "disable"}, p \in Plugins :
                 Command(a, what, p)
  <2>1. Start(a) \/ Found(a) \/ \E p \in Plugins, what \in Asks : Command(a, what, p)
    BY <1>1, Zenon DEF Asks
  <2> QED
    BY <2>1, StartWords
<1>2. CASE Fetch(a)
  BY <1>2, FetchWords
<1>3. CASE Find(a)
  BY <1>3, FindWords
<1>4. CASE Known(a)
  BY <1>4, KnownWords
<1>5. CASE Clear(a)
  BY <1>5, ClearWords
<1>6. CASE Copy(a) \/ CopyOver(a)
  BY <1>6, CopyWords, CopyOverWords
<1>7. CASE Load(a)
  BY <1>7, LoadWords
<1>8. CASE Store(a)
  BY <1>8, StoreWords
<1>9. CASE Fill(a)
  BY <1>9, FillWords
<1>10. CASE Settings(a)
  BY <1>10, SettingsWords
<1>11. CASE Empty(a)
  BY <1>11, EmptyWords
<1>12. CASE Write(a)
  BY <1>12, WriteWords
<1>13. CASE Sync(a) \/ Synced(a) \/ \E p \in Plugins : SyncOne(a, p)
  BY <1>13, PassWords
<1>14. CASE Discover(a)
  BY <1>14, DiscoverWords
<1>15. CASE Stop(a)
  BY <1>15, StopWords
<1> QED
  BY <1>1, <1>2, <1>3, <1>4, <1>5, <1>6, <1>7, <1>8, <1>9, <1>10, <1>11, <1>12, <1>13, <1>14,
     <1>15, Zenon DEF Step

LEMMA InitWords == Init => WordsInv
<1> SUFFICES ASSUME Init PROVE WordsInv
  OBVIOUS
<1>1. /\ \A a \in Programs : job[a] = Off
      /\ \A p \in Plugins : dir[p] = {} /\ word[p] = "gone"
      /\ registry = NoRecords /\ settings = NoSettings
  BY DEF Init
<1>2. ASSUME NEW a \in Programs
      PROVE  /\ job[a].at = "off" /\ Held(a) /\ HeldSettings(a)
             /\ \A p : ~Changing(a, p)
  BY <1>1, IdleFields DEF Held, Holder, HeldSettings, Changing
<1>3. ~RegistryOpen /\ ~SettingsOpen
  BY <1>2 DEF RegistryOpen, SettingsOpen
<1>4. ASSUME NEW p \in External PROVE Rest(p)
  <2>1. registry[p] = 0 /\ settings[p] = "unset" /\ dir[p] = {} /\ word[p] = "gone"
    BY <1>1 DEF External, NoRecords, NoSettings
  <2>2. Absent(p)
    BY <1>3, <2>1 DEF Absent, WillRecord
  <2>3. Enabled(p, "unset")
    BY <1>3, <2>1 DEF Enabled, WillEnable
  <2> QED
    BY <2>1, <2>2, <2>3 DEF Rest
<1> QED
  BY <1>2, <1>4 DEF WordsInv, RivalInv, HeldInv, HeldSettingsInv, ChangeInv, WordInv

LEMMA NextWords == PassInv /\ WordsInv /\ [Next]_vars => WordsInv'
<1> SUFFICES ASSUME TypeInv, StageInv, WordsInv, [Next]_vars PROVE WordsInv'
  BY DEF PassInv
<1>1. CASE \E a \in Programs : Step(a)
  BY <1>1, StepWords
<1>2. CASE UNCHANGED vars \/ \E p \in Plugins : Published(p) \/ Upgraded(p)
  <2>1. UNCHANGED <<dir, registry, settings, job, word>>
    BY <1>2 DEF vars, files, history, Published, Upgraded
  <2> QED
    BY <2>1, SourcesWords
<1> QED
  BY <1>1, <1>2 DEF Next

\* The last command has the last word.  Whatever other plugins, other programs, crashes and
\* repairs did since, an installed plugin that nobody is changing is whole, recorded and on
\* or off as the user said, and of one uninstalled nothing is left, unless a write of
\* installed.json or settings.json was overtaken or cut short (store_registry,
\* write_enabled_state).
THEOREM LastWordKept == Spec => []LastWordHolds
<1>1. PassInv /\ WordsInv => LastWordHolds
  <2> SUFFICES ASSUME TypeInv, WordsInv, ~RegistryOpen, ~SettingsOpen, NEW p \in External,
                      \A a \in Programs : ~Changing(a, p)
               PROVE  /\ word[p] = "gone" =>
                            dir[p] = {} /\ registry[p] = 0 /\ settings[p] = "unset"
                      /\ word[p] \in {"on", "off"} =>
                            /\ registry[p] # 0 /\ dir[p] = Contents(registry[p])
                            /\ settings[p] = word[p]
    BY DEF LastWordHolds, PassInv
  <2>1. Rest(p)
    BY DEF WordsInv, WordInv
  <2>2. registry \in Records /\ Sure /\ WillRecord(registry)
    BY DEF TypeInv, Sure, RegistryOpen, WillRecord
  <2>3. settings \in Enablings /\ SettingsSure /\ WillEnable(settings)
    BY DEF TypeInv, SettingsSure, SettingsOpen, WillEnable
  <2>4. /\ Absent(p) => dir[p] = {} /\ registry[p] = 0
        /\ Whole(p) => registry[p] # 0 /\ dir[p] = Contents(registry[p])
    BY <2>2 DEF Absent, Whole
  <2>5. \A s : Enabled(p, s) => settings[p] = s
    BY <2>3 DEF Enabled
  <2> QED
    BY <2>1, <2>4, <2>5 DEF Rest
<1> QED
  BY <1>1, InitPass, InitWords, NextPass, NextWords, PTL DEF Spec

=============================================================================
