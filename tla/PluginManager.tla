--------------------------- MODULE PluginManager ---------------------------
(***************************************************************************)
(* Plugins on disk (plugins/src/lib.rs): the install directories,          *)
(* installed.json and the enabledPlugins of settings.json, as the /plugins *)
(* commands change them (commands/src/handlers.rs) and every start and     *)
(* reload of a program repairs them (main.rs, cli_args.rs).  The files are *)
(* the user's, shared by all programs and locked by none, fs::write        *)
(* empties a file before it fills it, and a program whose step fails ends, *)
(* leaving the disk as it is: Stop is that error and a crash alike.        *)
(***************************************************************************)
EXTENDS Naturals, FiniteSets

CONSTANTS Programs,
          Plugins,    \* plugins by id, each with its install directory
          Bundled,    \* those that come with the program; the others are external
          Nobody,     \* no plugin
          MaxVersion, \* bound: versions of a plugin
          MaxCommands \* bound: starts of a program, its upgrades and /plugins commands

ASSUME PluginsAssumption == Bundled \subseteq Plugins /\ Nobody \notin Plugins
ASSUME SizesAssumption == MaxVersion \in Nat \ {0} /\ MaxCommands \in Nat

VARIABLES source,   \* the version each plugin's source holds, 0 for none
          dir,      \* the install directories
          registry, \* installed.json: the version recorded, 0 for none
          settings, \* enabledPlugins
          job,      \* what each program does
          commands, \* starts, upgrades and commands
          word,     \* what the last command said of each plugin (history)
          torn      \* bundled plugins whose last copy was given up halfway (history)

files == <<registry, settings>>
history == <<word, torn>>
vars == <<source, dir, files, job, commands, history>>

External == Plugins \ Bundled
Versions == 1 .. MaxVersion
NoRecords == [p \in Plugins |-> 0]
NoSettings == [p \in Plugins |-> "unset"]

\* How much of a version is in a directory: its plugin.json is there, perhaps cut short; it
\* is whole, and the files it names are there; all the other files are there, and whole.
Parts == {"manifest", "checked", "rest"}
Contents(v) == Parts \X {v}
HasManifest(d) == \E v \in Versions : <<"manifest", v>> \in d

\* load_plugin_from_directory: the manifest parses, and the files that it names exist; it
\* does not look into them, or for others.
LoadsAs(d, v) == {"manifest", "checked"} \X {v} \subseteq d
Loads(d) == \E v \in Versions : LoadsAs(d, v)
Broken(d) == HasManifest(d) /\ ~Loads(d)

Off == [what |-> "none", plugin |-> Nobody, at |-> "off", then |-> "off", item |-> Nobody,
        version |-> 0, landed |-> {}, copy |-> NoRecords, set |-> NoSettings,
        passing |-> FALSE, todo |-> {}, old |-> FALSE, disturbed |-> FALSE,
        contested |-> FALSE]
Ready == [Off EXCEPT !.at = "up"]

Init ==
    /\ source = [p \in Plugins |-> 1]
    /\ dir = [p \in Plugins |-> {}]
    /\ registry = NoRecords /\ settings = NoSettings
    /\ job = [a \in Programs |-> Off]
    /\ commands = 0
    /\ word = [p \in Plugins |-> "gone"] /\ torn = {}

InPass(a) == job[a].passing

\* The program is in the steps of a command that change its plugin.
Changing(a, p) ==
    /\ job[a].plugin = p /\ ~InPass(a)
    /\ job[a].at \notin {"off", "up", "fetch", "find", "known"}

\* A file being rewritten is empty meanwhile, and reads as if nothing were in it.
RegistryOpen == \E a \in Programs : job[a].at = "fill"
SettingsOpen == \E a \in Programs : job[a].at = "write"

\* What the others hold of the file that a writes is no longer what it says.
Holds(b, file) ==
    IF file = "settings" THEN job[b].at \in {"empty", "write"}
    ELSE job[b].at \in {"fetch", "clear", "copy", "store", "fill", "bundled"}
Touching(a, file, mine) ==
    [b \in Programs |->
        IF b = a THEN mine
        ELSE [job[b] EXCEPT !.disturbed = InPass(b),
                            !.old = @ \/ Holds(b, file)]]

\* A write that overtakes another, or is cut short, leaves every word in doubt.
InDoubt(a, doing) ==
    /\ job' = [b \in Programs |->
                 IF b = a \/ doing[b].at \in {"off", "up"} \/ InPass(b) THEN doing[b]
                 ELSE [doing[b] EXCEPT !.contested = TRUE]]
    /\ word' = [p \in Plugins |-> "unknown"]
Writes(a, overtaken, doing, said) ==
    IF overtaken THEN InDoubt(a, doing) ELSE job' = doing /\ word' = said

Does(a, mine) == job' = [job EXCEPT ![a] = mine]

\* A pass over the plugins: installed_plugin_registry_report or plugin_registry_report.
\* Where the code makes two in a row (list and reload, resolve and ensure_known_plugin)
\* there is one here: a pass finds nothing left to do after another (PassRepairs).
Pass(what, p) ==
    [Off EXCEPT !.what = what, !.plugin = p, !.at = "sync", !.passing = TRUE]

-----------------------------------------------------------------------------
(* What the user asks for.                                                 *)

\* The start of a program builds the runtime from plugin_registry; /plugins list is the
\* same pass again.
Start(a) ==
    /\ job[a].at \in {"off", "up"} /\ commands < MaxCommands
    /\ commands' = commands + 1
    /\ Does(a, Pass("list", Nobody))
    /\ UNCHANGED <<source, dir, files, history>>

\* handle_plugins_slash_command; resolve_plugin_target and ensure_known_plugin look first.
Command(a, what, p) ==
    /\ job[a].at = "up" /\ commands < MaxCommands
    /\ commands' = commands + 1
    /\ LET asked == [Ready EXCEPT !.what = what, !.plugin = p]
       IN  \/ what = "install" /\ p \in External /\ Does(a, [asked EXCEPT !.at = "fetch"])
           \/ what \in {"update", "uninstall"} /\ Does(a, [asked EXCEPT !.at = "find"])
           \/ what \in {"enable", "disable"} /\ Does(a, Pass(what, p))
    /\ UNCHANGED <<source, dir, files, history>>

\* The author of an external plugin publishes a version, never while it is being copied.  As
\* Fetch alone reads it, it need not be there before a program is about to fetch it.
Published(p) ==
    /\ p \in External /\ source[p] < MaxVersion
    /\ \E a \in Programs : job[a].at = "fetch" /\ job[a].plugin = p
    /\ \A a \in Programs :
          job[a].at \in {"clear", "copy"} /\ job[a].item = p => job[a].what = "uninstall"
    /\ source' = [source EXCEPT ![p] = @ + 1]
    /\ UNCHANGED <<dir, files, job, commands, history>>

\* Another version of the program is put in place, with newer bundled plugins or fewer.
Upgraded(p) ==
    /\ p \in Bundled /\ source[p] # 0 /\ commands < MaxCommands
    /\ \A a \in Programs : job[a].at = "off"
    /\ \E v \in {0} \cup (source[p] + 1 .. MaxVersion) : source' = [source EXCEPT ![p] = v]
    /\ UNCHANGED <<dir, files, job, history>>
    /\ commands' = commands + 1

-----------------------------------------------------------------------------
(* install, update, uninstall, enable and disable.                         *)

\* The program begins to change its plugin; two at once are told apart.
Began(a, mine) ==
    LET rivals == {b \in Programs \ {a} : Changing(b, mine.plugin)}
    IN  job' = [b \in Programs |->
                  IF b = a THEN [mine EXCEPT !.contested = rivals # {}]
                  ELSE [job[b] EXCEPT !.contested = @ \/ b \in rivals]]

\* parse_install_source, materialize_source and the staged plugin's manifest.
Fetch(a) ==
    LET j == job[a]
    IN  /\ j.at = "fetch" /\ source[j.plugin] # 0
        /\ Began(a, [j EXCEPT !.at = "clear", !.item = j.plugin, !.version = source[j.plugin]])
        /\ UNCHANGED <<source, dir, files, commands, history>>

\* load_registry and the record; a bundled plugin is not uninstalled.
Find(a) ==
    LET j == job[a]
        found == [j EXCEPT !.copy = registry, !.old = RegistryOpen]
    IN  /\ j.at = "find" /\ registry[j.plugin] # 0
        /\ \/ j.what = "update" /\ Does(a, [found EXCEPT !.at = "fetch"])
           \/ /\ j.what = "uninstall" /\ j.plugin \in External
              /\ Began(a, [found EXCEPT !.at = "clear", !.item = j.plugin])
        /\ UNCHANGED <<source, dir, files, commands, history>>

\* A plugin is known by its id: a bundled one needs its record to have it.
Known(a) ==
    LET j == job[a]
    IN  /\ j.at = "known" /\ Loads(dir[j.plugin])
        /\ j.plugin \in Bundled => registry[j.plugin] # 0
        /\ Began(a, [j EXCEPT !.at = "settings"])
        /\ UNCHANGED <<source, dir, files, commands, history>>

\* What follows when the directory is gone: nothing, or the copy of the new one.
Cleared(a) ==
    LET j == job[a]
        forgotten == [j EXCEPT !.copy[j.item] = 0, !.item = Nobody, !.version = 0]
    IN  CASE InPass(a) /\ source[j.item] = 0 ->
                [forgotten EXCEPT !.at = "bundled"]
          [] j.what = "uninstall" /\ ~InPass(a) ->
                [forgotten EXCEPT !.at = "store", !.then = "settings"]
          [] OTHER -> [j EXCEPT !.at = "copy"]

\* A copy that begins from nothing makes up for what was given up.
Renewed(a) ==
    torn' = IF Cleared(a).at = "copy" THEN torn \ {job[a].item} ELSE torn

\* Mutant: what is copied goes over what is there.
ClearNothing(a) ==
    LET j == job[a]
    IN  /\ j.at = "clear"
        /\ dir' = [dir EXCEPT ![j.item] = IF Cleared(a).at = "copy" THEN @ ELSE {}]
        /\ job' = Touching(a, "dir", Cleared(a))
        /\ Renewed(a)
        /\ UNCHANGED <<source, files, commands, word>>

\* What may be left when some files of d were removed.
Remains(d, left) ==
    \A v \in Versions :
        /\ <<"checked", v>> \in left => <<"manifest", v>> \in left
        /\ {<<"manifest", v>>, <<"rest", v>>} \subseteq left /\ <<"checked", v>> \in d =>
              <<"checked", v>> \in left

\* remove_dir_all, entry by entry.
Clear(a) ==
    LET j == job[a]
        d == dir[j.item]
    IN  /\ j.at = "clear"
        /\ \E left \in SUBSET d :
              /\ left = d => left = {}
              /\ Remains(d, left)
              /\ dir' = [dir EXCEPT ![j.item] = left]
              /\ job' = Touching(a, "dir", IF left = {} THEN Cleared(a) ELSE j)
              /\ IF left = {} THEN Renewed(a) ELSE UNCHANGED torn
        /\ UNCHANGED <<source, files, commands, word>>

Copied(a) ==
    LET j == [job[a] EXCEPT !.landed = {}]
        noted == [j EXCEPT !.copy[j.item] = j.version, !.item = Nobody, !.version = 0]
    IN  CASE InPass(a) -> [noted EXCEPT !.at = "bundled"]
          [] j.what = "update" /\ ~InPass(a) -> [noted EXCEPT !.at = "store", !.then = "told"]
          [] OTHER -> [j EXCEPT !.at = "load"]

\* A file is emptied, also one that another program had copied, and then filled.
Landed(d, part, v) ==
    CASE part = "manifest" ->
            (d \ ({"manifest", "checked"} \X Versions)) \cup {<<"manifest", v>>}
      [] part = "checked" -> IF <<"manifest", v>> \in d THEN d \cup {<<"checked", v>>} ELSE d
      [] part = "rest" -> d \cup {<<"rest", v>>}

\* copy_dir_all, in the order in which read_dir lists the source.
Copy(a) ==
    LET j == job[a]
        d == dir[j.item]
    IN  /\ j.at = "copy"
        /\ \E part \in Parts \ j.landed :
              /\ part = "checked" => "manifest" \in j.landed
              /\ dir' = [dir EXCEPT ![j.item] = Landed(d, part, j.version)]
              /\ LET mine == [j EXCEPT !.landed = @ \cup {part}]
                 IN  job' = Touching(a, "dir", IF mine.landed = Parts THEN Copied(a) ELSE mine)
        /\ UNCHANGED <<source, files, commands, history>>

\* A file that another program had copied is emptied.
CopyOver(a) ==
    LET j == job[a]
        there == <<"rest", j.version>>
    IN  /\ j.at = "copy" /\ "rest" \notin j.landed /\ there \in dir[j.item]
        /\ dir' = [dir EXCEPT ![j.item] = @ \ {there}]
        /\ job' = Touching(a, "dir", j)
        /\ UNCHANGED <<source, files, commands, history>>

\* Mutant: install writes a registry with its own record alone.
LoadAfresh(a) ==
    LET j == job[a]
    IN  /\ j.at = "load"
        /\ Does(a, [j EXCEPT !.at = "store", !.then = "settings", !.item = Nobody, !.version = 0,
                             !.copy = [NoRecords EXCEPT ![j.plugin] = j.version],
                             !.old = RegistryOpen])
        /\ UNCHANGED <<source, dir, files, commands, history>>

Load(a) ==
    LET j == job[a]
    IN  /\ j.at = "load"
        /\ Does(a, [j EXCEPT !.at = "store", !.then = "settings", !.item = Nobody, !.version = 0,
                             !.copy = [registry EXCEPT ![j.plugin] = j.version],
                             !.old = RegistryOpen])
        /\ UNCHANGED <<source, dir, files, commands, history>>

\* store_registry.
Store(a) ==
    LET j == job[a]
    IN  /\ j.at = "store"
        /\ registry' = NoRecords
        /\ Writes(a, j.old \/ RegistryOpen,
                  Touching(a, "registry", [j EXCEPT !.at = "fill", !.old = FALSE]), word)
        /\ UNCHANGED <<source, dir, settings, commands, torn>>

Fill(a) ==
    LET j == job[a]
    IN  /\ j.at = "fill"
        /\ registry' = j.copy
        /\ Writes(a, j.old,
                  Touching(a, "registry",
                           IF j.then = "told" THEN Pass("list", Nobody)
                           ELSE [j EXCEPT !.at = j.then, !.then = "off", !.copy = NoRecords,
                                          !.old = FALSE]),
                  IF j.then = "told" /\ j.contested
                  THEN [word EXCEPT ![j.plugin] = "unknown"] ELSE word)
        /\ UNCHANGED <<source, dir, settings, commands, torn>>

\* write_enabled_state with update_settings_json.
Wanted(j) ==
    CASE j.what \in {"install", "enable"} -> "on"
      [] j.what = "disable" -> "off"
      [] j.what = "uninstall" -> "unset"

Settings(a) ==
    LET j == job[a]
    IN  /\ j.at = "settings"
        /\ Does(a, [j EXCEPT !.at = "empty", !.old = SettingsOpen,
                             !.set = [settings EXCEPT ![j.plugin] = Wanted(j)]])
        /\ UNCHANGED <<source, dir, files, commands, history>>

Empty(a) ==
    LET j == job[a]
    IN  /\ j.at = "empty"
        /\ settings' = NoSettings
        /\ Writes(a, j.old \/ SettingsOpen,
                  Touching(a, "settings", [j EXCEPT !.at = "write", !.old = FALSE]), word)
        /\ UNCHANGED <<source, dir, registry, commands, torn>>

\* What the command said of its plugin: an install and an uninstall settle it.
Said(j) ==
    IF j.contested THEN "unknown"
    ELSE CASE j.what = "install" -> "on"
           [] j.what = "uninstall" -> "gone"
           [] j.what \in {"enable", "disable"} ->
                 IF word[j.plugin] \in {"on", "off"} THEN Wanted(j) ELSE word[j.plugin]

Write(a) ==
    LET j == job[a]
    IN  /\ j.at = "write"
        /\ settings' = j.set
        /\ Writes(a, j.old,
                  Touching(a, "settings", Pass("list", Nobody)),
                  [word EXCEPT ![j.plugin] = Said(j)])
        /\ UNCHANGED <<source, dir, registry, commands, torn>>

-----------------------------------------------------------------------------
(* A pass: sync_bundled_plugins, discover_installed_plugins_with_failures. *)

NeedsSync(p) == registry[p] # source[p] \/ (source[p] # 0 /\ ~Loads(dir[p]))

\* The registry and the bundled plugins are read, and what differs is to be done again.
Sync(a) ==
    LET j == job[a]
        due == {p \in Bundled : NeedsSync(p)}
    IN  /\ j.at = "sync"
        /\ Does(a, IF due = {} THEN [j EXCEPT !.at = "discover", !.disturbed = RegistryOpen]
                   ELSE [j EXCEPT !.at = "bundled", !.todo = due, !.copy = registry,
                                  !.old = RegistryOpen, !.disturbed = RegistryOpen])
        /\ UNCHANGED <<source, dir, files, commands, history>>

\* Those that are there are brought up to date, and then those withdrawn are removed.
SyncOne(a, p) ==
    LET j == job[a]
    IN  /\ j.at = "bundled" /\ p \in j.todo
        /\ source[p] = 0 => \A q \in j.todo : source[q] = 0
        /\ Does(a, [j EXCEPT !.at = "clear", !.todo = @ \ {p}, !.item = p, !.version = source[p]])
        /\ UNCHANGED <<source, dir, files, commands, history>>

Synced(a) ==
    /\ job[a].at = "bundled" /\ job[a].todo = {}
    /\ Does(a, [job[a] EXCEPT !.at = "store", !.then = "discover"])
    /\ UNCHANGED <<source, dir, files, commands, history>>

\* Records whose directory has no manifest are dropped; a directory that does not load
\* makes the whole pass an error (into_registry).
Discover(a) ==
    LET j == job[a]
        backed == [p \in Plugins |-> IF HasManifest(dir[p]) THEN registry[p] ELSE 0]
        outcome == IF \E p \in Plugins : Broken(dir[p]) THEN "refused" ELSE "found"
    IN  /\ j.at = "discover"
        /\ Does(a, IF backed = registry THEN [j EXCEPT !.at = outcome]
                   ELSE [j EXCEPT !.at = "store", !.then = outcome,
                                  !.copy = backed, !.old = RegistryOpen])
        /\ UNCHANGED <<source, dir, files, commands, history>>

\* enable and disable look first and then write; every command ends with a reload.
Found(a) ==
    LET j == job[a]
    IN  /\ j.at = "found"
        /\ Does(a, IF j.what = "list" THEN Ready
                   ELSE [Ready EXCEPT !.what = j.what, !.plugin = j.plugin, !.at = "known"])
        /\ UNCHANGED <<source, dir, files, commands, history>>

\* The user quits, a step fails and the error ends the program, or it is killed.
Stop(a) ==
    LET j == job[a]
    IN  /\ j.at # "off"
        /\ Writes(a, j.at \in {"fill", "write"}, [job EXCEPT ![a] = Off],
                  [p \in Plugins |-> IF Changing(a, p) THEN "unknown" ELSE word[p]])
        /\ torn' = torn \cup ({j.item} \cap Bundled)
        /\ UNCHANGED <<source, dir, files, commands>>

Step(a) ==
    \/ Start(a) \/ Fetch(a) \/ Find(a) \/ Known(a) \/ Clear(a) \/ Copy(a) \/ CopyOver(a)
    \/ Load(a) \/ Store(a) \/ Fill(a) \/ Settings(a) \/ Empty(a) \/ Write(a)
    \/ Sync(a) \/ Synced(a) \/ Discover(a) \/ Found(a) \/ Stop(a)
    \/ \E p \in Plugins : SyncOne(a, p)
    \/ \E what \in {"install", "update", "uninstall", "enable", "disable"}, p \in Plugins :
          Command(a, what, p)

Next ==
    \/ \E a \in Programs : Step(a)
    \/ \E p \in Plugins : Published(p) \/ Upgraded(p)

Spec == Init /\ [][Next]_vars

-----------------------------------------------------------------------------

\* Every variable has its type.
TypeOK ==
    /\ source \in [Plugins -> 0 .. MaxVersion]
    /\ dir \in [Plugins -> SUBSET UNION {Contents(v) : v \in Versions}]
    /\ registry \in [Plugins -> 0 .. MaxVersion]
    /\ settings \in [Plugins -> {"unset", "on", "off"}]
    /\ commands \in 0 .. MaxCommands
    /\ word \in [Plugins -> {"gone", "on", "off", "unknown"}]
    /\ torn \subseteq Bundled
    /\ \A a \in Programs :
          /\ job[a].copy \in [Plugins -> 0 .. MaxVersion]
          /\ job[a].landed \subseteq Parts
          /\ job[a].passing \in BOOLEAN /\ job[a].todo \subseteq Bundled
          /\ job[a].at \in {"clear", "copy"} => job[a].item \in Plugins

\* The last command has the last word.  Once an external plugin is installed it is whole,
\* at the version recorded, and on or off as the user said; once uninstalled nothing is left
\* of it -- whatever other plugins, other programs, crashes and repairs did in between,
\* unless a write of installed.json or settings.json was overtaken or cut short.
LastWordHolds ==
    ~RegistryOpen /\ ~SettingsOpen =>
        \A p \in External :
            (\A a \in Programs : ~Changing(a, p)) =>
                /\ word[p] = "gone" => dir[p] = {} /\ registry[p] = 0 /\ settings[p] = "unset"
                /\ word[p] \in {"on", "off"} =>
                      /\ registry[p] # 0 /\ dir[p] = Contents(registry[p])
                      /\ settings[p] = word[p]

\* A pass repairs.  When a program has looked over the plugins undisturbed, the bundled ones
\* load at the version it came with and are recorded so, those withdrawn are off the record,
\* and every record has a plugin behind it, whatever was left half done before.  What loads
\* is whole too, but for a copy that some program has in hand, or gave up halfway.
UnderWay(p) == \E b \in Programs : job[b].at \in {"clear", "copy"} /\ job[b].item = p
PassRepairs ==
    \A a \in Programs :
        job[a].at \in {"found", "refused"} /\ ~job[a].disturbed =>
            /\ \A p \in Bundled :
                  /\ registry[p] = source[p]
                  /\ source[p] # 0 =>
                        /\ LoadsAs(dir[p], source[p])
                        /\ UnderWay(p) \/ p \in torn \/ dir[p] = Contents(source[p])
            /\ \A p \in Plugins : registry[p] # 0 => HasManifest(dir[p])

\* A pass leaves the bundled plugins whole, also where a copy was given up halfway (the copy
\* is called valid in sync_bundled_plugins).
PassCompletes ==
    \A a \in Programs :
        job[a].at \in {"found", "refused"} /\ ~job[a].disturbed =>
            \A p \in Bundled :
                source[p] # 0 /\ ~UnderWay(p) => dir[p] = Contents(source[p])

\* A program is refused its start, or a command its list, only for an external plugin whose
\* last command was cut short or is under way, or for what a withdrawn one left behind.
RefusedForCause ==
    \A a \in Programs :
        job[a].at = "refused" /\ ~job[a].disturbed =>
            \E p \in Plugins :
                /\ Broken(dir[p])
                /\ \/ p \in External /\ (word[p] = "unknown" \/ \E b \in Programs : Changing(b, p))
                   \/ p \in Bundled /\ source[p] = 0
=============================================================================
