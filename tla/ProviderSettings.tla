-------------------------- MODULE ProviderSettings --------------------------
(* `shinobi provider default`, `key` and `forget`, and how a question that *)
(* names no provider finds one: libexec/shinobi/shinobi_control/           *)
(* providerctl.py, and the file backend of credentials.py.                 *)
(*                                                                         *)
(* Every command is a process of its own.  They share the manifests, the   *)
(* three layers of the default setting, the key files with their temporary *)
(* files, and the audit journal, and nothing locks any of them.  Module    *)
(* SettingStore is what they promise together.                             *)
EXTENDS Naturals, Sequences

CONSTANTS
    Commands,   \* the processes
    Layers,     \* default_layers(): most specific first, "user" is the first
    Edited,     \* the layers that are edited while commands run
    Manifests,  \* the sets of manifest files that may be installed
    Providers,
    NeedsKey,   \* the providers whose manifest says requires_key
    Secrets,
    Unusable,   \* a setting that cannot be believed; a key that is refused
    Malformed,  \* a manifest that does not parse
    NoFile,
    Part,       \* a temporary key file that is not written yet
    MaxRuns     \* bound on the changes one process slot is asked for

(* provider_dirs(): a manifest file is in one of two directories.          *)
Files == [root: {"etc", "share"}, id: Providers \cup {Malformed}]

ASSUME SettingsAssumption ==
    /\ Layers \in Seq(STRING) /\ Layers # <<>> /\ Layers[1] = "user"
    /\ Edited \subseteq {Layers[n] : n \in 1..Len(Layers)}
    /\ Manifests \subseteq SUBSET Files
    /\ NeedsKey \subseteq Providers
    /\ MaxRuns \in Nat
    /\ {Unusable, NoFile, Part} \cap (Providers \cup Secrets) = {}
    /\ Unusable # NoFile /\ Part # NoFile /\ Part # Unusable
    /\ Malformed \notin Providers /\ "default" \notin Providers

VARIABLES
    manifests,  \* the manifest files: where each is, and whose it is
    setting,    \* setting[l]: the default provider file of the layer
    keyfile,    \* keyfile[p]: the stored key
    keytmp,     \* keytmp[p]: the temporary file a key is written to
    cmd,        \* cmd[c]: the command the process runs
    runs,       \* runs[c]: how many changes it has been asked for
    journal,    \* the changes in the audit journal
    held        \* history: held[c][l] is what layer l held during a question

files  == <<manifests, setting, keyfile, keytmp>>
pvars  == <<files, cmd, runs, journal, held>>

Idle == [at |-> "idle"]

LayerSet == {Layers[n] : n \in 1..Len(Layers)}
Settings == Providers \cup {Unusable, NoFile}

(* load_all(): all or nothing.                                             *)
Registry ==
    IF \E f, g \in manifests : f.id = Malformed \/ (f # g /\ f.id = g.id)
    THEN {}
    ELSE {f.id : f \in manifests}

-----------------------------------------------------------------------------
(* The commands.                                                           *)

Command(op, p, content, at) ==
    [at |-> at, op |-> op, provider |-> p, content |-> content, layer |-> 1]

Goto(c, at) == cmd' = [cmd EXCEPT ![c].at = at]

Begin(c, op, p, content, at) ==
    /\ cmd[c] = Idle
    /\ runs[c] < MaxRuns
    /\ cmd' = [cmd EXCEPT ![c] = Command(op, p, content, at)]
    /\ runs' = [runs EXCEPT ![c] = @ + 1]
    /\ UNCHANGED <<files, journal, held>>

ChangeSettings(c) ==
    \/ \E p \in Providers :
          \/ Begin(c, "default", p, p, "get")
          \/ \E secret \in Secrets \cup {Unusable} :
                Begin(c, "key", p, secret, "get")
          \/ Begin(c, "forget", p, NoFile, "unlink")
    \/ Begin(c, "clear", NoFile, NoFile, "unlink")

Asking(c) == cmd[c] # Idle /\ cmd[c].op = "ask"

(* A setting is replaced at once; the questions under way may see it.      *)
SetLayer(l, v) ==
    /\ setting' = [setting EXCEPT ![l] = v]
    /\ held' = [c \in Commands |->
                  IF Asking(c) THEN [held[c] EXCEPT ![l] = @ \cup {v}]
                  ELSE held[c]]

Failed(c) == Goto(c, "failed") /\ UNCHANGED <<files, runs, journal, held>>

(* get(), and for a key what main() and set_key() refuse.                  *)
Get(c) ==
    LET ok == /\ cmd[c].provider \in Registry
              /\ cmd[c].op = "key" => /\ cmd[c].provider \in NeedsKey
                                      /\ cmd[c].content # Unusable
    IN
    /\ cmd[c].at = "get"
    /\ \/ ok /\ Goto(c, "write") /\ UNCHANGED <<files, runs, journal, held>>
       \/ ~ok /\ Failed(c)

(* set_default(): a temporary file of its own, renamed over the setting.   *)
WriteDefault(c) ==
    /\ cmd[c].at = "write"
    /\ cmd[c].op = "default"
    /\ \/ /\ SetLayer("user", cmd[c].provider)
          /\ Goto(c, "record")
          /\ UNCHANGED <<manifests, keyfile, keytmp, runs, journal>>
       \/ Failed(c)

(* set_key(): O_EXCL on the one temporary file of the provider ...         *)
MutCreateTemp(c) ==                        \* O_TRUNC
    LET p == cmd[c].provider IN
    /\ cmd[c].at = "write"
    /\ cmd[c].op = "key"
    /\ keytmp' = [keytmp EXCEPT ![p] = Part]
    /\ Goto(c, "fill")
    /\ UNCHANGED <<manifests, setting, keyfile, runs, journal, held>>
CreateTemp(c) ==
    LET p == cmd[c].provider IN
    /\ cmd[c].at = "write"
    /\ cmd[c].op = "key"
    /\ \/ /\ keytmp[p] = NoFile
          /\ keytmp' = [keytmp EXCEPT ![p] = Part]
          /\ Goto(c, "fill")
          /\ UNCHANGED <<manifests, setting, keyfile, runs, journal, held>>
       \/ Failed(c)

(* ... written and synced ...                                              *)
FillTemp(c) ==
    LET p == cmd[c].provider IN
    /\ cmd[c].at = "fill"
    /\ \/ keytmp' = [keytmp EXCEPT ![p] = cmd[c].content] /\ Goto(c, "rename")
       \/ keytmp' = [keytmp EXCEPT ![p] = NoFile] /\ Goto(c, "failed")
    /\ UNCHANGED <<manifests, setting, keyfile, runs, journal, held>>

(* ... and renamed over the key.                                           *)
RenameTemp(c) ==
    LET p == cmd[c].provider IN
    /\ cmd[c].at = "rename"
    /\ \/ keyfile' = [keyfile EXCEPT ![p] = keytmp[p]] /\ Goto(c, "chmod")
       \/ UNCHANGED keyfile /\ Goto(c, "failed")
    /\ keytmp' = [keytmp EXCEPT ![p] = NoFile]
    /\ UNCHANGED <<manifests, setting, runs, journal, held>>

(* chmod() is outside the try: the key may have been forgotten by now, and *)
(* the command ends with a traceback.                                      *)
Chmod(c) ==
    /\ cmd[c].at = "chmod"
    /\ Goto(c, IF keyfile[cmd[c].provider] = NoFile THEN "failed"
                                                     ELSE "record")
    /\ UNCHANGED <<files, runs, journal, held>>

(* clear_default() and forget_key(): unlink, and nothing to record when    *)
(* there was nothing to remove.  forget_key() asks no manifest.            *)
Target(c) ==
    IF cmd[c].op = "clear" THEN setting["user"] ELSE keyfile[cmd[c].provider]

Unlink(c) ==
    /\ cmd[c].at = "unlink"
    /\ \/ /\ Target(c) # NoFile
          /\ IF cmd[c].op = "clear"
             THEN SetLayer("user", NoFile) /\ UNCHANGED keyfile
             ELSE keyfile' = [keyfile EXCEPT ![cmd[c].provider] = NoFile]
                  /\ UNCHANGED <<setting, held>>
          /\ Goto(c, "record")
          /\ UNCHANGED <<manifests, keytmp, runs, journal>>
       \/ /\ Target(c) = NoFile
          /\ Goto(c, "clean")
          /\ UNCHANGED <<files, runs, journal, held>>
       \/ Failed(c)

(* _record(): the change is made; exit 0 only if it is in the journal.     *)
SlotOf(command) ==
    IF command.op \in {"default", "clear"} THEN "default"
                                           ELSE command.provider

MutRecord(c) ==                            \* exits 0 all the same
    /\ cmd[c].at = "record"
    /\ Goto(c, "clean")
    /\ journal' \in {journal, journal \cup
                       {[command |-> c, run |-> runs[c],
                         slot |-> SlotOf(cmd[c]), content |-> cmd[c].content]}}
    /\ UNCHANGED <<files, runs, held>>
Record(c) ==
    /\ cmd[c].at = "record"
    /\ \/ /\ journal' = journal \cup
                {[command |-> c, run |-> runs[c], slot |-> SlotOf(cmd[c]),
                  content |-> cmd[c].content]}
          /\ Goto(c, "clean")
          /\ UNCHANGED <<files, runs, held>>
       \/ Failed(c)

-----------------------------------------------------------------------------
(* A question that names no provider.                                      *)

AskDefault(c) ==
    /\ cmd[c] = Idle
    /\ cmd' = [cmd EXCEPT ![c] = Command("ask", NoFile, NoFile, "layer")]
    /\ held' = [held EXCEPT ![c] = [l \in LayerSet |-> {setting[l]}]]
    /\ UNCHANGED <<files, runs, journal>>

(* default_provider(): one layer after the other, and the first that has   *)
(* the file decides, even when what it holds is of no use.                 *)
MutReadLayer(c) ==                         \* the first that is of use
    LET found == setting[Layers[cmd[c].layer]] IN
    /\ cmd[c].at = "layer"
    /\ cmd' = [cmd EXCEPT ![c] =
         IF found \in Registry
         THEN [@ EXCEPT !.at = "chosen", !.provider = found]
         ELSE IF cmd[c].layer < Len(Layers) THEN [@ EXCEPT !.layer = @ + 1]
         ELSE [@ EXCEPT !.at = "failed"]]
    /\ UNCHANGED <<files, runs, journal, held>>
ReadLayer(c) ==
    LET found == setting[Layers[cmd[c].layer]] IN
    /\ cmd[c].at = "layer"
    /\ \/ /\ found = NoFile
          /\ cmd[c].layer < Len(Layers)
          /\ cmd' = [cmd EXCEPT ![c].layer = @ + 1]
       \/ /\ found \in Registry
          /\ cmd' = [cmd EXCEPT ![c].at = "chosen", ![c].provider = found]
       \/ /\ found \notin Registry
          /\ found = NoFile => cmd[c].layer = Len(Layers)
          /\ Goto(c, "failed")
    /\ UNCHANGED <<files, runs, journal, held>>

(* _provider_for(): the manifest is loaded again, by its id.               *)
LoadManifest(c) ==
    /\ cmd[c].at = "chosen"
    /\ Goto(c, IF cmd[c].provider \in Registry THEN "clean" ELSE "failed")
    /\ UNCHANGED <<files, runs, journal, held>>

(* The command exits, or is killed where it is.                            *)
Leave(c) ==
    /\ cmd[c] # Idle
    /\ cmd' = [cmd EXCEPT ![c] = Idle]
    /\ held' = [held EXCEPT ![c] = [l \in LayerSet |-> {}]]
    /\ UNCHANGED <<files, runs, journal>>

CommandStep(c) ==
    \/ Get(c) \/ WriteDefault(c) \/ CreateTemp(c) \/ FillTemp(c)
    \/ RenameTemp(c) \/ Chmod(c) \/ Unlink(c) \/ Record(c)
    \/ ReadLayer(c) \/ LoadManifest(c)

-----------------------------------------------------------------------------
(* Packages, administrators and editors.                                   *)

ChangeManifests ==
    /\ manifests' \in Manifests
    /\ UNCHANGED <<setting, keyfile, keytmp, cmd, runs, journal, held>>

EditSetting ==
    /\ \E l \in Edited, v \in Settings : SetLayer(l, v)
    /\ UNCHANGED <<manifests, keyfile, keytmp, cmd, runs, journal>>

(* The message of set_key() says to remove a stale temporary file.         *)
Writing(p) == {c \in Commands : /\ cmd[c].at \in {"fill", "rename"}
                                /\ cmd[c].provider = p}

RemoveStale(p) ==
    /\ keytmp[p] # NoFile
    /\ Writing(p) = {}
    /\ keytmp' = [keytmp EXCEPT ![p] = NoFile]
    /\ UNCHANGED <<manifests, setting, keyfile, cmd, runs, journal, held>>

Init ==
    /\ manifests \in Manifests
    /\ setting \in [LayerSet -> Settings]
    /\ keyfile = [p \in Providers |-> NoFile]
    /\ keytmp = [p \in Providers |-> NoFile]
    /\ cmd = [c \in Commands |-> Idle]
    /\ runs = [c \in Commands |-> 0]
    /\ journal = {}
    /\ held = [c \in Commands |-> [l \in LayerSet |-> {}]]

Next ==
    \/ \E c \in Commands : \/ ChangeSettings(c) \/ AskDefault(c)
                           \/ CommandStep(c) \/ Leave(c)
    \/ ChangeManifests \/ EditSetting
    \/ \E p \in Providers : RemoveStale(p)

Spec == Init /\ [][Next]_pvars

-----------------------------------------------------------------------------
(* Properties.                                                             *)

ChangeStages == {"get", "write", "fill", "rename", "chmod", "unlink",
                 "record", "clean", "failed"}

(* A stored key is a whole secret, whatever becomes of its writers: the    *)
(* unfinished content of a temporary file is never in its place.           *)
SettingsTypeOK ==
    /\ manifests \in Manifests
    /\ setting \in [LayerSet -> Settings]
    /\ keyfile \in [Providers -> Secrets \cup {NoFile}]
    /\ keytmp \in [Providers -> Secrets \cup {Part, NoFile}]
    /\ cmd \in [Commands -> {Idle} \cup
          [at: ChangeStages, op: {"default", "key", "forget", "clear"},
           provider: Providers \cup {NoFile},
           content: Providers \cup Secrets \cup {Unusable, NoFile}, layer: {1}]
          \cup
          [at: {"layer", "chosen", "clean", "failed"}, op: {"ask"},
           provider: Providers \cup {NoFile}, content: {NoFile},
           layer: 1..Len(Layers)]]
    /\ runs \in [Commands -> 0..MaxRuns]
    /\ journal \subseteq
          [command: Commands, run: 1..MaxRuns, slot: Providers \cup {"default"},
           content: Providers \cup Secrets \cup {NoFile}]
    /\ held \in [Commands -> [LayerSet -> SUBSET Settings]]

(* The files keep what SettingStore promises: settings change whole, a     *)
(* change is journalled after it is made, and a command whose change is    *)
(* not in the journal does not report success.                             *)
StageOf(at) ==
    CASE at \in {"get", "write", "fill", "rename", "unlink"} -> "asked"
      [] at \in {"chmod", "record"} -> "made"
      [] OTHER -> at

JobOf(c) ==
    IF cmd[c] = Idle \/ Asking(c) THEN [stage |-> "none"]
    ELSE [slot |-> SlotOf(cmd[c]), content |-> cmd[c].content,
          stage |-> StageOf(cmd[c].at)]

Slots == Providers \cup {"default"}

Store == INSTANCE SettingStore WITH
    Edited <- IF "user" \in Edited THEN {"default"} ELSE {},
    Contents <- [s \in Slots |-> IF s = "default"
                                 THEN Providers \cup {Unusable}
                                 ELSE Secrets \cup {Unusable}],
    Absent <- NoFile,
    value <- [s \in Slots |-> IF s = "default" THEN setting["user"]
                                              ELSE keyfile[s]],
    job <- [c \in Commands |-> JobOf(c)]

ImplementsStore == Store!StoreSpec

(* A question goes to a provider that some layer named while it was being  *)
(* asked, and every more specific layer was then without the file: a bad   *)
(* or missing choice is never replaced by somebody else's.                 *)
ChoiceIsNeverReplaced ==
    \A c \in Commands :
        Asking(c) /\ cmd[c].at \in {"chosen", "clean"} =>
            /\ cmd[c].provider \in held[c][Layers[cmd[c].layer]]
            /\ \A n \in 1..(cmd[c].layer - 1) : NoFile \in held[c][Layers[n]]
=============================================================================
