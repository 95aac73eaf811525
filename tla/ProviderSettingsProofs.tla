----------------------- MODULE ProviderSettingsProofs -----------------------
(***************************************************************************)
(* Theorems about `shinobi provider default`, `key` and `forget` and about *)
(* the choice of the default provider, for any commands, layers, manifests,*)
(* providers and secrets, and any number of changes.                       *)
(***************************************************************************)
EXTENDS ProviderSettings, TLAPS

Changes ==
    [at: ChangeStages, op: {"default", "key", "forget", "clear"},
     provider: Providers \cup {NoFile},
     content: Providers \cup Secrets \cup {Unusable, NoFile}, layer: {1}]

Questions ==
    [at: {"layer", "chosen", "clean", "failed"}, op: {"ask"},
     provider: Providers \cup {NoFile}, content: {NoFile},
     layer: 1..Len(Layers)]

(* A command keeps to the stages of what it was asked for, and to what it  *)
(* was asked to write.                                                     *)
ChangeOf(c) ==
    cmd[c] # Idle /\ cmd[c].op # "ask" =>
        /\ runs[c] # 0
        /\ cmd[c].op = "default" =>
              /\ cmd[c].at \in {"get", "write", "record", "clean", "failed"}
              /\ cmd[c].provider \in Providers
              /\ cmd[c].content = cmd[c].provider
        /\ cmd[c].op = "key" =>
              /\ cmd[c].at # "unlink"
              /\ cmd[c].provider \in Providers
              /\ cmd[c].content \in Secrets \cup {Unusable}
              /\ cmd[c].at \notin {"get", "failed"} => cmd[c].content \in Secrets
        /\ cmd[c].op \in {"forget", "clear"} =>
              /\ cmd[c].at \in {"unlink", "record", "clean", "failed"}
              /\ cmd[c].content = NoFile
        /\ cmd[c].op = "forget" => cmd[c].provider \in Providers

(* The temporary file of a provider belongs to the one command that is     *)
(* between its O_EXCL and its rename, and holds what that command wrote.   *)
Writes(c) == cmd[c].at \in {"fill", "rename"}

TempInv ==
    /\ \A c \in Commands :
          /\ Writes(c) => cmd[c].op = "key"
          /\ cmd[c].at = "fill" => keytmp[cmd[c].provider] = Part
          /\ cmd[c].at = "rename" => keytmp[cmd[c].provider] = cmd[c].content
    /\ \A c, d \in Commands :
          Writes(c) /\ Writes(d) /\ cmd[c].provider = cmd[d].provider => c = d

(* While a question is asked, held keeps up with the settings; the layers  *)
(* it has passed were without the file when it read them.                  *)
AskOf(c) ==
    Asking(c) =>
        /\ \A l \in LayerSet : setting[l] \in held[c][l]
        /\ \A n \in 1..(cmd[c].layer - 1) : NoFile \in held[c][Layers[n]]
        /\ cmd[c].at \in {"chosen", "clean"} =>
              cmd[c].provider \in held[c][Layers[cmd[c].layer]]

SettingsInv ==
    /\ SettingsTypeOK
    /\ \A c \in Commands : ChangeOf(c)
    /\ TempInv
    /\ \A c \in Commands : AskOf(c)

-----------------------------------------------------------------------------
(* Commands.                                                               *)

LEMMA CommandRecord ==
    ASSUME SettingsTypeOK, NEW c \in Commands, cmd[c] # Idle
    PROVE  /\ cmd[c] \in Changes \cup Questions
           /\ Asking(c) <=> cmd[c] \in Questions
           /\ ~Asking(c) <=> cmd[c] \in Changes
  BY DEF SettingsTypeOK, Changes, Questions, Asking

LEMMA ChangingCommand ==
    ASSUME SettingsTypeOK, NEW c \in Commands,
           cmd[c].at \in ChangeStages \ {"clean", "failed"}
    PROVE  cmd[c] # Idle /\ ~Asking(c) /\ cmd[c] \in Changes
  <1>1. cmd[c] # Idle
    BY DEF Idle, ChangeStages
  <1>2. cmd[c] \notin Questions
    BY DEF Questions, ChangeStages
  <1>3. QED
    BY <1>1, <1>2, CommandRecord

(* A step of a change that leaves the settings alone or not, but moves     *)
(* only its own command.                                                   *)
LEMMA MovedChange ==
    ASSUME SettingsTypeOK, NEW c \in Commands, cmd[c] \in Changes,
           NEW at \in ChangeStages, Goto(c, at)
    PROVE  /\ cmd' \in [Commands -> {Idle} \cup Changes \cup Questions]
           /\ cmd'[c] # Idle /\ cmd'[c] \in Changes
           /\ cmd'[c].at = at
           /\ cmd'[c].op = cmd[c].op
           /\ cmd'[c].provider = cmd[c].provider
           /\ cmd'[c].content = cmd[c].content
           /\ \A d \in Commands \ {c} : cmd'[d] = cmd[d]
  <1>1. /\ cmd'[c] = [cmd[c] EXCEPT !.at = at]
        /\ \A d \in Commands \ {c} : cmd'[d] = cmd[d]
    BY DEF Goto, SettingsTypeOK
  <1>2. /\ cmd'[c] \in Changes
        /\ cmd'[c].at = at
        /\ cmd'[c].op = cmd[c].op
        /\ cmd'[c].provider = cmd[c].provider
        /\ cmd'[c].content = cmd[c].content
    BY <1>1 DEF Changes
  <1>3. cmd'[c] # Idle
    BY <1>2 DEF Idle, ChangeStages
  <1>4. cmd' \in [Commands -> {Idle} \cup Changes \cup Questions]
    BY <1>1, <1>2 DEF Goto, SettingsTypeOK, Changes, Questions
  <1>5. QED
    BY <1>1, <1>2, <1>3, <1>4

LEMMA LayersAreLayers ==
    /\ "user" \in LayerSet
    /\ \A n \in 1..Len(Layers) : Layers[n] \in LayerSet
    /\ Len(Layers) \in Nat \ {0}
  BY SettingsAssumption DEF LayerSet

(* What one command does, the others do not notice.                        *)
LEMMA OthersChange ==
    ASSUME NEW c \in Commands, ChangeOf(c), cmd'[c] = cmd[c],
           runs'[c] = runs[c]
    PROVE  ChangeOf(c)'
  BY DEF ChangeOf

LEMMA OthersAsk ==
    ASSUME NEW c \in Commands, AskOf(c), cmd'[c] = cmd[c],
           held'[c] = held[c], UNCHANGED setting
    PROVE  AskOf(c)'
  BY DEF AskOf, Asking

(* A setting that is replaced is seen by every question under way.         *)
LEMMA SetLayerKeepsHeld ==
    ASSUME SettingsInv, NEW l \in LayerSet, NEW v \in Settings, SetLayer(l, v)
    PROVE  /\ setting' \in [LayerSet -> Settings]
           /\ held' \in [Commands -> [LayerSet -> SUBSET Settings]]
           /\ \A c \in Commands, k \in LayerSet : held[c][k] \subseteq held'[c][k]
           /\ \A c \in Commands :
                 Asking(c) => \A k \in LayerSet : setting'[k] \in held'[c][k]
  <1>1. /\ setting \in [LayerSet -> Settings]
        /\ held \in [Commands -> [LayerSet -> SUBSET Settings]]
    BY DEF SettingsInv, SettingsTypeOK
  <1>2. /\ setting'[l] = v
        /\ \A k \in LayerSet \ {l} : setting'[k] = setting[k]
        /\ setting' \in [LayerSet -> Settings]
    BY <1>1 DEF SetLayer
  <1>3. ASSUME NEW c \in Commands
        PROVE  /\ held'[c] = IF Asking(c) THEN [held[c] EXCEPT ![l] = @ \cup {v}]
                                          ELSE held[c]
               /\ held[c] \in [LayerSet -> SUBSET Settings]
    BY <1>1 DEF SetLayer
  <1>4. ASSUME NEW c \in Commands, Asking(c)
        PROVE  /\ held'[c][l] = held[c][l] \cup {v}
               /\ \A k \in LayerSet \ {l} : held'[c][k] = held[c][k]
               /\ held'[c] \in [LayerSet -> SUBSET Settings]
    <2>1. /\ held'[c] = [held[c] EXCEPT ![l] = held[c][l] \cup {v}]
          /\ held[c] \in [LayerSet -> SUBSET Settings]
      BY <1>3, <1>4
    <2>2. held[c][l] \cup {v} \in SUBSET Settings
      BY <2>1
    <2>3. QED
      BY <2>1, <2>2
  <1>5. held' \in [Commands -> [LayerSet -> SUBSET Settings]]
    <2>1. \A c \in Commands : held'[c] \in [LayerSet -> SUBSET Settings]
      BY <1>3, <1>4
    <2>2. held' = [c \in Commands |-> held'[c]]
      BY DEF SetLayer
    <2>3. QED
      BY <2>1, <2>2
  <1>6. \A c \in Commands : Asking(c) => \A k \in LayerSet : setting[k] \in held[c][k]
    BY DEF SettingsInv, AskOf
  <1>7. QED
    BY <1>2, <1>3, <1>4, <1>5, <1>6

LEMMA SetLayerAsk ==
    ASSUME SettingsInv, NEW l \in LayerSet, NEW v \in Settings, SetLayer(l, v),
           NEW c \in Commands, cmd'[c] = cmd[c]
    PROVE  AskOf(c)'
  <1>1. SUFFICES ASSUME Asking(c)
                 PROVE  AskOf(c)'
    BY DEF AskOf, Asking
  <1>2. cmd[c] \in Questions
    BY <1>1, CommandRecord DEF Asking, SettingsInv
  <1>3. AskOf(c)
    BY DEF SettingsInv
  <1>4. \A n \in 1..Len(Layers) : held[c][Layers[n]] \subseteq held'[c][Layers[n]]
    BY LayersAreLayers, SetLayerKeepsHeld
  <1>5. cmd[c].layer \in 1..Len(Layers) /\ Len(Layers) \in Nat
    BY <1>2, LayersAreLayers DEF Questions
  <1>6. \A n \in 1..(cmd[c].layer - 1) : n \in 1..Len(Layers)
    BY <1>5
  <1>7. QED
    BY <1>1, <1>3, <1>4, <1>5, <1>6, SetLayerKeepsHeld DEF AskOf

-----------------------------------------------------------------------------
(* The inductive invariant.                                                *)

LEMMA SettingsInvInit == Init => SettingsInv
  BY SettingsAssumption
  DEF Init, SettingsInv, SettingsTypeOK, ChangeOf, TempInv, Writes, AskOf,
      Asking, Idle, Settings

(* A step of a change that replaces no setting a question looks at.        *)
LEMMA FileStep ==
    ASSUME SettingsInv, NEW c \in Commands, cmd[c] \in Changes,
           NEW at \in ChangeStages, Goto(c, at),
           UNCHANGED <<manifests, setting, runs, held>>,
           keyfile' \in [Providers -> Secrets \cup {NoFile}],
           keytmp' \in [Providers -> Secrets \cup {Part, NoFile}],
           journal' \subseteq
             [command: Commands, run: 1..MaxRuns,
              slot: Providers \cup {"default"},
              content: Providers \cup Secrets \cup {NoFile}],
           ChangeOf(c)', TempInv'
    PROVE  SettingsInv'
  <1>1. /\ cmd' \in [Commands -> {Idle} \cup Changes \cup Questions]
        /\ cmd'[c] \in Changes
        /\ \A d \in Commands \ {c} : cmd'[d] = cmd[d]
    BY MovedChange DEF SettingsInv
  <1>2. SettingsTypeOK'
    BY <1>1 DEF SettingsInv, SettingsTypeOK, Changes, Questions
  <1>3. \A d \in Commands : ChangeOf(d)'
    BY <1>1, OthersChange DEF SettingsInv
  <1>4. AskOf(c)'
    BY <1>1 DEF AskOf, Asking, Changes
  <1>5. \A d \in Commands : AskOf(d)'
    BY <1>1, <1>4, OthersAsk DEF SettingsInv
  <1>6. QED
    BY <1>2, <1>3, <1>5 DEF SettingsInv

(* A command that is not writing its temporary file, or no longer is,      *)
(* leaves those of the others alone.                                       *)
LEMMA TempLeft ==
    ASSUME SettingsInv, NEW c \in Commands,
           \A d \in Commands \ {c} : cmd'[d] = cmd[d],
           cmd'[c].at \notin {"fill", "rename"},
           \/ UNCHANGED keytmp
           \/ /\ Writes(c) /\ cmd[c].provider \in Providers
              /\ keytmp' = [keytmp EXCEPT ![cmd[c].provider] = NoFile]
    PROVE  TempInv'
  <1>1. \A d \in Commands : ~Writes(d)' \/ (d # c /\ cmd'[d] = cmd[d])
    BY DEF Writes
  <1>2. ASSUME NEW d \in Commands \ {c}, Writes(d)
        PROVE  keytmp'[cmd[d].provider] = keytmp[cmd[d].provider]
    <2>1. Writes(c) => cmd[c].provider # cmd[d].provider
      BY <1>2 DEF SettingsInv, TempInv
    <2>2. cmd[d].provider \in Providers
      BY <1>2, ChangingCommand DEF SettingsInv, TempInv, ChangeOf, Writes,
                                   ChangeStages, Asking
    <2>3. QED
      BY <2>1, <2>2 DEF SettingsInv, SettingsTypeOK
  <1>3. QED
    BY <1>1, <1>2 DEF SettingsInv, TempInv, Writes

LEMMA StoppedChange ==
    ASSUME SettingsInv, NEW c \in Commands,
           cmd[c].at \in ChangeStages \ {"clean", "failed"}, Failed(c),
           ~Writes(c)
    PROVE  SettingsInv'
  <1>1. cmd[c] # Idle /\ ~Asking(c) /\ cmd[c] \in Changes
    BY ChangingCommand DEF SettingsInv
  <1>2. /\ cmd'[c].at = "failed"
        /\ cmd'[c].op = cmd[c].op
        /\ cmd'[c].provider = cmd[c].provider
        /\ cmd'[c].content = cmd[c].content
        /\ \A d \in Commands \ {c} : cmd'[d] = cmd[d]
    BY <1>1, MovedChange DEF Failed, SettingsInv, ChangeStages
  <1>3. ChangeOf(c)'
    BY <1>1, <1>2 DEF SettingsInv, ChangeOf, Asking, Failed
  <1>4. TempInv'
    BY <1>2, TempLeft DEF Failed, files
  <1>5. QED
    BY <1>1, <1>3, <1>4, FileStep
    DEF Failed, files, ChangeStages, SettingsInv, SettingsTypeOK

LEMMA RegistryIsProviders ==
    ASSUME SettingsTypeOK
    PROVE  Registry \subseteq Providers
  <1>1. \A f \in manifests : f.id \in Providers \cup {Malformed}
    BY SettingsAssumption DEF SettingsTypeOK, Files
  <1>2. QED
    BY <1>1 DEF Registry

(* A step of a question moves only its own command.                        *)
LEMMA QuestionStep ==
    ASSUME SettingsInv, NEW c \in Commands, cmd[c] # Idle,
           NEW new \in Questions, cmd' = [cmd EXCEPT ![c] = new],
           UNCHANGED <<files, runs, journal, held>>,
           \A l \in LayerSet : setting[l] \in held[c][l],
           \A n \in 1..(new.layer - 1) : NoFile \in held[c][Layers[n]],
           new.at \in {"chosen", "clean"} =>
               new.provider \in held[c][Layers[new.layer]]
    PROVE  SettingsInv'
  <1>1. /\ cmd'[c] = new
        /\ \A d \in Commands \ {c} : cmd'[d] = cmd[d]
    BY DEF SettingsInv, SettingsTypeOK
  <1>2. SettingsTypeOK'
    BY DEF SettingsInv, SettingsTypeOK, Questions, files
  <1>3. ChangeOf(c)'
    BY <1>1 DEF ChangeOf, Questions
  <1>4. \A d \in Commands : ChangeOf(d)'
    BY <1>1, <1>3, OthersChange DEF SettingsInv
  <1>5. TempInv'
    BY <1>1, TempLeft DEF files, Questions
  <1>6. AskOf(c)'
    BY <1>1 DEF AskOf, files
  <1>7. \A d \in Commands : AskOf(d)'
    BY <1>1, <1>6, OthersAsk DEF SettingsInv, files
  <1>8. QED
    BY <1>2, <1>4, <1>5, <1>7 DEF SettingsInv

LEMMA AskingCommand ==
    ASSUME SettingsInv, NEW c \in Commands, cmd[c].at \in {"layer", "chosen"}
    PROVE  /\ cmd[c] # Idle /\ Asking(c) /\ cmd[c] \in Questions
           /\ \A l \in LayerSet : setting[l] \in held[c][l]
           /\ \A n \in 1..(cmd[c].layer - 1) : NoFile \in held[c][Layers[n]]
           /\ cmd[c].at = "chosen" =>
                 cmd[c].provider \in held[c][Layers[cmd[c].layer]]
  <1>1. cmd[c] # Idle
    BY DEF Idle
  <1>2. cmd[c] \notin Changes
    BY DEF Changes, ChangeStages
  <1>3. Asking(c) /\ cmd[c] \in Questions
    BY <1>1, <1>2, CommandRecord DEF SettingsInv
  <1>4. QED
    BY <1>1, <1>3 DEF SettingsInv, AskOf

LEMMA SettingsInvStep == SettingsInv /\ [Next]_pvars => SettingsInv'
  <1> SUFFICES ASSUME SettingsInv, [Next]_pvars
               PROVE  SettingsInv'
    OBVIOUS
  <1>1. ASSUME NEW c \in Commands, NEW op, NEW p, NEW content, NEW at,
               Begin(c, op, p, content, at),
               \/ /\ op = "default" /\ at = "get"
                  /\ p \in Providers /\ content = p
               \/ /\ op = "key" /\ at = "get"
                  /\ p \in Providers /\ content \in Secrets \cup {Unusable}
               \/ /\ op = "forget" /\ at = "unlink"
                  /\ p \in Providers /\ content = NoFile
               \/ /\ op = "clear" /\ at = "unlink"
                  /\ p = NoFile /\ content = NoFile
        PROVE  SettingsInv'
    <2> DEFINE new == Command(op, p, content, at)
    <2>1. /\ new \in Changes /\ new.at = at /\ new.op = op
          /\ new.provider = p /\ new.content = content
      BY <1>1 DEF Command, Changes, ChangeStages
    <2>2. /\ cmd' = [cmd EXCEPT ![c] = new]
          /\ cmd[c] = Idle
          /\ runs' = [runs EXCEPT ![c] = runs[c] + 1]
          /\ runs[c] < MaxRuns
          /\ UNCHANGED <<files, journal, held>>
      BY <1>1 DEF Begin
    <2> HIDE DEF new
    <2>3. /\ cmd'[c] = new
          /\ \A d \in Commands \ {c} : cmd'[d] = cmd[d]
          /\ cmd' \in [Commands -> {Idle} \cup Changes \cup Questions]
      BY <2>1, <2>2 DEF SettingsInv, SettingsTypeOK, Changes, Questions
    <2>4. /\ runs' \in [Commands -> 0..MaxRuns]
          /\ runs'[c] # 0
          /\ \A d \in Commands \ {c} : runs'[d] = runs[d]
      BY <2>2, SettingsAssumption DEF SettingsInv, SettingsTypeOK
    <2>5. SettingsTypeOK'
      BY <2>2, <2>3, <2>4
      DEF SettingsInv, SettingsTypeOK, Changes, Questions, files
    <2>6. ChangeOf(c)'
      BY <1>1, <2>1, <2>3, <2>4 DEF ChangeOf
    <2>7. \A d \in Commands : ChangeOf(d)'
      BY <2>3, <2>4, <2>6, OthersChange DEF SettingsInv
    <2>8. TempInv'
      BY <1>1, <2>1, <2>2, <2>3, TempLeft DEF files
    <2>9. AskOf(c)'
      BY <1>1, <2>1, <2>3 DEF AskOf, Asking
    <2>10. \A d \in Commands : AskOf(d)'
      BY <2>2, <2>3, <2>9, OthersAsk DEF SettingsInv, files
    <2>11. QED
      BY <2>5, <2>7, <2>8, <2>10 DEF SettingsInv
  <1>2. ASSUME NEW c \in Commands, Get(c)
        PROVE  SettingsInv'
    <2>1. cmd[c] # Idle /\ ~Asking(c) /\ cmd[c] \in Changes
      BY <1>2, ChangingCommand DEF Get, SettingsInv, ChangeStages
    <2>2. CASE Failed(c)
      BY <1>2, <2>2, StoppedChange DEF Get, Writes, ChangeStages
    <2>3. CASE /\ cmd[c].op = "key" => cmd[c].content # Unusable
               /\ Goto(c, "write")
               /\ UNCHANGED <<files, runs, journal, held>>
      <3>1. /\ cmd'[c].at = "write"
            /\ cmd'[c].op = cmd[c].op
            /\ cmd'[c].provider = cmd[c].provider
            /\ cmd'[c].content = cmd[c].content
            /\ \A d \in Commands \ {c} : cmd'[d] = cmd[d]
        BY <2>1, <2>3, MovedChange DEF SettingsInv, ChangeStages
      <3>2. ChangeOf(c)'
        BY <1>2, <2>1, <2>3, <3>1 DEF SettingsInv, ChangeOf, Asking, Get
      <3>3. TempInv'
        BY <2>3, <3>1, TempLeft DEF files
      <3>4. QED
        BY <2>1, <2>3, <3>2, <3>3, FileStep
        DEF files, ChangeStages, SettingsInv, SettingsTypeOK
    <2>4. QED
      BY <1>2, <2>2, <2>3 DEF Get
  <1>3. ASSUME NEW c \in Commands, NEW v \in Settings, NEW at \in ChangeStages,
               SetLayer("user", v), Goto(c, at), cmd[c] \in Changes,
               at \notin {"fill", "rename"}, ChangeOf(c)',
               UNCHANGED <<manifests, keyfile, keytmp, runs, journal>>
        PROVE  SettingsInv'
    <2>1. /\ cmd' \in [Commands -> {Idle} \cup Changes \cup Questions]
          /\ cmd'[c] \in Changes /\ cmd'[c].at = at
          /\ \A d \in Commands \ {c} : cmd'[d] = cmd[d]
      BY <1>3, MovedChange DEF SettingsInv
    <2>2. /\ setting' \in [LayerSet -> Settings]
          /\ held' \in [Commands -> [LayerSet -> SUBSET Settings]]
      BY <1>3, LayersAreLayers, SetLayerKeepsHeld
    <2>3. SettingsTypeOK'
      BY <1>3, <2>1, <2>2 DEF SettingsInv, SettingsTypeOK, Changes, Questions
    <2>4. \A d \in Commands : ChangeOf(d)'
      BY <1>3, <2>1, OthersChange DEF SettingsInv
    <2>5. TempInv'
      BY <1>3, <2>1, TempLeft
    <2>6. AskOf(c)'
      BY <2>1 DEF AskOf, Asking, Changes
    <2>7. \A d \in Commands : AskOf(d)'
      BY <1>3, <2>1, <2>6, LayersAreLayers, SetLayerAsk
    <2>8. QED
      BY <2>3, <2>4, <2>5, <2>7 DEF SettingsInv
  <1>4. ASSUME NEW c \in Commands, WriteDefault(c)
        PROVE  SettingsInv'
    <2>1. cmd[c] # Idle /\ ~Asking(c) /\ cmd[c] \in Changes
      BY <1>4, ChangingCommand DEF WriteDefault, SettingsInv, ChangeStages
    <2>2. CASE Failed(c)
      BY <1>4, <2>2, StoppedChange DEF WriteDefault, Writes, ChangeStages
    <2>3. CASE /\ SetLayer("user", cmd[c].provider)
               /\ Goto(c, "record")
               /\ UNCHANGED <<manifests, keyfile, keytmp, runs, journal>>
      <3>1. /\ cmd'[c].at = "record"
            /\ cmd'[c].op = cmd[c].op
            /\ cmd'[c].provider = cmd[c].provider
            /\ cmd'[c].content = cmd[c].content
        BY <2>1, <2>3, MovedChange DEF SettingsInv, ChangeStages
      <3>2. cmd[c].provider \in Settings
        BY <1>4, <2>1
        DEF WriteDefault, SettingsInv, ChangeOf, Asking, Settings
      <3>3. ChangeOf(c)'
        BY <1>4, <2>1, <2>3, <3>1 DEF WriteDefault, SettingsInv, ChangeOf, Asking
      <3>4. QED
        BY <1>3, <2>1, <2>3, <3>2, <3>3 DEF ChangeStages
    <2>4. QED
      BY <1>4, <2>2, <2>3 DEF WriteDefault
  <1>5. ASSUME NEW c \in Commands, CreateTemp(c)
        PROVE  SettingsInv'
    <2> DEFINE p == cmd[c].provider
    <2>1. cmd[c] # Idle /\ ~Asking(c) /\ cmd[c] \in Changes
      BY <1>5, ChangingCommand DEF CreateTemp, SettingsInv, ChangeStages
    <2>2. CASE Failed(c)
      BY <1>5, <2>2, StoppedChange DEF CreateTemp, Writes, ChangeStages
    <2>3. CASE /\ keytmp[p] = NoFile
               /\ keytmp' = [keytmp EXCEPT ![p] = Part]
               /\ Goto(c, "fill")
               /\ UNCHANGED <<manifests, setting, keyfile, runs, journal, held>>
      <3>1. /\ cmd'[c].at = "fill"
            /\ cmd'[c].op = cmd[c].op
            /\ cmd'[c].provider = p
            /\ cmd'[c].content = cmd[c].content
            /\ \A d \in Commands \ {c} : cmd'[d] = cmd[d]
        BY <2>1, <2>3, MovedChange DEF SettingsInv, ChangeStages
      <3>2. /\ cmd[c].op = "key" /\ p \in Providers
            /\ ~Writes(c)
            /\ ChangeOf(c)'
        BY <1>5, <2>1, <2>3, <3>1
        DEF CreateTemp, SettingsInv, ChangeOf, Asking, Writes
      <3>3. /\ keytmp'[p] = Part
            /\ \A q \in Providers \ {p} : keytmp'[q] = keytmp[q]
            /\ keytmp' \in [Providers -> Secrets \cup {Part, NoFile}]
        BY <2>3, <3>2 DEF SettingsInv, SettingsTypeOK
      <3>4. ASSUME NEW d \in Commands, Writes(d)
            PROVE  cmd[d].provider \in Providers \ {p}
        <4>1. cmd[d] # Idle /\ ~Asking(d) /\ cmd[d].op = "key"
          BY <3>4, ChangingCommand
          DEF SettingsInv, TempInv, Writes, ChangeStages
        <4>2. \/ cmd[d].provider \in Providers /\ cmd[d].content \in Secrets
              \/ cmd[d].at = "fill"
          BY <3>4, <4>1 DEF SettingsInv, ChangeOf, Asking, Writes
        <4>3. keytmp[cmd[d].provider] # NoFile
          BY <3>4, <4>1, <4>2, SettingsAssumption
          DEF SettingsInv, TempInv, Writes
        <4>4. cmd[d].provider \in Providers
          BY <4>1 DEF SettingsInv, ChangeOf, Asking
        <4>5. QED
          BY <2>3, <4>3, <4>4
      <3>5. TempInv'
        BY <3>1, <3>2, <3>3, <3>4 DEF SettingsInv, TempInv, Writes
      <3>6. QED
        BY <2>1, <2>3, <3>2, <3>3, <3>5, FileStep
        DEF ChangeStages, SettingsInv, SettingsTypeOK
    <2>4. QED
      BY <1>5, <2>2, <2>3 DEF CreateTemp
  <1>6. ASSUME NEW c \in Commands, FillTemp(c)
        PROVE  SettingsInv'
    <2> DEFINE p == cmd[c].provider
    <2>1. cmd[c] # Idle /\ ~Asking(c) /\ cmd[c] \in Changes
      BY <1>6, ChangingCommand DEF FillTemp, SettingsInv, ChangeStages
    <2>2. /\ Writes(c) /\ cmd[c].op = "key" /\ p \in Providers
          /\ cmd[c].content \in Secrets
      BY <1>6, <2>1
      DEF FillTemp, SettingsInv, TempInv, ChangeOf, Asking, Writes
    <2>3. CASE keytmp' = [keytmp EXCEPT ![p] = NoFile] /\ Goto(c, "failed")
      <3>1. /\ cmd'[c].at = "failed"
            /\ cmd'[c].op = cmd[c].op
            /\ cmd'[c].provider = p
            /\ cmd'[c].content = cmd[c].content
            /\ \A d \in Commands \ {c} : cmd'[d] = cmd[d]
        BY <2>1, <2>3, MovedChange DEF SettingsInv, ChangeStages
      <3>2. ChangeOf(c)'
        BY <1>6, <2>1, <3>1 DEF FillTemp, SettingsInv, ChangeOf, Asking
      <3>3. keytmp' \in [Providers -> Secrets \cup {Part, NoFile}]
        BY <2>3 DEF SettingsInv, SettingsTypeOK
      <3>4. TempInv'
        BY <2>2, <2>3, <3>1, TempLeft
      <3>5. QED
        BY <1>6, <2>1, <2>3, <3>2, <3>3, <3>4, FileStep
        DEF FillTemp, ChangeStages, SettingsInv, SettingsTypeOK
    <2>4. CASE /\ keytmp' = [keytmp EXCEPT ![p] = cmd[c].content]
               /\ Goto(c, "rename")
      <3>1. /\ cmd'[c].at = "rename"
            /\ cmd'[c].op = cmd[c].op
            /\ cmd'[c].provider = p
            /\ cmd'[c].content = cmd[c].content
            /\ \A d \in Commands \ {c} : cmd'[d] = cmd[d]
        BY <2>1, <2>4, MovedChange DEF SettingsInv, ChangeStages
      <3>2. ChangeOf(c)'
        BY <1>6, <2>1, <2>2, <3>1 DEF FillTemp, SettingsInv, ChangeOf, Asking
      <3>3. /\ keytmp' \in [Providers -> Secrets \cup {Part, NoFile}]
            /\ keytmp'[p] = cmd[c].content
            /\ \A q \in Providers \ {p} : keytmp'[q] = keytmp[q]
        BY <2>2, <2>4 DEF SettingsInv, SettingsTypeOK
      <3>4. ASSUME NEW d \in Commands \ {c}, Writes(d)
            PROVE  cmd[d].provider \in Providers \ {p}
        <4>1. cmd[d] # Idle /\ ~Asking(d) /\ cmd[d].op = "key"
          BY <3>4, ChangingCommand
          DEF SettingsInv, TempInv, Writes, ChangeStages
        <4>2. cmd[d].provider \in Providers
          BY <4>1 DEF SettingsInv, ChangeOf, Asking
        <4>3. QED
          BY <2>2, <3>4, <4>2 DEF SettingsInv, TempInv
      <3>5. TempInv'
        BY <2>2, <3>1, <3>3, <3>4 DEF SettingsInv, TempInv, Writes
      <3>6. QED
        BY <1>6, <2>1, <2>4, <3>2, <3>3, <3>5, FileStep
        DEF FillTemp, ChangeStages, SettingsInv, SettingsTypeOK
    <2>5. QED
      BY <1>6, <2>3, <2>4 DEF FillTemp
  <1>7. ASSUME NEW c \in Commands, RenameTemp(c)
        PROVE  SettingsInv'
    <2> DEFINE p == cmd[c].provider
    <2>1. cmd[c] # Idle /\ ~Asking(c) /\ cmd[c] \in Changes
      BY <1>7, ChangingCommand DEF RenameTemp, SettingsInv, ChangeStages
    <2>2. /\ Writes(c) /\ cmd[c].op = "key" /\ p \in Providers
          /\ cmd[c].content \in Secrets /\ keytmp[p] = cmd[c].content
      BY <1>7, <2>1
      DEF RenameTemp, SettingsInv, TempInv, ChangeOf, Asking, Writes
    <2>3. PICK at \in {"chmod", "failed"} : Goto(c, at)
      BY <1>7 DEF RenameTemp
    <2>4. /\ cmd'[c].at = at
          /\ cmd'[c].op = cmd[c].op
          /\ cmd'[c].provider = p
          /\ cmd'[c].content = cmd[c].content
          /\ \A d \in Commands \ {c} : cmd'[d] = cmd[d]
      BY <2>1, <2>3, MovedChange DEF SettingsInv, ChangeStages
    <2>5. ChangeOf(c)'
      BY <1>7, <2>1, <2>2, <2>4 DEF RenameTemp, SettingsInv, ChangeOf, Asking
    <2>6. /\ keytmp' \in [Providers -> Secrets \cup {Part, NoFile}]
          /\ keyfile' \in [Providers -> Secrets \cup {NoFile}]
      BY <1>7, <2>2 DEF RenameTemp, SettingsInv, SettingsTypeOK
    <2>7. TempInv'
      BY <1>7, <2>2, <2>4, TempLeft DEF RenameTemp
    <2>8. QED
      BY <1>7, <2>1, <2>3, <2>5, <2>6, <2>7, FileStep
      DEF RenameTemp, ChangeStages, SettingsInv, SettingsTypeOK
  <1>8. ASSUME NEW c \in Commands, Chmod(c)
        PROVE  SettingsInv'
    <2>1. cmd[c] # Idle /\ ~Asking(c) /\ cmd[c] \in Changes
      BY <1>8, ChangingCommand DEF Chmod, SettingsInv, ChangeStages
    <2>2. PICK at \in {"record", "failed"} : Goto(c, at)
      BY <1>8 DEF Chmod
    <2>3. /\ cmd'[c].at = at
          /\ cmd'[c].op = cmd[c].op
          /\ cmd'[c].provider = cmd[c].provider
          /\ cmd'[c].content = cmd[c].content
          /\ \A d \in Commands \ {c} : cmd'[d] = cmd[d]
      BY <2>1, <2>2, MovedChange DEF SettingsInv, ChangeStages
    <2>4. ChangeOf(c)'
      BY <1>8, <2>1, <2>3 DEF Chmod, SettingsInv, ChangeOf, Asking
    <2>5. TempInv'
      BY <1>8, <2>3, TempLeft DEF Chmod, files
    <2>6. QED
      BY <1>8, <2>1, <2>2, <2>4, <2>5, FileStep
      DEF Chmod, files, ChangeStages, SettingsInv, SettingsTypeOK
  <1>9. ASSUME NEW c \in Commands, Unlink(c)
        PROVE  SettingsInv'
    <2>1. cmd[c] # Idle /\ ~Asking(c) /\ cmd[c] \in Changes
      BY <1>9, ChangingCommand DEF Unlink, SettingsInv, ChangeStages
    <2>2. CASE Failed(c)
      BY <1>9, <2>2, StoppedChange DEF Unlink, Writes, ChangeStages
    <2>3. ASSUME NEW at \in {"record", "clean"}, Goto(c, at), UNCHANGED runs
          PROVE  ChangeOf(c)' /\ cmd'[c].at = at
                 /\ \A d \in Commands \ {c} : cmd'[d] = cmd[d]
      <3>1. /\ cmd'[c].at = at
            /\ cmd'[c].op = cmd[c].op
            /\ cmd'[c].provider = cmd[c].provider
            /\ cmd'[c].content = cmd[c].content
            /\ \A d \in Commands \ {c} : cmd'[d] = cmd[d]
        BY <2>1, <2>3, MovedChange DEF SettingsInv, ChangeStages
      <3>2. QED
        BY <1>9, <2>1, <2>3, <3>1 DEF Unlink, SettingsInv, ChangeOf, Asking
    <2>4. CASE /\ SetLayer("user", NoFile)
               /\ Goto(c, "record")
               /\ UNCHANGED <<manifests, keyfile, keytmp, runs, journal>>
      BY <1>3, <2>1, <2>3, <2>4 DEF ChangeStages, Settings
    <2>5. CASE /\ \/ keyfile' = [keyfile EXCEPT ![cmd[c].provider] = NoFile]
                     /\ Goto(c, "record")
                  \/ UNCHANGED keyfile /\ Goto(c, "clean")
               /\ UNCHANGED <<manifests, setting, keytmp, runs, journal, held>>
      <3>1. keyfile' \in [Providers -> Secrets \cup {NoFile}]
        BY <2>5 DEF SettingsInv, SettingsTypeOK
      <3>2. PICK at \in {"record", "clean"} : Goto(c, at)
        BY <2>5
      <3>3. ChangeOf(c)' /\ TempInv'
        BY <2>3, <2>5, <3>2, TempLeft
      <3>4. QED
        BY <2>1, <2>5, <3>1, <3>2, <3>3, FileStep
        DEF ChangeStages, SettingsInv, SettingsTypeOK
    <2>6. QED
      BY <1>9, <2>2, <2>4, <2>5 DEF Unlink, files
  <1>10. ASSUME NEW c \in Commands, Record(c)
         PROVE  SettingsInv'
    <2> DEFINE entry == [command |-> c, run |-> runs[c], slot |-> SlotOf(cmd[c]),
                         content |-> cmd[c].content]
    <2>1. cmd[c] # Idle /\ ~Asking(c) /\ cmd[c] \in Changes
      BY <1>10, ChangingCommand DEF Record, SettingsInv, ChangeStages
    <2>2. CASE Failed(c)
      BY <1>10, <2>2, StoppedChange DEF Record, Writes, ChangeStages
    <2>3. CASE /\ journal' = journal \cup {entry}
               /\ Goto(c, "clean")
               /\ UNCHANGED <<files, runs, held>>
      <3>1. /\ cmd'[c].at = "clean"
            /\ cmd'[c].op = cmd[c].op
            /\ cmd'[c].provider = cmd[c].provider
            /\ cmd'[c].content = cmd[c].content
            /\ \A d \in Commands \ {c} : cmd'[d] = cmd[d]
        BY <2>1, <2>3, MovedChange DEF SettingsInv, ChangeStages
      <3>2. /\ ChangeOf(c)'
            /\ SlotOf(cmd[c]) \in Providers \cup {"default"}
            /\ cmd[c].content \in Providers \cup Secrets \cup {NoFile}
            /\ runs[c] # 0
        BY <1>10, <2>1, <2>3, <3>1
        DEF Record, SettingsInv, ChangeOf, Asking, SlotOf, Changes
      <3>3. runs[c] \in 1..MaxRuns
        BY <3>2, SettingsAssumption DEF SettingsInv, SettingsTypeOK
      <3>4. TempInv'
        BY <2>3, <3>1, TempLeft DEF files
      <3>5. entry \in [command: Commands, run: 1..MaxRuns,
                        slot: Providers \cup {"default"},
                        content: Providers \cup Secrets \cup {NoFile}]
        BY <3>2, <3>3
      <3>6. QED
        BY <2>1, <2>3, <3>2, <3>4, <3>5, FileStep
        DEF files, ChangeStages, SettingsInv, SettingsTypeOK
    <2>4. QED
      BY <1>10, <2>2, <2>3 DEF Record
  <1>11. ASSUME NEW c \in Commands, AskDefault(c) \/ Leave(c)
         PROVE  SettingsInv'
    <2> DEFINE question == Command("ask", NoFile, NoFile, "layer")
    <2>1. /\ question \in Questions /\ question.at = "layer"
          /\ question.op = "ask" /\ question.layer = 1
      BY LayersAreLayers DEF Command, Questions
    <2>2. /\ \/ /\ cmd'[c] = question
                /\ held'[c] = [l \in LayerSet |-> {setting[l]}]
             \/ /\ cmd'[c] = Idle
                /\ held'[c] = [l \in LayerSet |-> {}]
          /\ \A d \in Commands \ {c} : cmd'[d] = cmd[d] /\ held'[d] = held[d]
          /\ UNCHANGED <<manifests, setting, keyfile, keytmp, runs, journal>>
      BY <1>11 DEF AskDefault, Leave, files, SettingsInv, SettingsTypeOK
    <2> HIDE DEF question
    <2>3. cmd' \in [Commands -> {Idle} \cup Changes \cup Questions]
      <3>1. cmd' = [cmd EXCEPT ![c] = cmd'[c]]
        BY <1>11 DEF AskDefault, Leave, SettingsInv, SettingsTypeOK
      <3>2. cmd'[c] \in {Idle} \cup Changes \cup Questions
        BY <2>1, <2>2
      <3>3. cmd \in [Commands -> {Idle} \cup Changes \cup Questions]
        BY DEF SettingsInv, SettingsTypeOK, Changes, Questions
      <3>4. QED
        BY <3>1, <3>2, <3>3
    <2>4. held' \in [Commands -> [LayerSet -> SUBSET Settings]]
      <3>1. held'[c] \in [LayerSet -> SUBSET Settings]
        BY <2>2 DEF SettingsInv, SettingsTypeOK
      <3>2. held' = [held EXCEPT ![c] = held'[c]]
        BY <1>11 DEF AskDefault, Leave, SettingsInv, SettingsTypeOK
      <3>3. QED
        BY <3>1, <3>2 DEF SettingsInv, SettingsTypeOK
    <2>5. SettingsTypeOK'
      BY <2>2, <2>3, <2>4 DEF SettingsInv, SettingsTypeOK, Changes, Questions
    <2>6. ChangeOf(c)'
      BY <2>1, <2>2 DEF ChangeOf
    <2>7. \A d \in Commands : ChangeOf(d)'
      BY <2>2, <2>6, OthersChange DEF SettingsInv
    <2>8. TempInv'
      BY <2>1, <2>2, TempLeft DEF Idle
    <2>9. AskOf(c)'
      BY <2>1, <2>2 DEF AskOf, Asking
    <2>10. \A d \in Commands : AskOf(d)'
      BY <2>2, <2>9, OthersAsk DEF SettingsInv
    <2>11. QED
      BY <2>5, <2>7, <2>8, <2>10 DEF SettingsInv
  <1>12. ASSUME NEW c \in Commands, ReadLayer(c)
         PROVE  SettingsInv'
    <2> DEFINE found == setting[Layers[cmd[c].layer]]
    <2>1. /\ cmd[c] # Idle /\ cmd[c] \in Questions
          /\ \A l \in LayerSet : setting[l] \in held[c][l]
          /\ \A n \in 1..(cmd[c].layer - 1) : NoFile \in held[c][Layers[n]]
      BY <1>12, AskingCommand DEF ReadLayer
    <2>2. /\ cmd[c].layer \in 1..Len(Layers)
          /\ Layers[cmd[c].layer] \in LayerSet
          /\ Len(Layers) \in Nat
      BY <2>1, LayersAreLayers DEF Questions
    <2>3. found \in held[c][Layers[cmd[c].layer]]
      BY <2>1, <2>2
    <2>4. CASE /\ found = NoFile /\ cmd[c].layer < Len(Layers)
               /\ cmd' = [cmd EXCEPT ![c].layer = @ + 1]
      <3> DEFINE new == [cmd[c] EXCEPT !.layer = @ + 1]
      <3>1. cmd[c].layer + 1 \in 1..Len(Layers)
        BY <2>2, <2>4
      <3>2. /\ new \in Questions /\ new.layer = cmd[c].layer + 1
            /\ new.at = "layer"
        BY <1>12, <2>1, <3>1 DEF Questions, ReadLayer
      <3>3. cmd' = [cmd EXCEPT ![c] = new]
        BY <2>4
      <3> HIDE DEF new
      <3>4. \A n \in 1..(new.layer - 1) : NoFile \in held[c][Layers[n]]
        BY <2>1, <2>2, <2>3, <2>4, <3>2
      <3>5. QED
        BY <1>12, <2>1, <3>2, <3>3, <3>4, QuestionStep DEF ReadLayer
    <2>5. CASE /\ found \in Registry
               /\ cmd' = [cmd EXCEPT ![c].at = "chosen", ![c].provider = found]
      <3> DEFINE new == [cmd[c] EXCEPT !.at = "chosen", !.provider = found]
      <3>1. found \in Providers
        BY <2>5, RegistryIsProviders DEF SettingsInv
      <3>2. /\ new \in Questions /\ new.layer = cmd[c].layer
            /\ new.provider = found
        BY <2>1, <3>1 DEF Questions
      <3>3. cmd' = [cmd EXCEPT ![c] = new]
        BY <2>5 DEF SettingsInv, SettingsTypeOK
      <3> HIDE DEF new
      <3>4. QED
        BY <1>12, <2>1, <2>3, <3>2, <3>3, QuestionStep DEF ReadLayer
    <2>6. CASE Goto(c, "failed")
      <3> DEFINE new == [cmd[c] EXCEPT !.at = "failed"]
      <3>1. new \in Questions /\ new.layer = cmd[c].layer /\ new.at = "failed"
        BY <2>1 DEF Questions
      <3>2. cmd' = [cmd EXCEPT ![c] = new]
        BY <2>6 DEF Goto
      <3> HIDE DEF new
      <3>3. QED
        BY <1>12, <2>1, <3>1, <3>2, QuestionStep DEF ReadLayer
    <2>7. QED
      BY <1>12, <2>4, <2>5, <2>6 DEF ReadLayer
  <1>13. ASSUME NEW c \in Commands, LoadManifest(c)
         PROVE  SettingsInv'
    <2>1. PICK at \in {"clean", "failed"} : Goto(c, at)
      BY <1>13 DEF LoadManifest
    <2> DEFINE new == [cmd[c] EXCEPT !.at = at]
    <2>2. /\ cmd[c] # Idle /\ cmd[c] \in Questions
          /\ \A l \in LayerSet : setting[l] \in held[c][l]
          /\ \A n \in 1..(cmd[c].layer - 1) : NoFile \in held[c][Layers[n]]
          /\ cmd[c].provider \in held[c][Layers[cmd[c].layer]]
      BY <1>13, AskingCommand DEF LoadManifest
    <2>3. /\ new \in Questions /\ new.layer = cmd[c].layer
          /\ new.provider = cmd[c].provider
      BY <2>2 DEF Questions
    <2>4. cmd' = [cmd EXCEPT ![c] = new]
      BY <2>1 DEF Goto
    <2> HIDE DEF new
    <2>5. QED
      BY <1>13, <2>2, <2>3, <2>4, QuestionStep DEF LoadManifest
  <1>14. ASSUME UNCHANGED <<setting, keyfile, cmd, runs, journal, held>>,
                manifests' \in Manifests,
                keytmp' \in [Providers -> Secrets \cup {Part, NoFile}],
                \A c \in Commands : Writes(c) =>
                   keytmp'[cmd[c].provider] = keytmp[cmd[c].provider]
         PROVE  SettingsInv'
    <2>1. SettingsTypeOK'
      BY <1>14 DEF SettingsInv, SettingsTypeOK
    <2>2. \A c \in Commands : ChangeOf(c)' /\ AskOf(c)'
      BY <1>14, OthersChange, OthersAsk DEF SettingsInv
    <2>3. TempInv'
      BY <1>14 DEF SettingsInv, TempInv, Writes
    <2>4. QED
      BY <2>1, <2>2, <2>3 DEF SettingsInv
  <1>15. CASE ChangeManifests \/ UNCHANGED pvars
    BY <1>14, <1>15
    DEF ChangeManifests, pvars, files, SettingsInv, SettingsTypeOK
  <1>16. CASE EditSetting
    <2>1. PICK l \in Edited, v \in Settings : SetLayer(l, v)
      BY <1>16 DEF EditSetting
    <2>2. l \in LayerSet
      BY SettingsAssumption DEF LayerSet
    <2>3. SettingsTypeOK'
      BY <1>16, <2>1, <2>2, SetLayerKeepsHeld
      DEF EditSetting, SettingsInv, SettingsTypeOK
    <2>4. \A c \in Commands : ChangeOf(c)' /\ AskOf(c)'
      BY <1>16, <2>1, <2>2, OthersChange, SetLayerAsk
      DEF EditSetting, SettingsInv
    <2>5. TempInv'
      BY <1>16 DEF EditSetting, SettingsInv, TempInv, Writes
    <2>6. QED
      BY <2>3, <2>4, <2>5 DEF SettingsInv
  <1>17. ASSUME NEW p \in Providers, RemoveStale(p)
         PROVE  SettingsInv'
    <2>1. keytmp' \in [Providers -> Secrets \cup {Part, NoFile}]
      BY <1>17 DEF RemoveStale, SettingsInv, SettingsTypeOK
    <2>2. ASSUME NEW c \in Commands, Writes(c)
          PROVE  keytmp'[cmd[c].provider] = keytmp[cmd[c].provider]
      BY <1>17, <2>2 DEF RemoveStale, Writing, Writes, SettingsInv, SettingsTypeOK
    <2>3. QED
      BY <1>14, <1>17, <2>1, <2>2 DEF RemoveStale, SettingsInv, SettingsTypeOK
  <1>18. ASSUME NEW c \in Commands, ChangeSettings(c)
         PROVE  SettingsInv'
    BY <1>1, <1>18 DEF ChangeSettings
  <1>19. QED
    BY <1>2, <1>4, <1>5, <1>6, <1>7, <1>8, <1>9, <1>10, <1>11, <1>12, <1>13,
       <1>15, <1>16, <1>17, <1>18 DEF Next, CommandStep

LEMMA SettingsInvariant == Spec => []SettingsInv
  BY SettingsInvInit, SettingsInvStep, PTL DEF Spec

(* A stored key is a whole secret, and every file, command and journal     *)
(* entry keeps its type, whichever commands die, race or leave temporary   *)
(* files behind.                                                           *)
THEOREM SettingsTypeCorrect == Spec => []SettingsTypeOK
  <1>1. SettingsInv => SettingsTypeOK
    BY DEF SettingsInv
  <1>2. QED
    BY <1>1, SettingsInvariant, PTL

(* default_provider() answers with a provider that a layer named while the *)
(* question was asked, and every more specific layer was then without its  *)
(* file.                                                                   *)
THEOREM ChoiceStands == Spec => []ChoiceIsNeverReplaced
  <1>1. SettingsInv => ChoiceIsNeverReplaced
    BY DEF SettingsInv, AskOf, ChoiceIsNeverReplaced
  <1>2. QED
    BY <1>1, SettingsInvariant, PTL

-----------------------------------------------------------------------------
(* The store.  Its job is what a command still has to do for its change:   *)
(* the steps that only prepare a file, and questions, are stutters.        *)
Jobs == [c \in Commands |-> JobOf(c)]
Values == [s \in Slots |-> IF s = "default" THEN setting["user"] ELSE keyfile[s]]

LEMMA JobOfChange ==
    ASSUME SettingsTypeOK, NEW c \in Commands, cmd[c] # Idle, cmd[c] \in Changes
    PROVE  /\ Jobs[c] = [slot |-> SlotOf(cmd[c]), content |-> cmd[c].content,
                         stage |-> StageOf(cmd[c].at)]
           /\ Jobs[c] # Store!NoJob
           /\ Jobs[c].stage = StageOf(cmd[c].at)
           /\ Jobs[c].slot = SlotOf(cmd[c])
           /\ Jobs[c].content = cmd[c].content
  <1>1. ~Asking(c)
    BY DEF Asking, Changes
  <1>2. StageOf(cmd[c].at) # "none"
    BY DEF StageOf, Changes, ChangeStages
  <1>3. Jobs[c] = [slot |-> SlotOf(cmd[c]), content |-> cmd[c].content,
                   stage |-> StageOf(cmd[c].at)]
    BY <1>1 DEF Jobs, JobOf
  <1>4. QED
    BY <1>2, <1>3 DEF Store!NoJob

LEMMA JobMoves ==
    ASSUME SettingsTypeOK, NEW c \in Commands, cmd[c] # Idle,
           cmd[c] \in Changes, NEW at \in ChangeStages, Goto(c, at)
    PROVE  /\ Jobs' = [Jobs EXCEPT ![c].stage = StageOf(at)]
           /\ StageOf(at) = StageOf(cmd[c].at) => Jobs' = Jobs
  <1>1. /\ cmd'[c] # Idle /\ cmd'[c] \in Changes
        /\ cmd'[c].at = at
        /\ cmd'[c].op = cmd[c].op
        /\ cmd'[c].provider = cmd[c].provider
        /\ cmd'[c].content = cmd[c].content
        /\ \A d \in Commands \ {c} : cmd'[d] = cmd[d]
    BY MovedChange
  <1>2. /\ SlotOf(cmd'[c]) = SlotOf(cmd[c])
        /\ ~Asking(c)'
    BY <1>1 DEF SlotOf, Asking, Changes
  <1>3. Jobs'[c] = [slot |-> SlotOf(cmd[c]), content |-> cmd[c].content,
                    stage |-> StageOf(at)]
    BY <1>1, <1>2 DEF Jobs, JobOf
  <1>4. \A d \in Commands \ {c} : Jobs'[d] = Jobs[d]
    BY <1>1 DEF Jobs, JobOf, Asking
  <1>5. Jobs[c] = [slot |-> SlotOf(cmd[c]), content |-> cmd[c].content,
                   stage |-> StageOf(cmd[c].at)]
    BY JobOfChange
  <1>6. Jobs'[c] = [Jobs[c] EXCEPT !.stage = StageOf(at)]
    BY <1>3, <1>5
  <1>7. Jobs' = [d \in Commands |-> Jobs'[d]] /\ Jobs = [d \in Commands |-> Jobs[d]]
    BY DEF Jobs
  <1>8. QED
    BY <1>3, <1>4, <1>5, <1>6, <1>7

(* Questions come and go without a job.                                    *)
LEMMA NoJobMoves ==
    ASSUME SettingsTypeOK, NEW c \in Commands,
           cmd[c] = Idle \/ Asking(c), (cmd[c] = Idle \/ Asking(c))',
           \A d \in Commands \ {c} : cmd'[d] = cmd[d]
    PROVE  Jobs' = Jobs
  <1>1. \A d \in Commands : JobOf(d)' = JobOf(d)
    BY DEF JobOf, Asking
  <1>2. QED
    BY <1>1 DEF Jobs

LEMMA FailStep ==
    ASSUME SettingsTypeOK, NEW c \in Commands,
           cmd[c].at \in ChangeStages \ {"clean", "failed"}, Goto(c, "failed"),
           UNCHANGED <<Values, runs, journal>>
    PROVE  Store!StoreNext
  <1>1. cmd[c] # Idle /\ cmd[c] \in Changes
    BY ChangingCommand
  <1>2. Jobs[c].stage \in {"asked", "made"}
    BY <1>1, JobOfChange DEF StageOf, ChangeStages
  <1>3. Jobs' = [Jobs EXCEPT ![c].stage = "failed"]
    BY <1>1, JobMoves DEF StageOf, ChangeStages
  <1>4. Store!Fail(c)
    BY <1>2, <1>3 DEF Store!Fail, Jobs, Values
  <1>5. QED
    BY <1>4 DEF Store!StoreNext

LEMMA SlotIsSlot ==
    ASSUME SettingsInv, NEW c \in Commands, cmd[c] # Idle, cmd[c] \in Changes
    PROVE  SlotOf(cmd[c]) \in Slots
  BY DEF SettingsInv, ChangeOf, Changes, SlotOf, Slots

LEMMA MakeStep ==
    ASSUME SettingsInv, NEW c \in Commands,
           cmd[c].at \in {"write", "rename", "unlink"},
           NEW at \in {"chmod", "record"}, Goto(c, at),
           cmd[c].content = NoFile => Values[SlotOf(cmd[c])] # NoFile,
           Values' = [Values EXCEPT ![SlotOf(cmd[c])] = cmd[c].content],
           UNCHANGED <<runs, journal>>
    PROVE  Store!StoreNext
  <1>1. cmd[c] # Idle /\ cmd[c] \in Changes
    BY ChangingCommand DEF SettingsInv, ChangeStages
  <1>2. /\ Jobs[c].stage = "asked"
        /\ Jobs[c].slot = SlotOf(cmd[c])
        /\ Jobs[c].content = cmd[c].content
    BY <1>1, JobOfChange DEF StageOf, SettingsInv
  <1>3. Jobs' = [Jobs EXCEPT ![c].stage = "made"]
    BY <1>1, JobMoves DEF StageOf, SettingsInv, ChangeStages
  <1>4. Store!Make(c)
    BY <1>2, <1>3 DEF Store!Make, Jobs, Values
  <1>5. QED
    BY <1>4 DEF Store!StoreNext

(* The commands and their files implement the store: a default is made by  *)
(* the rename of its file, a key by the rename of its temporary file, a    *)
(* removal by its unlink, and each is entered by its write to the journal. *)
THEOREM FilesImplementStore == Spec => ImplementsStore
  <1>1. Init => Store!StoreInit
    <2> SUFFICES ASSUME Init
                 PROVE  Store!StoreInit
      OBVIOUS
    <2> DEFINE Contents == [s \in Slots |-> IF s = "default"
                                            THEN Providers \cup {Unusable}
                                            ELSE Secrets \cup {Unusable}]
    <2>1. Values \in [Slots -> {NoFile} \cup UNION {Contents[s] : s \in Slots}]
      <3>1. setting["user"] \in Contents["default"] \cup {NoFile}
        BY LayersAreLayers DEF Init, Settings, Slots
      <3>2. \A s \in Slots : Values[s] \in Contents[s] \cup {NoFile}
        BY <3>1 DEF Values, Init, Slots
      <3>3. Values = [s \in Slots |-> Values[s]]
        BY DEF Values
      <3> HIDE DEF Contents
      <3>4. ASSUME NEW s \in Slots
            PROVE  Values[s] \in {NoFile} \cup UNION {Contents[t] : t \in Slots}
        <4>1. Contents[s] \in {Contents[t] : t \in Slots}
          OBVIOUS
        <4>2. Contents[s] \subseteq UNION {Contents[t] : t \in Slots}
          BY <4>1, Zenon
        <4>3. QED
          BY <3>2, <4>2
      <3>5. QED
        BY <3>3, <3>4
    <2>2. \A s \in Slots : Values[s] \in Contents[s] \cup {NoFile}
      BY LayersAreLayers DEF Init, Settings, Slots, Values
    <2>3. Jobs = [c \in Commands |-> Store!NoJob]
      BY DEF Init, Jobs, JobOf, Store!NoJob
    <2>4. QED
      BY <2>1, <2>2, <2>3 DEF Init, Store!StoreInit, Jobs, Values
  <1>2. SettingsInv /\ [Next]_pvars => [Store!StoreNext]_(Store!storeVars)
    <2> SUFFICES ASSUME SettingsInv, [Next]_pvars
                 PROVE  [Store!StoreNext]_(Store!storeVars)
      OBVIOUS
    <2>0. SettingsTypeOK
      BY DEF SettingsInv
    <2>1. ASSUME UNCHANGED <<Jobs, Values, runs, journal>>
          PROVE  UNCHANGED Store!storeVars
      BY <2>1 DEF Store!storeVars, Jobs, Values
    <2>2. ASSUME UNCHANGED <<setting, keyfile>>
          PROVE  UNCHANGED Values
      BY <2>2 DEF Values
    <2>3. ASSUME NEW c \in Commands, NEW op, NEW p, NEW content, NEW at,
                 Begin(c, op, p, content, at),
                 at \in {"get", "unlink"},
                 \/ /\ op = "default" /\ p \in Providers /\ content = p
                 \/ /\ op = "key" /\ p \in Providers
                    /\ content \in Secrets \cup {Unusable}
                 \/ op = "forget" /\ p \in Providers /\ content = NoFile
                 \/ op = "clear" /\ content = NoFile
          PROVE  Store!StoreNext
      <3> DEFINE new == Command(op, p, content, at)
      <3>1. /\ cmd[c] = Idle /\ cmd'[c] = new
            /\ \A d \in Commands \ {c} : cmd'[d] = cmd[d]
            /\ runs' = [runs EXCEPT ![c] = runs[c] + 1]
            /\ UNCHANGED <<setting, keyfile, journal>>
        BY <2>3 DEF Begin, files, SettingsInv, SettingsTypeOK
      <3>2. /\ new # Idle /\ new.op # "ask"
            /\ new.content = content /\ StageOf(new.at) = "asked"
            /\ SlotOf(new) = IF op \in {"default", "clear"} THEN "default" ELSE p
        BY <2>3 DEF Command, Idle, StageOf, SlotOf
      <3>3. Jobs[c] = Store!NoJob
        BY <3>1 DEF Jobs, JobOf, Store!NoJob
      <3>4. Jobs' = [Jobs EXCEPT ![c] = Store!Job(SlotOf(new), content)]
        <4>1. JobOf(c)' = Store!Job(SlotOf(new), content)
          BY <3>1, <3>2 DEF JobOf, Asking, Store!Job
        <4>2. \A d \in Commands \ {c} : JobOf(d)' = JobOf(d)
          BY <3>1 DEF JobOf, Asking
        <4>3. QED
          BY <4>1, <4>2 DEF Jobs
      <3>5. /\ SlotOf(new) \in Slots
            /\ content \in (IF SlotOf(new) = "default"
                           THEN Providers \cup {Unusable}
                           ELSE Secrets \cup {Unusable}) \cup {NoFile}
        BY <2>3, <3>2, SettingsAssumption DEF Slots
      <3>6. Store!Request(c)
        BY <2>2, <3>1, <3>3, <3>4, <3>5 DEF Store!Request, Jobs, Values
      <3>7. QED
        BY <3>6 DEF Store!StoreNext
    <2>4. ASSUME NEW c \in Commands, Get(c)
          PROVE  [Store!StoreNext]_(Store!storeVars)
      <3>1. cmd[c] # Idle /\ cmd[c] \in Changes
        BY <2>0, <2>4, ChangingCommand DEF Get, ChangeStages
      <3>2. CASE Failed(c)
        BY <2>0, <2>2, <2>4, <3>2, FailStep DEF Get, Failed, files, ChangeStages
      <3>3. CASE Goto(c, "write") /\ UNCHANGED <<files, runs, journal, held>>
        BY <2>0, <2>1, <2>2, <2>4, <3>1, <3>3, JobMoves
        DEF Get, files, StageOf, ChangeStages
      <3>4. QED
        BY <2>4, <3>2, <3>3 DEF Get
    <2>5. ASSUME NEW c \in Commands, WriteDefault(c)
          PROVE  Store!StoreNext
      <3>1. ~Asking(c) /\ cmd[c] # Idle
        BY <2>0, <2>5, ChangingCommand DEF WriteDefault, ChangeStages
      <3>2. /\ SlotOf(cmd[c]) = "default"
            /\ cmd[c].content = cmd[c].provider /\ cmd[c].provider \in Providers
        BY <2>5, <3>1 DEF WriteDefault, SlotOf, SettingsInv, ChangeOf, Asking
      <3>3. CASE Failed(c)
        BY <2>0, <2>2, <2>5, <3>3, FailStep
        DEF WriteDefault, Failed, files, ChangeStages
      <3>4. CASE /\ SetLayer("user", cmd[c].provider)
                 /\ Goto(c, "record")
                 /\ UNCHANGED <<manifests, keyfile, keytmp, runs, journal>>
        <4>1. Values' = [Values EXCEPT !["default"] = cmd[c].provider]
          BY <2>0, <3>4, LayersAreLayers
          DEF SetLayer, Values, Slots, SettingsTypeOK
        <4>2. cmd[c].content # NoFile
          BY <3>2, SettingsAssumption
        <4>3. QED
          BY <2>5, <3>2, <3>4, <4>1, <4>2, MakeStep DEF WriteDefault
      <3>5. QED
        BY <2>5, <3>3, <3>4 DEF WriteDefault
    <2>6. ASSUME NEW c \in Commands, CreateTemp(c)
          PROVE  [Store!StoreNext]_(Store!storeVars)
      <3>1. cmd[c] # Idle /\ cmd[c] \in Changes
        BY <2>0, <2>6, ChangingCommand DEF CreateTemp, ChangeStages
      <3>2. CASE Failed(c)
        BY <2>0, <2>2, <2>6, <3>2, FailStep
        DEF CreateTemp, Failed, files, ChangeStages
      <3>3. CASE /\ Goto(c, "fill")
                 /\ UNCHANGED <<manifests, setting, keyfile, runs, journal, held>>
        BY <2>0, <2>1, <2>2, <2>6, <3>1, <3>3, JobMoves
        DEF CreateTemp, StageOf, ChangeStages
      <3>4. QED
        BY <2>6, <3>2, <3>3 DEF CreateTemp
    <2>7. ASSUME NEW c \in Commands, FillTemp(c)
          PROVE  [Store!StoreNext]_(Store!storeVars)
      <3>1. cmd[c] # Idle /\ cmd[c] \in Changes
        BY <2>0, <2>7, ChangingCommand DEF FillTemp, ChangeStages
      <3>2. CASE Goto(c, "failed")
        BY <2>0, <2>2, <2>7, <3>2, FailStep DEF FillTemp, ChangeStages
      <3>3. CASE Goto(c, "rename")
        BY <2>0, <2>1, <2>2, <2>7, <3>1, <3>3, JobMoves
        DEF FillTemp, StageOf, ChangeStages
      <3>4. QED
        BY <2>7, <3>2, <3>3 DEF FillTemp
    <2>8. ASSUME NEW c \in Commands, RenameTemp(c)
          PROVE  Store!StoreNext
      <3> DEFINE p == cmd[c].provider
      <3>1. ~Asking(c) /\ cmd[c] # Idle
        BY <2>0, <2>8, ChangingCommand DEF RenameTemp, ChangeStages
      <3>2. /\ cmd[c].op = "key" /\ p \in Providers /\ p \in Slots
            /\ SlotOf(cmd[c]) = p /\ p # "default"
            /\ cmd[c].content \in Secrets /\ keytmp[p] = cmd[c].content
        BY <2>8, <3>1, SettingsAssumption
        DEF RenameTemp, SettingsInv, TempInv, ChangeOf, Asking, Writes, SlotOf, Slots
      <3>3. CASE UNCHANGED keyfile /\ Goto(c, "failed")
        BY <2>0, <2>2, <2>8, <3>3, FailStep DEF RenameTemp, ChangeStages
      <3>4. CASE keyfile' = [keyfile EXCEPT ![p] = keytmp[p]] /\ Goto(c, "chmod")
        <4>1. Values' = [Values EXCEPT ![p] = cmd[c].content]
          BY <2>0, <2>8, <3>2, <3>4 DEF RenameTemp, Values, Slots, SettingsTypeOK
        <4>2. cmd[c].content # NoFile
          BY <3>2, SettingsAssumption
        <4>3. QED
          BY <2>8, <3>2, <3>4, <4>1, <4>2, MakeStep DEF RenameTemp
      <3>5. QED
        BY <2>8, <3>3, <3>4 DEF RenameTemp
    <2>9. ASSUME NEW c \in Commands, Chmod(c)
          PROVE  [Store!StoreNext]_(Store!storeVars)
      <3>1. cmd[c] # Idle /\ cmd[c] \in Changes
        BY <2>0, <2>9, ChangingCommand DEF Chmod, ChangeStages
      <3>2. CASE Goto(c, "failed")
        BY <2>0, <2>2, <2>9, <3>2, FailStep DEF Chmod, files, ChangeStages
      <3>3. CASE Goto(c, "record")
        BY <2>0, <2>1, <2>2, <2>9, <3>1, <3>3, JobMoves
        DEF Chmod, files, StageOf, ChangeStages
      <3>4. QED
        BY <2>9, <3>2, <3>3 DEF Chmod
    <2>10. ASSUME NEW c \in Commands, Unlink(c)
           PROVE  Store!StoreNext
      <3>1. ~Asking(c) /\ cmd[c] # Idle /\ cmd[c] \in Changes
        BY <2>0, <2>10, ChangingCommand DEF Unlink, ChangeStages
      <3>2. /\ cmd[c].op \in {"forget", "clear"} /\ cmd[c].content = NoFile
            /\ SlotOf(cmd[c]) \in Slots
            /\ cmd[c].op = "clear" => SlotOf(cmd[c]) = "default"
            /\ cmd[c].op = "forget" => /\ SlotOf(cmd[c]) = cmd[c].provider
                                       /\ cmd[c].provider \in Providers
        BY <2>10, <3>1, SlotIsSlot
        DEF Unlink, SettingsInv, ChangeOf, Asking, SlotOf, Changes
      <3>3. Values[SlotOf(cmd[c])] = Target(c)
        BY <3>2, SettingsAssumption DEF Values, Target
      <3>4. CASE Failed(c)
        BY <2>0, <2>2, <2>10, <3>4, FailStep DEF Unlink, Failed, files, ChangeStages
      <3>5. CASE /\ Target(c) # NoFile
                 /\ IF cmd[c].op = "clear"
                    THEN SetLayer("user", NoFile) /\ UNCHANGED keyfile
                    ELSE keyfile' = [keyfile EXCEPT ![cmd[c].provider] = NoFile]
                         /\ UNCHANGED <<setting, held>>
                 /\ Goto(c, "record")
                 /\ UNCHANGED <<manifests, keytmp, runs, journal>>
        <4>1. Values' = [Values EXCEPT ![SlotOf(cmd[c])] = NoFile]
          <5>1. CASE cmd[c].op = "clear"
            BY <2>0, <3>2, <3>5, <5>1, LayersAreLayers
            DEF SetLayer, Values, Slots, SettingsTypeOK
          <5>2. CASE cmd[c].op = "forget"
            <6>1. /\ SlotOf(cmd[c]) = cmd[c].provider
                  /\ cmd[c].provider \in Providers
                  /\ cmd[c].provider # "default"
              BY <3>2, <5>2, SettingsAssumption
            <6>2. keyfile' = [keyfile EXCEPT ![cmd[c].provider] = NoFile]
                  /\ UNCHANGED setting
              BY <3>5, <5>2
            <6>3. QED
              BY <2>0, <6>1, <6>2 DEF Values, Slots, SettingsTypeOK
          <5>3. QED
            BY <3>2, <5>1, <5>2
        <4>2. QED
          BY <2>10, <3>2, <3>3, <3>5, <4>1, MakeStep DEF Unlink
      <3>6. CASE /\ Target(c) = NoFile
                 /\ Goto(c, "clean")
                 /\ UNCHANGED <<files, runs, journal, held>>
        <4>1. /\ Jobs[c].stage = "asked" /\ Jobs[c].content = NoFile
              /\ Jobs[c].slot = SlotOf(cmd[c])
          BY <2>0, <2>10, <3>1, <3>2, JobOfChange DEF Unlink, StageOf
        <4>2. Jobs' = [Jobs EXCEPT ![c].stage = "clean"]
          BY <2>0, <3>1, <3>6, JobMoves DEF StageOf, ChangeStages
        <4>3. Store!FindNothing(c)
          BY <2>2, <3>3, <3>6, <4>1, <4>2
          DEF Store!FindNothing, Jobs, Values, files
        <4>4. QED
          BY <4>3 DEF Store!StoreNext
      <3>7. QED
        BY <2>10, <3>4, <3>5, <3>6 DEF Unlink
    <2>11. ASSUME NEW c \in Commands, Record(c)
           PROVE  Store!StoreNext
      <3>1. cmd[c] # Idle /\ cmd[c] \in Changes
        BY <2>0, <2>11, ChangingCommand DEF Record, ChangeStages
      <3>2. CASE Failed(c)
        BY <2>0, <2>2, <2>11, <3>2, FailStep DEF Record, Failed, files, ChangeStages
      <3>3. CASE /\ journal' = journal \cup
                       {[command |-> c, run |-> runs[c],
                         slot |-> SlotOf(cmd[c]), content |-> cmd[c].content]}
                 /\ Goto(c, "clean")
                 /\ UNCHANGED <<files, runs, held>>
        <4>1. /\ Jobs[c].stage = "made" /\ Jobs[c].content = cmd[c].content
              /\ Jobs[c].slot = SlotOf(cmd[c])
          BY <2>0, <2>11, <3>1, JobOfChange DEF Record, StageOf
        <4>2. Jobs' = [Jobs EXCEPT ![c].stage = "clean"]
          BY <2>0, <3>1, <3>3, JobMoves DEF StageOf, ChangeStages
        <4>3. Store!Enter(c)
          BY <2>2, <3>3, <4>1, <4>2
          DEF Store!Enter, Store!Entry, Jobs, Values, files
        <4>4. QED
          BY <4>3 DEF Store!StoreNext
      <3>4. QED
        BY <2>11, <3>2, <3>3 DEF Record
    <2>12. ASSUME NEW c \in Commands,
                  AskDefault(c) \/ ReadLayer(c) \/ LoadManifest(c)
           PROVE  UNCHANGED Store!storeVars
      <3>1. cmd[c] = Idle \/ Asking(c)
        BY <2>12, AskingCommand DEF AskDefault, ReadLayer, LoadManifest
      <3>2. /\ \A d \in Commands \ {c} : cmd'[d] = cmd[d]
            /\ UNCHANGED <<setting, keyfile, runs, journal>>
        BY <2>0, <2>12
        DEF AskDefault, ReadLayer, LoadManifest, Goto, files, SettingsTypeOK
      <3>3. Asking(c)'
        <4>1. CASE AskDefault(c)
          BY <2>0, <4>1 DEF AskDefault, Asking, Command, Idle, SettingsTypeOK
        <4>2. CASE ReadLayer(c) \/ LoadManifest(c)
          <5>1. cmd[c] \in Questions
            BY <4>2, AskingCommand DEF ReadLayer, LoadManifest
          <5>2. cmd'[c].op = "ask" /\ cmd'[c].at # "idle"
            BY <2>0, <4>2, <5>1
            DEF ReadLayer, LoadManifest, Goto, Questions, SettingsTypeOK
          <5>3. QED
            BY <5>2 DEF Asking, Idle
        <4>3. QED
          BY <2>12, <4>1, <4>2
      <3>4. QED
        BY <2>0, <2>1, <2>2, <3>1, <3>2, <3>3, NoJobMoves
    <2>13. ASSUME NEW c \in Commands, Leave(c)
           PROVE  [Store!StoreNext]_(Store!storeVars)
      <3>1. /\ cmd[c] # Idle /\ cmd'[c] = Idle
            /\ \A d \in Commands \ {c} : cmd'[d] = cmd[d]
            /\ UNCHANGED <<setting, keyfile, runs, journal>>
        BY <2>0, <2>13 DEF Leave, files, SettingsTypeOK
      <3>2. CASE Asking(c)
        BY <2>0, <2>1, <2>2, <3>1, <3>2, NoJobMoves
      <3>3. CASE ~Asking(c)
        <4>1. Jobs[c] # Store!NoJob
          BY <2>0, <3>1, <3>3, CommandRecord, JobOfChange
        <4>2. Jobs' = [Jobs EXCEPT ![c] = Store!NoJob]
          <5>1. /\ JobOf(c)' = Store!NoJob
                /\ \A d \in Commands \ {c} : JobOf(d)' = JobOf(d)
            BY <3>1 DEF JobOf, Asking, Store!NoJob
          <5>2. QED
            BY <5>1 DEF Jobs
        <4>3. Store!Quit(c)
          BY <2>2, <3>1, <4>1, <4>2 DEF Store!Quit, Jobs, Values
        <4>4. QED
          BY <4>3 DEF Store!StoreNext
      <3>4. QED
        BY <3>2, <3>3
    <2>14. CASE EditSetting
      <3>1. PICK l \in Edited, v \in Settings : SetLayer(l, v)
        BY <2>14 DEF EditSetting
      <3>2. UNCHANGED <<Jobs, keyfile, runs, journal>>
        BY <2>14 DEF EditSetting, Jobs, JobOf, Asking
      <3>3. CASE l # "user"
        <4>1. setting'["user"] = setting["user"]
          BY <2>0, <3>1, <3>3, LayersAreLayers DEF SetLayer, SettingsTypeOK
        <4>2. UNCHANGED Values
          BY <3>2, <4>1 DEF Values
        <4>3. QED
          BY <2>1, <3>2, <4>2
      <3>4. CASE l = "user"
        <4>1. Values' = [Values EXCEPT !["default"] = v]
          BY <2>0, <3>1, <3>2, <3>4, LayersAreLayers
          DEF SetLayer, Values, Slots, SettingsTypeOK
        <4>2. v \in Providers \cup {Unusable} \cup {NoFile}
          BY DEF Settings
        <4>3. Store!Edit("default")
          BY <3>2, <4>1, <4>2 DEF Store!Edit, Jobs, Values, Slots
        <4>4. "user" \in Edited
          BY <3>4
        <4>5. QED
          BY <4>3, <4>4 DEF Store!StoreNext
      <3>5. QED
        BY <3>3, <3>4
    <2>15. CASE \/ ChangeManifests
                \/ \E p \in Providers : RemoveStale(p)
                \/ UNCHANGED pvars
      <3>1. UNCHANGED <<setting, keyfile, cmd, runs, journal>>
        BY <2>15 DEF ChangeManifests, RemoveStale, pvars, files
      <3>2. UNCHANGED Jobs
        BY <3>1 DEF Jobs, JobOf, Asking
      <3>3. QED
        BY <2>1, <2>2, <3>1, <3>2
    <2>16. ASSUME NEW c \in Commands, ChangeSettings(c)
           PROVE  Store!StoreNext
      BY <2>3, <2>16 DEF ChangeSettings
    <2>17. QED
      BY <2>4, <2>5, <2>6, <2>7, <2>8, <2>9, <2>10, <2>11, <2>12, <2>13,
         <2>14, <2>15, <2>16 DEF Next, CommandStep
  <1>3. QED
    BY <1>1, <1>2, SettingsInvariant, PTL
    DEF Spec, ImplementsStore, Store!StoreSpec
=============================================================================
