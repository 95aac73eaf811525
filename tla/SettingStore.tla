---------------------------- MODULE SettingStore ----------------------------
(* What `shinobi provider default`, `key` and `forget` promise about the   *)
(* settings they change, whatever files they do it with: a setting changes *)
(* whole and at once, because a command asked for that change, and the     *)
(* journal gets the change after it was made.  A command that reports      *)
(* success has its change in the journal, or found nothing to remove.      *)
EXTENDS Naturals

CONSTANTS
    Commands,
    Slots,      \* the settings: the default provider, and a key per provider
    Edited,     \* the settings people also edit by hand
    Contents,   \* Contents[s]: what setting s can be
    Absent

VARIABLES
    value,      \* value[s]: the setting, or Absent
    job,        \* job[c]: the change the command was asked for
    runs,       \* runs[c]: how many changes the command was asked for
    journal     \* the changes recorded

storeVars == <<value, job, runs, journal>>

NoJob == [stage |-> "none"]

Job(s, content) == [slot |-> s, content |-> content, stage |-> "asked"]

StoreInit ==
    /\ value \in {v \in [Slots -> {Absent} \cup
                                  UNION {Contents[s] : s \in Slots}] :
                     \A s \in Slots : v[s] \in Contents[s] \cup {Absent}}
    /\ job = [c \in Commands |-> NoJob]
    /\ runs = [c \in Commands |-> 0]
    /\ journal = {}

Request(c) ==
    /\ job[c] = NoJob
    /\ runs' = [runs EXCEPT ![c] = @ + 1]
    /\ \E s \in Slots : \E content \in Contents[s] \cup {Absent} :
          job' = [job EXCEPT ![c] = Job(s, content)]
    /\ UNCHANGED <<value, journal>>

(* Nothing is removed that was not there.                                  *)
Make(c) ==
    /\ job[c].stage = "asked"
    /\ job[c].content = Absent => value[job[c].slot] # Absent
    /\ value' = [value EXCEPT ![job[c].slot] = job[c].content]
    /\ job' = [job EXCEPT ![c].stage = "made"]
    /\ UNCHANGED <<runs, journal>>

Entry(c) == [command |-> c, run |-> runs[c], slot |-> job[c].slot,
             content |-> job[c].content]

Enter(c) ==
    /\ job[c].stage = "made"
    /\ journal' = journal \cup {Entry(c)}
    /\ job' = [job EXCEPT ![c].stage = "clean"]
    /\ UNCHANGED <<value, runs>>

FindNothing(c) ==
    /\ job[c].stage = "asked"
    /\ job[c].content = Absent
    /\ value[job[c].slot] = Absent
    /\ job' = [job EXCEPT ![c].stage = "clean"]
    /\ UNCHANGED <<value, runs, journal>>

(* With the change made, or without.                                       *)
Fail(c) ==
    /\ job[c].stage \in {"asked", "made"}
    /\ job' = [job EXCEPT ![c].stage = "failed"]
    /\ UNCHANGED <<value, runs, journal>>

(* The command exits, or is killed.                                        *)
Quit(c) ==
    /\ job[c] # NoJob
    /\ job' = [job EXCEPT ![c] = NoJob]
    /\ UNCHANGED <<value, runs, journal>>

Edit(s) ==
    /\ \E v \in Contents[s] \cup {Absent} : value' = [value EXCEPT ![s] = v]
    /\ UNCHANGED <<job, runs, journal>>

StoreNext ==
    \/ \E c \in Commands :
          \/ Request(c) \/ Make(c) \/ Enter(c) \/ FindNothing(c) \/ Fail(c) \/ Quit(c)
    \/ \E s \in Edited : Edit(s)

StoreSpec == StoreInit /\ [][StoreNext]_storeVars
=============================================================================
